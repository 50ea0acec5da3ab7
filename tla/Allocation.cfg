\* Files of up to three blocks and their preallocated tail, on every platform.
CONSTANTS
    MaxLength = 3
    BlockCount = 8
SPECIFICATION Spec
INVARIANTS TypeOK PromisedIsBacked AttributeComesBack
PROPERTIES CallKeepsTheFile
