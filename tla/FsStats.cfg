\* Words of 16 values: cluster sizes from 0 to 9, and counts whose products
\* with them fit, wrap, or are negative as signed words.
CONSTANTS
    Modulus = 16
    Count = {0, 2, 9}
    Part = {0, 1, 3}
SPECIFICATION Spec
INVARIANTS TypeOK FiguresAreExact NonsenseIsRefused
