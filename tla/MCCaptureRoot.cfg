\* A candidate two levels below the volume root, reached directly and through
\* drive letters that name a directory, with every mix of access rules.
CONSTANTS
    Depth = 2
    User = "user"
    Candidates <- MCCandidates
    VolumeDescriptor <- MCVolumeDescriptor
    DirectoryDescriptor <- MCDirectoryDescriptor
    StrayDescriptor <- MCStrayDescriptor
    PriorDescriptor <- MCPriorDescriptor
SPECIFICATION Spec
INVARIANTS AdmittedPathStays EvidenceIsPrivate
CHECK_DEADLOCK FALSE
