\* Two prints on one printer, each of which may break off.
CONSTANTS
    Profiles <- MCProfiles
    Images <- MCImages
    Densities <- MCDensities
    NoDensity = NoDensity
    Copies <- MCCopies
    PackedSizes <- MCPacked
    MaxJobs = 2
SPECIFICATION Spec
INVARIANTS TypeOK LabelsAreOwn CopiesPrinted Understood
\* The printer is left alone after MaxJobs prints.
CHECK_DEADLOCK FALSE
