\* A package that only a patch reaches.
SPECIFICATION Spec

CONSTANTS
    Package <- MCPackage
    File <- MCFile
    Home <- MCHome
    External = {0}
    None = None
    WidenCeiling = 3
    Plans <- PatchPlans

INVARIANT
    PackagesAreWhole
