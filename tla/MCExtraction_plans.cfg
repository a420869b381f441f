\* Every small import graph and profile without patches, and every series of
\* up to two patches over a few of them.
SPECIFICATION Spec

CONSTANTS
    Package <- MCPackage
    File <- MCFile
    Home <- MCHome
    External = {0}
    None = None
    WidenCeiling = 3
    Plans <- AllPlans

INVARIANTS
    ShipsWhatIsDescribed
    AllOrNothing
