\* A template is set up and upgraded twice over: releases and profiles move on,
\* runs fail or are killed anywhere, and the operator edits meanwhile.
SPECIFICATION FairSpec
CHECK_DEADLOCK FALSE

CONSTANTS
    Releases = {1, 2, 3}
    Profiles = {1, 2}
    MaxInterrupts = 3
    MaxEdits = 2
    TempsIgnored = FALSE

INVARIANTS
    PresentBeforeMissing
    AppliedIsWhole

PROPERTIES
    KeepsWork
    Completes
