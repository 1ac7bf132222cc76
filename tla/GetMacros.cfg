\* Three files of three tables and five command lines; the stack holds
\* three table walks, as deep as an import chain of three tables goes.
CONSTANTS
    Offs = {1, 2, 3}
    Files <- MCFiles
    Inputs <- MCInputs
    NoMacros = NoMacrosV
    NoDie = NoDieV
    NoMacrosV = NoMacrosV
    NoDieV = NoDieV
    MaxFrames = 3
SPECIFICATION Spec
PROPERTY Finishes
CHECK_DEADLOCK FALSE
