SPECIFICATION Spec

CONSTANTS
    Connections = {"c1", "c2", "c3"}

INVARIANTS
    CleanExitMeansDrained

PROPERTIES
    ShutdownEnds

CHECK_DEADLOCK FALSE
