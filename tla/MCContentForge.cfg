SPECIFICATION Spec
CONSTANTS
    p1 = p1
    p2 = p2
    Procs <- MCProcs
    TTS_WAITS = 1
    VIDEO_WAITS = 1
INVARIANTS OwnUnlessOverlapped RowIsWhole AssembledHasVideo
PROPERTY ForgeEnds
