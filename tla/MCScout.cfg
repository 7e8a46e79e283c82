SPECIFICATION Spec
CONSTANTS
    Viewers = {v1, v2}
    Listeners = {l1, l2}
    IdleTimeout = 3
    FrameWait = 1
    Quantum = 64
    ChunkMs = {32, 128}
    UsizeMod = 3
    CmdBound = 3
INVARIANT OnlyRacesStarve
PROPERTIES NoOldFrame IdlesDown GoneClientsLeave
