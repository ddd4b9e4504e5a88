CONSTANTS
    Mounts = {m1, m2, m3}
    Handles <- MCHandles
    MaxBatch = 1
    MaxEvents = 5
    MaxClicks = 2
SPECIFICATION Spec
INVARIANTS OneLoop PausedUnseen OneContext
PROPERTIES ThemeShows WavesShow ButtonReturns
CHECK_DEADLOCK FALSE
