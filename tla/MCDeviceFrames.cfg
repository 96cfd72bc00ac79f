CONSTANTS
    Tasks = {t1, t2, t3}
    MaxFrames = 4
SPECIFICATION FairSpec
INVARIANTS
    TypeOK
    NeverTogether
    QueuedOnce
PROPERTIES
    ImplementsFrameWork
    FrameEnds
    ExitsAtLast
