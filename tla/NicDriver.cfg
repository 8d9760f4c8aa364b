CONSTANT
    N = 8
SPECIFICATION Spec
CHECK_DEADLOCK FALSE
INVARIANTS
    TypeOK
    RingInOrder
    WaitingIsSignalled
    MaskReachesCard
PROPERTY
    PacketsTaken
