SPECIFICATION FairSpec
CONSTANTS
    Irqs = {"ETHRX", "ETHTX"}
    CountMod = 2
    FrameNibbles = {2}
    Kinds <- TxKinds
    MaxFrames = 1
    MinGap = 2
    Targets <- TwoTargets
    MaxTries = 2
    MaxTimeout = 1
    ArpBytes = 1
    UdpBytes = 1
    MaxSend = 4
INVARIANTS SendSynchronous CacheSound
PROPERTIES SendReturns ResolveReturns
