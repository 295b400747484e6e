SPECIFICATION FairSpec
CONSTANTS
    Irqs = {"ETHRX", "ETHTX"}
    CountMod = 3
    FrameNibbles = {5, 8}
    Kinds <- RxKinds
    MaxFrames = 3
    MinGap = 2
    Targets <- NoTargets
    MaxTries = 1
    MaxTimeout = 0
    ArpBytes = 1
    UdpBytes = 1
    MaxSend = 0
INVARIANTS UdpTypeOK SlotExclusive FramesWhole OvertakenByOne
PROPERTIES SlotsReturn
