SPECIFICATION Spec
CONSTANTS
    Scene <- MCScene
    FirstFrame = 3
    MaxFrames = 2
    MaxCalls = 3
    ServerVersions <- MCServerVersions
    Configurations <- MCConfigurations
    AxisChoices <- MCAxisChoices
    SubjectNames = {"Ann"}
    HapticDevices = {"EMG"}
    CameraFilters <- MCCameraFilters
    Skews <- MCSkews
INVARIANTS
    FrameAsSent
    FrameSound
    EnumerationsAgree
    NamesResolve
    LinksResolve
    RotationsDescribed
    PosesCompose
PROPERTIES
    ImplementsExchange
    LightweightAsFull
    SamplesContinue
CHECK_DEADLOCK FALSE
