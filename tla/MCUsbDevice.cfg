SPECIFICATION FairSpec
CONSTANTS
    Requests = {"getDesc", "getMaxLun", "setAddress", "setConf", "unconf", "setIface"}
    Early = {}
INVARIANTS
    TypeOK
    AnswersTheRequest
    HostAndDeviceAgree
    LocksBalanced
    DarkWhenSuspended
PROPERTIES
    AddressAfterHandshake
    EveryTransferEnds
    DriverFollowsBus
    RequestIsServed
