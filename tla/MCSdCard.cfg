SPECIFICATION FairSpec
CONSTANTS
    Kinds = {"sd1", "sd2", "sdhc", "mmc", "alien"}
    CounterSize = 5
    Requests = {1, 2, 3}
INVARIANTS
    TypeOK
    LayersAgree
    AddressedInItsUnit
    GoodCapacityIsTheCards
    ToldBeforeData
    NeverDelaysOnTheSpot
PROPERTIES
    ImplementsBlockStream
    EndsSettled
    PluggedCardSettles
