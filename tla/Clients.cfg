SPECIFICATION Spec
CONSTANTS
    c1 = c1
    c2 = c2
    c3 = c3
    CardId = {c1, c2, c3}
    SeedStatus <- CardSeeds
    SeedSerials <- ListSeeds
    MaxDrafts = 2
    FirstLanyard = 8
    FirstCard = 9
    dst_v = dst_v
    england_hook = england_hook
    custom = custom
    Item = {dst_v, england_hook, custom}
    BuiltIn <- ItemList
    Code = {"dst-v", "16mm-eh", "16mm-j"}
    Answers <- ItemAnswers
    Fallback <- CodeFallback
    Quantity <- Quantities
    MaxMoves = 3
    FirstLabourer = rupa
    Labourer = {rupa, golu}
    FirstFitter = rupa
    Fitter = {rupa, golu}
    LinkedOrder = {o1, o2}
    TypedNo = {2}
    BuiltInVouchers <- VoucherSeeds
    MaxLedger = 4
    MaxNo = 4
    Word = {"lanyard", "card"}
    MaxAsked = 2
    FloorTask = {t1, t2}
    MaxPresses = 3
INVARIANTS
    PrintedIsApproved
    SerialsDescend
    OptionsWereApplied
    DrawerShowsStock
    SentIsLogged
    AssignedNumbersDiffer
    SignedOutStaysOut
    UncheckedIsOffline
    CompletedWasRecorded
    ScrapHasProduction
PROPERTIES
    LoadingEnds
    QueryGetsAnswered
