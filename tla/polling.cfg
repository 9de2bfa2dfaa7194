SPECIFICATION FairPollSpec
CONSTANTS
    Repos = {plain, templated, named}
    Named = {named}
    FromTemplate = {templated}
    Markable = {plain}
    Later = {templated}
    Handlers = {h1}
    Sentinel = Sentinel
    NoRepo = NoRepo
    PageSize = 2
    RefreshEvery = 2
    MaxItems = 2
INVARIANTS
    TypeOK
    PollTypeOK
    NoStaleYes
    
PROPERTIES
    CompleteRefresh
    StaleYesHeals
    WrongNoHeals
CHECK_DEADLOCK FALSE
