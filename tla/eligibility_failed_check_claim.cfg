SPECIFICATION Spec
CONSTANTS
    Repos = {plain, templated, named}
    Named = {named}
    FromTemplate = {templated}
    Markable = {plain}
    Later = {templated}
    Handlers = {h1}
    Sentinel = Sentinel
    NoRepo = NoRepo
    PageSize = 2
PROPERTY FailedCheckProceeds
CHECK_DEADLOCK FALSE
