SPECIFICATION Spec
CONSTANTS
    Lists <- SomeLists
    Asks <- SomeAsks
    MaxSteps = 0
    Titles = {}
    GroupNames = {}
    MaxTasks = 0
    MaxGroups = 0
    Fresh = {"f1", "f2", "f3"}
    Default = "new"
    SessionKeys = {"new", "old"}
    None = None
    Exchanges <- SomeExchanges
INVARIANT DuplicatesNamed
CHECK_DEADLOCK FALSE
