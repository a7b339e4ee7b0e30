SPECIFICATION Spec
CONSTANTS
    Lists <- SomeLists
    Asks <- SomeAsks
    MaxSteps = 2
    Titles <- SomeTitles
    GroupNames = {"g", "h", "i"}
    MaxTasks = 2
    MaxGroups = 2
    Fresh = {"f1", "f2", "f3"}
    Default = "new"
    SessionKeys = {"new", "old"}
    None = None
    Exchanges <- SomeExchanges
INVARIANTS FilterMeansWhatItSays SavedTextReadsBack ReferencesFollow EveryConflictAnswered
PROPERTY OnlyTheTaskChanges
CHECK_DEADLOCK FALSE
