SPECIFICATION OfflineSpec
CONSTANTS
    Inputs <- SomeInputs
    Bad = Bad
    Partitions = 2
    WorkerCounts = {1, 2}
    Sha <- ShaOfContent
    OldRelease = OldRelease
    NoRelease = NoRelease
    CallIds = {1, 2}
    NoId = 0
    NoText = NoText
    NoStatus = NoStatus
    NoProjection = NoProjection
    Alphabet <- SomeMessages
    Projections <- SomeProjections
    FactSets <- SomeFacts
    Readiness <- SomeReadiness
    MaxMessages = 5
    MinTurns = 3
    MinCalls = 1
    MinResults = 1
    Data <- SomeData
    ReleaseDirs <- SomeDirs
    Publishers = {p1, p2}
    MaxChanges = 1
    MaxPackages = 1
    MaxStarts = 2
    NoDir = NoDir
    NoCommit = NoCommit
    FramesOf <- SomeFrames
    Families = {"responses", "anthropic", "chat"}
    MaxFrames = 3
    CaptureLimit = 2
    NoOutput = NoOutput
    Unset = Unset
    CaptureFiles <- SomeFiles
    AssembleConfigs <- SomeConfigs
    PartitionOf <- ByNumber
    NoAssembly = NoAssembly
    OldAssembly = OldAssembly
    Styles <- SomeStyles
    Texts = {"go on", "well"}
    Calls = {1}
    Sources = {"codex_hook", "codex.tool_result"}
    MaxTalk = 4
    MaxRecords = 3
    NoItem = NoItem
    CallEvidence <- SomeEvidence
    NoKey = NoKey
    NoCount = 100
    Work <- SomeWork
    Outcomes = {"completed", "success", "failed"}
    Rollouts = {1, 2}
    MaxEvents = 10
    MaxCalls = 3
    NoNode = NoNode
    ToolCalls = {1, 2}
    Turns = {1, 2}
    Deliveries = {"whole", "failed"}
    Plans <- SomePlans
    Corpora <- SomeCorpora
    Edits <- SomeEdits
    Inquired = "s"
    Broken = Broken
    NoInspection = NoInspection
    Exporters = {e1, e2}
    MaasInputs <- SomeMaasInputs
    MaasConfigs <- SomeMaasConfigs
    Trees <- SomeTrees
    MaxRuns = 2
    MaxBatchBytes = 10
    NoRun = NoRun
SYMMETRY OfflineSymmetry
INVARIANTS
    ReleaseAccounts
    AcceptedIsWhole
    PublishedIsOneBuild
    EvidenceIsTrue
    AssemblyIsWhole
    SessionIsTrue
    EvidenceIsCounted
    DagsAreTrue
    MaasIsTrue
    RuntimeIsEarned
    SourcesAreTrue
PROPERTY PublicationCommitsLast
CHECK_DEADLOCK FALSE
