\* Two hook processes at once, in each of the scenes.
SPECIFICATION Spec
CONSTANTS
    h1 = h1
    h2 = h2
    Hook = {h1, h2}
    Scene <- Scenes
    ExtensionOf <- Suffix
    InWorkflows <- Workflows
    NumberOf <- RequestNumber
    TextOf <- MessageOf
    FileText <- FileMessage
    Unreadable <- Unread
    PathOf <- Components
    BranchOf <- NameOf
    RequestOf <- BodyOf
    RequestText <- MessageOf
    LeadingType <- TypeOfTitle
    LabelsOf <- Labels
    SkipsCI <- Skipping
    FileBody <- BodyIn
    PullRequest <- RequestAt
    NoAnswer <- Silence
    LintFaults <- Faulty
    ActionsIn <- Uses
    SecretsIn <- Keys
    SizeOf <- Len
    Shell <- ShebangOf
    Hits <- HitsText
    HitsAnyCase <- HitsText
    Compiles <- Always
    NameRank <- RankOf
    Underscored <- WithUnderscore
SYMMETRY Symmetric
INVARIANTS TypeOK CleanEditsPass RulesObeyed DisabledAreSilent
PROPERTIES MessagesConform ChainsAreClear PushesAvoidBlocked CleanStaysClean
CHECK_DEADLOCK FALSE
