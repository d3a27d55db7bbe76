\* The registry as main builds it, without the rule engine.
SPECIFICATION Spec
CONSTANTS
    h1 = h1
    h2 = h2
    Hook = {h1, h2}
    Scene <- Rulings
    ExtensionOf <- Suffix
    InWorkflows <- Workflows
    NumberOf <- RequestNumber
    TextOf <- MessageOf
    FileText <- FileMessage
    Unreadable <- Unread
    PathOf <- Components
    BranchOf <- NameOf
    RequestOf <- BodyOf
    RequestText <- MessageOf
    LeadingType <- TypeOfTitle
    LabelsOf <- Labels
    SkipsCI <- Skipping
    FileBody <- BodyIn
    PullRequest <- RequestAt
    NoAnswer <- Silence
    LintFaults <- Faulty
    ActionsIn <- Uses
    SecretsIn <- Keys
    SizeOf <- Len
    Shell <- ShebangOf
    Hits <- HitsText
    HitsAnyCase <- HitsText
    Compiles <- Always
    NameRank <- RankOf
    Underscored <- WithUnderscore
INVARIANT RulesDecide
CHECK_DEADLOCK FALSE
