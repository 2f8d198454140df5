CONSTANTS
    Procs = {p1, p2}
    NoKey = "no key"
    DevKey = "dev"
    Gone = "gone"
    Today = 2
    MaxRetries = 1
    MaxCommands = 2
    MaxChanges = 1
    EnvKeys <- MCEnvKeys
    KeyFiles <- MCKeyFiles
    RandomKeys <- MCRandomKeys
    InitialSessions <- MCInitialSessions
    VaultCommands <- MCVaultCommands
    Content <- MCContent
    InitialFile <- MCInitialFile
    Later <- MCLater
    Issues <- MCIssues
    Providers <- MCProviders
    Replies <- MCReplies
    AssistCommands <- MCAssistCommands
SPECIFICATION Spec
SYMMETRY ProcSymmetry
CHECK_DEADLOCK FALSE
INVARIANTS
    TypeOK
    RestoredAsScanned
    MappingsStayReadable
    AuditIsComplete
    DangerousRulesNeedForce
