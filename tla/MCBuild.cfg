CONSTANTS
    Namespaces <- MCNamespaces
    MaxLines = 3
    Files <- MCFiles
    LinesOf <- MCLinesOf
    MaxLinesOf <- MCMaxLinesOf
    Precedes <- MCPrecedes
    NamePrecedes <- MCNamePrecedes
    Builds <- MCBuilds
SPECIFICATION MCSpec
INVARIANTS
    LookupIsExact
    FlagsWordFound
    ReferencesAreCompiled
    NamespacesAsAsked
    BitsReportWhatIsCompiled
CHECK_DEADLOCK FALSE
