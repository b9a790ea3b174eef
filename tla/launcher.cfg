\* Every invocation of up to five settings.
CONSTANTS
    NotGiven = NotGiven
    MaxSettings = 5
    EnvValues <- MCEnvValues
    FlagValues <- MCFlagValues
    HostFiles <- MCHostFiles
SPECIFICATION Spec
INVARIANTS TypeOK LaunchedLikeLocal HostFilesKept
