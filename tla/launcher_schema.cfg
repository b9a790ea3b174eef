\* Every invocation of up to two settings.
CONSTANTS
    NotGiven = NotGiven
    MaxSettings = 2
    EnvValues <- MCEnvValues
    FlagValues <- MCFlagValues
    HostFiles <- MCHostFiles
SPECIFICATION Spec
INVARIANTS SchemaDoorsAgree
