\* The -env flag, in a form that flag.Parse accepts and the scan does not know.
SPECIFICATION Spec
CONSTANTS
    FlagText = flagText
    EnvText = envText
    FileText = fileText
    Value = {flagText, envText, fileText}
    None = None
    Empty = Empty
    BuiltIn = builtIn
    Malformed = Malformed
    FlagStrings <- MCFlagStrings
    EnvStrings <- MCEnvStrings
    FileStrings <- MCFileStrings
    EnvForm = {"-env=", "--env="}
CHECK_DEADLOCK FALSE
INVARIANTS
    EnvFlagWins
