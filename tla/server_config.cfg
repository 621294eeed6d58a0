\* Every combination of flags, environment and files.
SPECIFICATION Spec
CONSTANTS
    FlagText = flagText
    EnvText = envText
    FileText = fileText
    Value = {flagText, envText, fileText}
    None = None
    Empty = Empty
    BuiltIn = builtIn
    Malformed = Malformed
    FlagStrings <- MCFlagStrings
    EnvStrings <- MCEnvStrings
    FileStrings <- MCFileStrings
    EnvForm = {"absent", "-env=", "--env="}
CHECK_DEADLOCK FALSE
INVARIANTS
    Precedence
