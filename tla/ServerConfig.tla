---------------------------- MODULE ServerConfig ----------------------------
(***************************************************************************)
(* The server's start: loadConfig reads a .env file into the environment,   *)
(* takes the options from flags, environment and defaults, and main checks  *)
(* what TLS needs before it opens the store and listens.                    *)
(*                                                                          *)
(* Of the string options address stands for address and dir, which have a   *)
(* default of their own, and cert and key default to nothing.  Texts are    *)
(* model values; an option given as the empty string is given.              *)
(***************************************************************************)
EXTENDS Integers, Sequences

CONSTANTS Value,        \* texts that are not empty
          None,         \* not given, not set, no such line or file
          Empty,        \* the empty string
          BuiltIn,      \* the default of address
          Malformed,    \* a file that does not parse
          FlagStrings,  \* the string options a command line may give,
          EnvStrings,   \* an environment may have,
          FileStrings,  \* and a .env file may have
          EnvForm       \* how -env may be given on the command line

Option == {"address", "cert", "key"}
Default == [address |-> BuiltIn, cert |-> Empty, key |-> Empty]
Strings == [Option -> Value \cup {Empty, None}]

\* -tls, and what SHARELOCK_TLS may be, where "bad" does not parse.
Bool == {"true", "false"}
TLSText == Bool \cup {"bad", Empty, None}

EnvFile == {"flagged", "variable", ".env"}

\* What an environment or a file may have for the options.
Settings(strings) == [string : strings, tls : TLSText]

ASSUME StringsAssumption ==
    FlagStrings \subseteq Strings /\ EnvStrings \subseteq Strings /\ FileStrings \subseteq Strings
ASSUME EnvAssumption == EnvForm \subseteq {"absent", "-env=", "-env", "--env", "--env="}

\* "Not given" is told apart from the defaults, and a file from one that does not parse.
ASSUME ConfigNoneAssumption ==
    None \notin {"true", Empty, BuiltIn} /\ Malformed \notin Settings(Strings)

VARIABLES
    flags,      \* the string options on the command line
    tlsFlag,    \* -tls
    envForm,    \* how -env names the file "flagged"
    envVar,     \* SHARELOCK_ENV_FILE names the file "variable"
    files,      \* what each .env file has for each option, Malformed or None
    environ,    \* the environment: the string options and SHARELOCK_TLS
    given,      \* history: the environment the process was started with
    options,    \* what loadConfig returns
    step        \* "start", "loaded", "parsed", "running", "fatal"

vars == <<flags, tlsFlag, envForm, envVar, files, environ, given, options, step>>

Init ==
    /\ flags \in FlagStrings
    /\ tlsFlag \in Bool \cup {None}
    /\ envForm \in EnvForm
    /\ envVar \in BOOLEAN
    /\ \E v \in Settings(FileStrings) \cup {Malformed}, there \in SUBSET EnvFile :
          files = [f \in EnvFile |-> IF f \in there THEN v ELSE None]
    /\ environ \in Settings(EnvStrings)
    /\ given = environ
    /\ options = None
    /\ step = "start"

\* envFilePath: only these forms are scanned for.  An empty path is as a missing file.
envFilePath ==
    IF envForm \in {"-env=", "-env", "--env"} THEN "flagged"
    ELSE IF envVar THEN "variable" ELSE ".env"

\* Variant of WithDotEnv: the file overrides the environment.
WithDotEnvOverload(file) ==
    [string |-> [o \in Option |-> IF file.string[o] # None THEN file.string[o] ELSE environ.string[o]],
     tls |-> IF file.tls # None THEN file.tls ELSE environ.tls]

\* godotenv.Load sets the variables that are not set yet; an empty one is set.
WithDotEnv(file) ==
    [string |-> [o \in Option |-> IF environ.string[o] = None THEN file.string[o] ELSE environ.string[o]],
     tls |-> IF environ.tls = None THEN file.tls ELSE environ.tls]

\* loadDotEnv: a missing file is no error, one that does not parse ends the process.
loadDotEnv ==
    /\ step = "start"
    /\ LET file == files[envFilePath]
       IN  \/ /\ file = Malformed
              /\ step' = "fatal"
              /\ UNCHANGED environ
           \/ /\ file # Malformed
              /\ environ' = IF file = None THEN environ ELSE WithDotEnv(file)
              /\ step' = "loaded"
    /\ UNCHANGED <<flags, tlsFlag, envForm, envVar, files, given, options>>

\* A variable that is empty is as one that is not set.
getenv(o) == IF environ.string[o] \in {None, Empty} THEN Default[o] ELSE environ.string[o]

\* "bad" for a value that does not parse.
getBoolEnv == IF environ.tls \in {None, Empty} THEN "true" ELSE environ.tls

\* The rest of loadConfig: getBoolEnv ends the process on a value that does not
\* parse, whatever -tls says.
loadConfig ==
    /\ step = "loaded"
    /\ \/ /\ getBoolEnv = "bad"
          /\ step' = "fatal"
          /\ UNCHANGED options
       \/ /\ getBoolEnv # "bad"
          /\ options' = [string |-> [o \in Option |-> IF flags[o] # None THEN flags[o] ELSE getenv(o)],
                         tls |-> IF tlsFlag # None THEN tlsFlag ELSE getBoolEnv]
          /\ step' = "parsed"
    /\ UNCHANGED <<flags, tlsFlag, envForm, envVar, files, environ, given>>

TLSReady == options.tls = "true" => options.string["cert"] # Empty /\ options.string["key"] # Empty

\* main goes on to New and Run, or ends.
main ==
    /\ step = "parsed"
    /\ step' = IF TLSReady THEN "running" ELSE "fatal"
    /\ UNCHANGED <<flags, tlsFlag, envForm, envVar, files, environ, given, options>>

Next == loadDotEnv \/ loadConfig \/ main

Spec == Init /\ [][Next]_vars

(***************************************************************************)
(* Properties.                                                              *)
(***************************************************************************)
\* The .env file in use (config.go:49): that of the -env flag, then SHARELOCK_ENV_FILE's,
\* then .env.
FileInUse ==
    LET named == IF envForm # "absent" THEN files["flagged"]
                 ELSE IF envVar THEN files["variable"] ELSE files[".env"]
    IN  IF named = None THEN [string |-> [o \in Option |-> None], tls |-> None] ELSE named

\* What counts: the first of the sources that says anything.
Highest(sources) ==
    sources[CHOOSE n \in 1 .. Len(sources) :
                sources[n] # None /\ \A m \in 1 .. n - 1 : sources[m] = None]

\* What a variable or a line of a file says: set to nothing, it says the default.
Says(text, default) == IF text = Empty THEN default ELSE text

\* The options are those of README.md:135: the highest of flag, environment, .env file
\* and default that says anything, and the file in use is one that parses.
FromHighest ==
    /\ FileInUse # Malformed
    /\ \A o \in Option :
          options.string[o] =
              Highest(<<flags[o], Says(given.string[o], Default[o]),
                        Says(FileInUse.string[o], Default[o]), Default[o]>>)
    /\ options.tls =
          Highest(<<tlsFlag, Says(given.tls, "true"), Says(FileInUse.tls, "true"), "true">>)

\* The server runs with the options of README.md:135, and the file is that of config.go:49
\* (envFilePath) unless the flag was given as --env=path.  A variable that is set and
\* empty is not overridden by the file (loadDotEnv) and then counts as not set (getenv,
\* getBoolEnv): the option is the default, whatever the file says.
Precedence == step = "running" /\ envForm # "--env=" => FromHighest

\* The file of the -env flag counts before SHARELOCK_ENV_FILE's and .env, as config.go:49
\* and README.md:131 say, in every form flag.Parse accepts.
EnvFlagWins == step = "running" /\ envForm # "absent" => FromHighest
=============================================================================
