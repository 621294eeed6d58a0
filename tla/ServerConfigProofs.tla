------------------------- MODULE ServerConfigProofs -------------------------
(***************************************************************************)
(* Machine-checked proofs about ServerConfig, for all texts of the options, *)
(* environments, files and forms of -env.                                   *)
(***************************************************************************)
EXTENDS ServerConfig, TLAPS

\* The environment once loadDotEnv has read the file: a variable that was given
\* stays, the others come from the file.
Merged(file) ==
    [string |-> [o \in Option |-> IF given.string[o] = None THEN file.string[o] ELSE given.string[o]],
     tls |-> IF given.tls = None THEN file.tls ELSE given.tls]

\* What loadConfig returns from the flags and the environment.
FromSources ==
    [string |-> [o \in Option |-> IF flags[o] # None THEN flags[o] ELSE getenv(o)],
     tls |-> IF tlsFlag # None THEN tlsFlag ELSE getBoolEnv]

Inputs ==
    /\ flags \in FlagStrings
    /\ tlsFlag \in Bool \cup {None}
    /\ envForm \in EnvForm
    /\ envVar \in BOOLEAN
    /\ files \in [EnvFile -> Settings(FileStrings) \cup {Malformed, None}]
    /\ given \in Settings(EnvStrings)

\* The inductive invariant: the inputs never change, and each step of the start
\* has done its part.
ConfigInv ==
    /\ Inputs
    /\ step \in {"start", "loaded", "parsed", "running", "fatal"}
    /\ step = "start" => environ = given
    /\ step \in {"loaded", "parsed", "running"} =>
          /\ files[envFilePath] # Malformed
          /\ environ = IF files[envFilePath] = None THEN given ELSE Merged(files[envFilePath])
    /\ step \in {"parsed", "running"} => getBoolEnv # "bad" /\ options = FromSources

\* Nothing was read at the start.
LEMMA InitConfig == Init => ConfigInv
<1> SUFFICES ASSUME Init PROVE ConfigInv
  OBVIOUS
<1>1. PICK v \in Settings(FileStrings) \cup {Malformed}, there \in SUBSET EnvFile :
          files = [f \in EnvFile |-> IF f \in there THEN v ELSE None]
  BY DEF Init
<1>2. files \in [EnvFile -> Settings(FileStrings) \cup {Malformed, None}]
  BY <1>1
<1> QED
  BY <1>2 DEF Init, ConfigInv, Inputs

\* Every step keeps the invariant.
LEMMA StepConfig == ConfigInv /\ [Next]_vars => ConfigInv'
<1> SUFFICES ASSUME ConfigInv, [Next]_vars PROVE ConfigInv'
  OBVIOUS
<1>1. CASE loadDotEnv
  <2>1. Inputs' /\ envFilePath' = envFilePath /\ step = "start" /\ environ = given
    BY <1>1 DEF loadDotEnv, ConfigInv, Inputs, envFilePath
  <2>2. CASE files[envFilePath] = Malformed
    BY <1>1, <2>1, <2>2 DEF loadDotEnv, ConfigInv
  <2>3. CASE files[envFilePath] # Malformed
    <3>1. /\ step' = "loaded" /\ files' = files /\ given' = given
          /\ environ' = IF files[envFilePath] = None THEN environ ELSE WithDotEnv(files[envFilePath])
      BY <1>1, <2>3 DEF loadDotEnv
    <3>2. WithDotEnv(files[envFilePath]) = Merged(files[envFilePath])
      BY <2>1 DEF WithDotEnv, Merged
    <3>3. Merged(files[envFilePath])' = Merged(files[envFilePath])
      BY <3>1, <2>1 DEF Merged
    <3> QED
      BY <2>1, <2>3, <3>1, <3>2, <3>3 DEF ConfigInv
  <2> QED
    BY <2>2, <2>3
<1>2. CASE loadConfig
  <2>1. Inputs' /\ envFilePath' = envFilePath /\ step = "loaded" /\ environ' = environ
        /\ files' = files /\ given' = given /\ flags' = flags /\ tlsFlag' = tlsFlag
    BY <1>2 DEF loadConfig, ConfigInv, Inputs, envFilePath
  <2>2. getBoolEnv' = getBoolEnv /\ FromSources' = FromSources
    BY <2>1 DEF getBoolEnv, FromSources, getenv
  <2>3. Merged(files[envFilePath])' = Merged(files[envFilePath])
    BY <2>1 DEF Merged
  <2>4. \/ step' = "fatal"
        \/ step' = "parsed" /\ getBoolEnv # "bad" /\ options' = FromSources
    BY <1>2 DEF loadConfig, FromSources
  <2> QED
    BY <2>1, <2>2, <2>3, <2>4 DEF ConfigInv
<1>3. CASE main
  <2>1. Inputs' /\ envFilePath' = envFilePath /\ step = "parsed" /\ environ' = environ
        /\ files' = files /\ given' = given /\ flags' = flags /\ tlsFlag' = tlsFlag
        /\ options' = options
    BY <1>3 DEF main, ConfigInv, Inputs, envFilePath
  <2>2. getBoolEnv' = getBoolEnv /\ FromSources' = FromSources
    BY <2>1 DEF getBoolEnv, FromSources, getenv
  <2>3. Merged(files[envFilePath])' = Merged(files[envFilePath])
    BY <2>1 DEF Merged
  <2>4. step' = "fatal" \/ step' = "running"
    BY <1>3 DEF main
  <2> QED
    BY <2>1, <2>2, <2>3, <2>4 DEF ConfigInv
<1>4. CASE UNCHANGED vars
  BY <1>4 DEF vars, ConfigInv, Inputs, envFilePath, Merged, FromSources, getenv, getBoolEnv
<1> QED
  BY <1>1, <1>2, <1>3, <1>4 DEF Next

\* The inductive invariant holds always.
LEMMA ConfigInvariant == Spec => []ConfigInv
  BY InitConfig, StepConfig, PTL DEF Spec

\* The first of four sources that says anything, when the last always does.
LEMMA HighestOfFour ==
    ASSUME NEW a, NEW b, NEW c, NEW d, d # None
    PROVE  Highest(<<a, b, c, d>>) =
               IF a # None THEN a ELSE IF b # None THEN b ELSE IF c # None THEN c ELSE d
<1> DEFINE s == <<a, b, c, d>>
           First(n) == n \in 1 .. Len(s) /\ s[n] # None /\ \A m \in 1 .. n - 1 : s[m] = None
           w == IF a # None THEN 1 ELSE IF b # None THEN 2 ELSE IF c # None THEN 3 ELSE 4
<1>1. Len(s) = 4 /\ s[1] = a /\ s[2] = b /\ s[3] = c /\ s[4] = d
  OBVIOUS
<1> HIDE DEF s
<1>2. w \in 1 .. 4 /\ s[w] # None /\ \A m \in 1 .. w - 1 : s[m] = None
  BY <1>1
<1>3. ASSUME NEW n \in 1 .. Len(s), s[n] # None, \A m \in 1 .. n - 1 : s[m] = None
      PROVE  n = w
  <2>1. n \in Int /\ w \in Int /\ ~(n < w) /\ ~(w < n)
    BY <1>1, <1>2, <1>3
  <2> QED
    BY <2>1
<1>4. (CHOOSE n \in 1 .. Len(s) : s[n] # None /\ \A m \in 1 .. n - 1 : s[m] = None) = w
  BY <1>1, <1>2, <1>3
<1> QED
  BY <1>1, <1>4 DEF Highest, s

\* README.md:135: each option of a running server is that of the highest source that
\* says anything, for all texts and sources of the options, unless the file was named
\* by --env=path; what is set to nothing says the default.
THEOREM SourcesInOrder == Spec => []Precedence
<1>1. ConfigInv => Precedence
  <2> SUFFICES ASSUME ConfigInv, step = "running", envForm # "--env=" PROVE FromHighest
    BY DEF Precedence
  <2> DEFINE file == files[envFilePath]
             Nothing == [string |-> [o \in Option |-> None], tls |-> None]
  <2>1. file # Malformed /\ FileInUse = IF file = None THEN Nothing ELSE file
    BY EnvAssumption DEF ConfigInv, Inputs, FileInUse, envFilePath
  <2>2. FileInUse # Malformed
    <3>1. Nothing \in Settings(Strings)
      BY DEF Settings, Strings, TLSText
    <3> QED
      BY <2>1, <3>1, ConfigNoneAssumption
  <2>3. environ.tls = (IF given.tls # None THEN given.tls ELSE FileInUse.tls)
    BY <2>1 DEF ConfigInv, Merged
  <2>4. options.tls =
          Highest(<<tlsFlag, Says(given.tls, "true"), Says(FileInUse.tls, "true"), "true">>)
    <3>1. None # "true" /\ None # Empty
      BY ConfigNoneAssumption
    <3> QED
      BY <2>3, <3>1, HighestOfFour DEF ConfigInv, FromSources, getBoolEnv, Says
  <2>5. ASSUME NEW o \in Option
        PROVE  options.string[o] =
                   Highest(<<flags[o], Says(given.string[o], Default[o]),
                             Says(FileInUse.string[o], Default[o]), Default[o]>>)
    <3>1. environ.string[o] = IF given.string[o] # None THEN given.string[o] ELSE FileInUse.string[o]
      BY <2>1 DEF ConfigInv, Merged
    <3>2. Default[o] # None /\ None # Empty
      BY ConfigNoneAssumption DEF Default, Option
    <3>3. options.string[o] = IF flags[o] # None THEN flags[o] ELSE getenv(o)
      BY DEF ConfigInv, FromSources
    <3> QED
      BY <3>1, <3>2, <3>3, HighestOfFour DEF getenv, Says
  <2> QED
    BY <2>2, <2>4, <2>5 DEF FromHighest
<1> QED
  BY <1>1, ConfigInvariant, PTL
=============================================================================
