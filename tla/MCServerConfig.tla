--------------------------- MODULE MCServerConfig ---------------------------
(***************************************************************************)
(* Small instances of ServerConfig for TLC: each source has one text of its *)
(* own, and gives all options alike or each in another way.                 *)
(***************************************************************************)
EXTENDS ServerConfig

CONSTANTS FlagText, EnvText, FileText

Alike(text) == [o \in Option |-> text]

MCFlagStrings ==
    {Alike(None), Alike(Empty), Alike(FlagText), [address |-> None, cert |-> FlagText, key |-> None]}

MCEnvStrings ==
    {Alike(None), Alike(Empty), Alike(EnvText), [address |-> EnvText, cert |-> None, key |-> Empty]}

MCFileStrings ==
    {Alike(None), Alike(Empty), Alike(FileText), [address |-> Empty, cert |-> None, key |-> FileText]}
=============================================================================
