---------------------------- MODULE SharedFiles ----------------------------
(***************************************************************************)
(* What the sharing services promise, with no keys, blocks or mailboxes.    *)
(* A file has a content.  A grant is a way to reach one file; it is live    *)
(* (reads and appends work), stale (they do not) or revoked (they do not,   *)
(* and never will again).  A content is only ever extended, and only        *)
(* through a live grant; sharing copies a grant and makes no more of it     *)
(* than it was; withdrawing a grant leaves every content as it is, can      *)
(* change the standing of other grants to the same file, and never brings   *)
(* back one that was withdrawn.                                             *)
(***************************************************************************)
EXTENDS Integers, Sequences

CONSTANTS Id,       \* names of files and of grants
          Content,  \* what one Put or Extend may write
          None

VARIABLES content,  \* the content of each file, None for a file that does not exist
          grant     \* the grants: which file, and their standing

Standing == {"live", "stale", "revoked"}

AbsInit ==
    /\ content = [i \in Id |-> None]
    /\ grant = [g \in Id |-> None]

IsLive(g) == grant[g] # None /\ grant[g].standing = "live"

Put(i, g) ==
    /\ content[i] = None
    /\ grant[g] = None
    /\ grant' = [grant EXCEPT ![g] = [file |-> i, standing |-> "live"]]
    /\ \E data \in Content : content' = [content EXCEPT ![i] = data]

Extend(g) ==
    /\ IsLive(g)
    /\ UNCHANGED grant
    /\ \E data \in Content : content' = [content EXCEPT ![grant[g].file] = @ \o data]

Share(g, copy) ==
    /\ grant[g] # None
    /\ grant[copy] = None
    /\ grant' = [grant EXCEPT ![copy] =
          [file |-> grant[g].file,
           standing |-> IF IsLive(g) THEN "live" ELSE "stale"]]
    /\ UNCHANGED content

\* The holder of the live grant g withdraws another: g is replaced by fresh.
Withdraw(g, fresh) ==
    /\ IsLive(g)
    /\ grant[fresh] = None
    /\ grant'[fresh] = [file |-> grant[g].file, standing |-> "live"]
    /\ grant'[g] = [file |-> grant[g].file, standing |-> "stale"]
    /\ \A x \in Id \ {fresh} :
          IF grant[x] # None /\ grant[x].file = grant[g].file
          THEN /\ grant'[x] \in [file : {grant[g].file}, standing : Standing]
               /\ grant[x].standing = "revoked" => grant'[x].standing = "revoked"
          ELSE grant'[x] = grant[x]
    /\ UNCHANGED content

AbsNext ==
    \E g \in Id :
        \/ Extend(g)
        \/ \E i \in Id : Put(i, g)
        \/ \E x \in Id : Share(g, x) \/ Withdraw(g, x)

AbsSpec == AbsInit /\ [][AbsNext]_<<content, grant>>
=============================================================================
