---------------------------- MODULE SerialSteps ----------------------------
(***************************************************************************)
(* SharingSteps with the last state in which no call was under way kept     *)
(* beside it: what a service call amounts to once it is over.               *)
(***************************************************************************)
EXTENDS SharingSteps

VARIABLE base    \* the variables of Sharing when last no call was under way

Now == [session |-> session, account |-> account, access |-> access, mailbox |-> mailbox,
        inode |-> inode, block |-> block, invitation |-> invitation,
        revoked |-> revoked, next |-> next]

SerialInit == StepInit /\ base = Now

SerialNext ==
    /\ StepNext
    /\ base' = IF \A c \in Client : call'[c] = None THEN Now' ELSE base

SerialSpec == SerialInit /\ [][SerialNext]_<<stepVars, base>>

Atomic == INSTANCE Sharing WITH
    session <- base.session, account <- base.account, access <- base.access,
    mailbox <- base.mailbox, inode <- base.inode, block <- base.block,
    invitation <- base.invitation, revoked <- base.revoked, next <- base.next

\* The call of c ends before its plan is done: a storage operation fails, the process
\* dies, or RevokeAccess meets a block that does not open.
CutShort(c) ==
    \/ Interrupted(c) /\ ~DoSet(c)
    \/ Planned(c, "fetch") /\ Refuse(c)

\* A call that is not cut short is the atomic call of Sharing: it ends in the state its
\* action there describes, or changes nothing, also in whatever state calls that were
\* cut short have left.
CallsAreAtomic ==
    [][(\A c \in Client : ~CutShort(c)) => [Atomic!Next]_base]_<<stepVars, base>>

\* A handle that loaded when the call began may fail to load, or load something
\* else, once the call of c is cut short: it is the name StoreFile or
\* AcceptInvitation was replacing, or a handle of the file RevokeAccess was
\* re-encrypting.
AtRisk(c, h) ==
    \/ call[c].op \in {"StoreFile", "AcceptInvitation"} /\ h = HandleOf(c)
    \/ /\ call[c].op = "RevokeAccess" /\ call[c].box # None
       /\ base.mailbox[base.access[h].mailbox].inode = call[c].box.inode

\* A call that is cut short harms nothing but the file it was replacing or re-keying.
\* In particular AppendToFile and CreateInvitation leave every file of every user
\* loadable, with the old content or with all that was appended.
InterruptionIsLocal ==
    [][\A c \in Client : CutShort(c) =>
          \A h \in Handle : Atomic!LoadFileSucceeds(h) /\ ~AtRisk(c, h) =>
             /\ LoadFileSucceeds(h)'
             /\ \A i \in {base.mailbox[base.access[h].mailbox].inode} :
                   \/ PlainContent(i)' = Atomic!PlainContent(i)
                   \/ /\ call[c].op = "AppendToFile"
                      /\ PlainContent(i)' = Atomic!PlainContent(i) \o call[c].arg
      ]_<<stepVars, base>>
=============================================================================
