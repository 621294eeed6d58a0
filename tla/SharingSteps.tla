---------------------------- MODULE SharingSteps ----------------------------
(***************************************************************************)
(* The service calls of Sharing, one storage operation at a time.  There is *)
(* no lock, no transaction and no rollback: between two operations of a     *)
(* call other clients run theirs, a storage operation can fail and end the  *)
(* call with an error, and the process can die.                             *)
(*                                                                          *)
(* A call first reads (access record, mailbox, inode), keeping what it read *)
(* in memory, then works through a plan of storage operations fixed by what *)
(* it read.  As AtomicStore allows, a Set that failed may have taken effect *)
(* or still take effect later.                                              *)
(*                                                                          *)
(* InitUser and GetUser stay atomic here; Accounts has InitUser's steps.    *)
(* AcceptInvitation's two Gets read objects that never change once they are *)
(* stored, so they are one step.                                            *)
(***************************************************************************)
EXTENDS Sharing, FiniteSets

CONSTANT Fault         \* what can go wrong: a subset of {"error", "crash", "late"}

ASSUME FaultAssumption == Fault \subseteq {"error", "crash", "late"}

VARIABLES
    call,     \* the service call each client is in
    late,     \* a Set of each client that failed and may still take effect
    issued,   \* the invitation pointers CreateInvitation returned to its caller
    batch     \* history: the blocks of each StoreFile and AppendToFile

stepVars == <<vars, call, late, issued, batch>>

StepInit ==
    /\ Init
    /\ call = [c \in Client |-> None]
    /\ late = [c \in Client |-> None]
    /\ issued = {}
    /\ batch = {}

(***************************************************************************)
(* Storage operations and calls.                                            *)
(***************************************************************************)
Put(store, at, value) == [kind |-> "set", store |-> store, at |-> at, value |-> value]

\* Get a block or mailbox in order to put it back with the file key k.
Fetch(store, at, k) == [kind |-> "fetch", store |-> store, at |-> at, value |-> k]

\* keyStore.Get(recipient_enc_pub)
Lookup(r) == [kind |-> "lookup", store |-> "key", at |-> r, value |-> None]

Operation == {"StoreFile", "AppendToFile", "CreateInvitation", "AcceptInvitation", "RevokeAccess"}

\* What a plan is made of, and what a call is.
SetsOf(store, At, Value) == [kind : {"set"}, store : {store}, at : At, value : Value]

SetItem ==
    SetsOf("user", User, UserRecord) \cup SetsOf("access", Handle, Access)
    \cup SetsOf("mailbox", Id, MailboxNode) \cup SetsOf("inode", Id, SealedInode)
    \cup SetsOf("block", Id, SealedBlock) \cup SetsOf("invitation", Id, Invitation)

FetchItem == [kind : {"fetch"}, store : {"block", "mailbox"}, at : Id, value : Id]

Item == SetItem \cup FetchItem \cup {Lookup(r) : r \in User}

CallRecord ==
    [op : Operation, filename : Filename, arg : Content \cup User \cup Id,
     access : Access \cup {None}, box : MailboxNode \cup {None}, made : Id \cup {None},
     plan : Seq(Item)]

\* A call is told apart from the absence of one.
ASSUME CallAssumption == None \notin CallRecord

HandleOf(c) == <<session[c].name, call[c].filename>>

Idle(c) == session[c] # None /\ call[c] = None

\* The service call o on file f with the further argument x; got is its access
\* record, and its mailbox is read next; made is the mailbox CreateInvitation makes.
NewCall(o, f, x, got) ==
    [op |-> o, filename |-> f, arg |-> x, access |-> got, box |-> None, made |-> None,
     plan |-> <<>>]

PutUser(c, f) == Put("user", session[c].name, [files |-> session[c].files \cup {f}])

PutBlocks(first, content, k) ==
    [x \in 1 .. Len(content) |-> Put("block", first + x - 1, encryptAndMAC(content[x], k))]

Store == <<account, access, mailbox, inode, block, invitation>>

\* The store after the Set p.
Write(p) ==
    LET after(name, content) ==
            IF p.store = name THEN [content EXCEPT ![p.at] = p.value] ELSE content
    IN  /\ account' = after("user", account)
        /\ access' = after("access", access)
        /\ mailbox' = after("mailbox", mailbox)
        /\ inode' = after("inode", inode)
        /\ block' = after("block", block)
        /\ invitation' = after("invitation", invitation)

\* userdata.Files[filename] = accessUUID precedes saveUser's Set.
Remember(c, p) ==
    session' = IF p.store = "user" THEN [session EXCEPT ![c].files = p.value.files] ELSE session

\* The call of c goes on with the given plan, or returns when it is empty.
GoOn(c, plan) ==
    call' = [call EXCEPT ![c] = IF plan = <<>> THEN None ELSE [call[c] EXCEPT !.plan = plan]]

\* The call of c returns an error; what it wrote stays.
Refuse(c) ==
    /\ call' = [call EXCEPT ![c] = None]
    /\ UNCHANGED <<vars, late, issued, batch>>

(***************************************************************************)
(* The beginning of a call, up to and including its first Get.              *)
(***************************************************************************)
\* Variant of StorePlan: the access record is written before the mailbox.
StorePlanAccessFirst(c, f, content) ==
    LET h == <<session[c].name, f>>
    IN  <<Put("access", h, NewRecord(h, next + 2)),
          Put("mailbox", next + 2, [fileKey |-> next, inode |-> next + 1])>>
        \o PutBlocks(next + 3, content, next)
        \o <<Put("inode", next + 1, encryptAndMAC(NewBlocks(next + 3, Len(content)), next)),
             PutUser(c, f)>>

\* The Sets of StoreFile.  File key, inode, mailbox and blocks are drawn in turn.
StorePlan(c, f, content) ==
    LET h == <<session[c].name, f>>
    IN  <<Put("mailbox", next + 2, [fileKey |-> next, inode |-> next + 1]),
          Put("access", h, NewRecord(h, next + 2))>>
        \o PutBlocks(next + 3, content, next)
        \o <<Put("inode", next + 1, encryptAndMAC(NewBlocks(next + 3, Len(content)), next)),
             PutUser(c, f)>>

BeginStore(c, f, content) ==
    /\ Idle(c)
    /\ CanDraw(3 + Len(content))
    /\ call' = [call EXCEPT ![c] =
          [NewCall("StoreFile", f, content, None) EXCEPT !.plan = StorePlan(c, f, content)]]
    /\ batch' = batch \cup {Range(NewBlocks(next + 3, Len(content)))}
    /\ next' = next + 3 + Len(content)
    /\ UNCHANGED <<session, Store, revoked, late, issued>>

BeginAccept(c, s, j, f) ==
    /\ Idle(c)
    /\ j \in issued
    /\ account[s] # None
    /\ verify(invitation[j], s)
    /\ decryptFor(invitation[j], session[c].name)
    /\ LET h == <<session[c].name, f>>
       IN  call' = [call EXCEPT ![c] =
              [NewCall("AcceptInvitation", f, j, None) EXCEPT !.plan =
                  <<Put("access", h, NewRecord(h, invitation[j].mailbox)), PutUser(c, f)>>]]
    /\ UNCHANGED <<vars, late, issued, batch>>

\* AppendToFile, CreateInvitation and RevokeAccess start with their access record.
BeginOnAccess(c, o, f, x, n) ==
    LET h == <<session[c].name, f>>
    IN  /\ Idle(c)
        /\ access[h] # None
        /\ CanDraw(n)
        /\ call' = [call EXCEPT ![c] = NewCall(o, f, x, access[h])]
        /\ UNCHANGED <<vars, late, issued, batch>>

Begin(c, f) ==
    \/ \E content \in Content :
          \/ BeginStore(c, f, content)
          \/ BeginOnAccess(c, "AppendToFile", f, content, Len(content))
    \/ \E r \in User :
          \/ BeginOnAccess(c, "CreateInvitation", f, r, 2)
          \/ BeginOnAccess(c, "RevokeAccess", f, r, 2)
    \/ \E s \in User, j \in issued : BeginAccept(c, s, j, f)

(***************************************************************************)
(* Reading the mailbox and the inode, and what the call does with them.     *)
(***************************************************************************)
Reading(c) == call[c] # None /\ call[c].plan = <<>>

ReadMailbox(c) ==
    LET box == mailbox[call[c].access.mailbox]
        on == [call[c] EXCEPT !.box = box]
    IN  /\ Reading(c)
        /\ call[c].box = None
        /\ IF box = None THEN Refuse(c)
           ELSE /\ IF call[c].op = "CreateInvitation"
                   THEN /\ CanDraw(2)
                        /\ call' = [call EXCEPT ![c] = [on EXCEPT !.made = next, !.plan =
                              <<Put("mailbox", next, box), Lookup(call[c].arg)>>]]
                        /\ next' = next + 1
                   ELSE call' = [call EXCEPT ![c] = on] /\ UNCHANGED next
                /\ UNCHANGED <<session, Store, revoked, late, issued, batch>>

\* Variants of AppendPlan: the inode is written first; it is written after every block.
AppendPlanInodeFirst(box, node, content) ==
    <<Put("inode", box.inode,
          encryptAndMAC(node.plain \o NewBlocks(next, Len(content)), box.fileKey))>>
    \o PutBlocks(next, content, box.fileKey)
AppendPlanEachBlock(box, node, content) ==
    [x \in 1 .. 2 * Len(content) |->
        IF x % 2 = 1 THEN PutBlocks(next, content, box.fileKey)[(x + 1) \div 2]
        ELSE Put("inode", box.inode,
                 encryptAndMAC(node.plain \o NewBlocks(next, x \div 2), box.fileKey))]

\* And: the last block is filled up in place.
AppendPlanInPlace(box, node, content) ==
    [x \in 1 .. Len(content) |->
        Put("block", IF node.plain = <<>> THEN next + x - 1 ELSE node.plain[Len(node.plain)],
            encryptAndMAC(content[x], box.fileKey))]
    \o <<Put("inode", box.inode, encryptAndMAC(node.plain, box.fileKey))>>

\* The Sets of AppendToFile: the new blocks, then the inode that lists them.
AppendPlan(box, node, content) ==
    PutBlocks(next, content, box.fileKey)
    \o <<Put("inode", box.inode,
             encryptAndMAC(node.plain \o NewBlocks(next, Len(content)), box.fileKey))>>

\* Every order in which range visits the Children map.
Orders(S) == {s \in [1 .. Cardinality(S) -> S] : Range(s) = S}

\* Variant of RekeyPlan: the mailboxes of the kept children are not updated.
RekeyPlanSkipsChildren(box, node, children, last) ==
    [x \in DOMAIN node.plain |-> Fetch("block", node.plain[x], next)]
    \o <<Put("inode", box.inode, encryptAndMAC(node.plain, next)),
         Put("mailbox", next + 1, [fileKey |-> next, inode |-> box.inode])>>
    \o last

\* The operations of RevokeAccess: blocks and inode under the new file key, the new
\* mailbox, the mailboxes of the kept children, then the Sets that end the call.
RekeyPlan(box, node, children, last) ==
    [x \in DOMAIN node.plain |-> Fetch("block", node.plain[x], next)]
    \o <<Put("inode", box.inode, encryptAndMAC(node.plain, next)),
         Put("mailbox", next + 1, [fileKey |-> next, inode |-> box.inode])>>
    \o [x \in DOMAIN children |-> Fetch("mailbox", children[x], next)]
    \o last

KeptChildren(a, r) == {a.children[u] : u \in User \ {r}} \ {None}

ReadInode(c) ==
    LET box == call[c].box
        a == call[c].access
        x == call[c].arg
        node == inode[box.inode]
    IN  /\ Reading(c)
        /\ box # None
        /\ IF ~decryptAndVerify(node, box.fileKey) THEN Refuse(c)
           ELSE \/ /\ call[c].op = "AppendToFile"
                   /\ CanDraw(Len(x))
                   /\ GoOn(c, AppendPlan(box, node, x))
                   /\ batch' = batch \cup {Range(NewBlocks(next, Len(x)))}
                   /\ next' = next + Len(x)
                   /\ UNCHANGED <<session, Store, revoked, late, issued>>
                \/ /\ call[c].op = "RevokeAccess"
                   /\ CanDraw(2)
                   /\ \E children \in Orders(KeptChildren(a, x)) :
                         GoOn(c, RekeyPlan(box, node, children,
                             <<Put("access", HandleOf(c), WithoutChild(a, x, next + 1)),
                               PutUser(c, call[c].filename)>>))
                   /\ next' = next + 2
                   /\ UNCHANGED <<session, Store, revoked, late, issued, batch>>

(***************************************************************************)
(* Working through the plan.                                                *)
(***************************************************************************)
Planned(c, kind) == call[c] # None /\ call[c].plan # <<>> /\ Head(call[c].plan).kind = kind

\* A Set succeeds.  The one that replaces RevokeAccess's access record is where
\* the child is gone; the last one of CreateInvitation returns the pointer.
DoSet(c) ==
    LET p == Head(call[c].plan)
        rest == Tail(call[c].plan)
    IN  /\ Planned(c, "set")
        /\ Write(p)
        /\ Remember(c, p)
        /\ GoOn(c, rest)
        /\ revoked' = IF call[c].op = "RevokeAccess" /\ p.store = "access"
                      THEN revoked \cup ({call[c].access.children[call[c].arg]} \ {None})
                      ELSE revoked
        /\ issued' = IF call[c].op = "CreateInvitation" /\ rest = <<>>
                     THEN issued \cup {call[c].arg} ELSE issued
        /\ UNCHANGED <<next, late, batch>>

\* RevokeAccess reads a block, which must open under the old key, or the mailbox
\* of a child, and will put it back.
DoFetch(c) ==
    LET p == Head(call[c].plan)
        old == call[c].box.fileKey
        back(value) == GoOn(c, <<Put(p.store, p.at, value)>> \o Tail(call[c].plan))
    IN  /\ Planned(c, "fetch")
        /\ \/ /\ p.store = "block" /\ decryptAndVerify(block[p.at], old)
              /\ back(encryptAndMAC(block[p.at].plain, p.value))
              /\ UNCHANGED <<vars, late, issued, batch>>
           \/ /\ p.store = "mailbox" /\ mailbox[p.at] # None
              /\ back([mailbox[p.at] EXCEPT !.fileKey = p.value])
              /\ UNCHANGED <<vars, late, issued, batch>>
           \/ /\ \/ p.store = "block" /\ ~decryptAndVerify(block[p.at], old)
                 \/ p.store = "mailbox" /\ mailbox[p.at] = None
              /\ Refuse(c)

\* The recipient's public key: without it the mailbox just stored stays behind.
\* From here on the argument of the call is the pointer it will return.
DoLookup(c) ==
    LET r == call[c].arg
    IN  /\ Planned(c, "lookup")
        /\ \/ /\ account[r] # None
              /\ CanDraw(1)
              /\ call' = [call EXCEPT ![c] = [call[c] EXCEPT
                    !.arg = next,
                    !.plan = <<Put("invitation", next,
                                   SealedInvitation(session[c].name, call[c].filename, r, call[c].made)),
                               Put("access", HandleOf(c),
                                   WithChild(call[c].access, r, call[c].made))>>]]
              /\ next' = next + 1
              /\ UNCHANGED <<session, Store, revoked, late, issued, batch>>
           \/ account[r] = None /\ Refuse(c)

(***************************************************************************)
(* Faults.                                                                  *)
(***************************************************************************)
\* A storage operation fails and the call returns the error (the user record in
\* memory is kept, with the name that was just added to it), or the process dies.
\* A Set that was under way took effect, did not, or will some time.  Bound: one Set
\* at a time is late.
Interrupted(c) ==
    /\ call[c] # None
    /\ call' = [call EXCEPT ![c] = None]
    /\ LET setting == Planned(c, "set")
           p == Head(call[c].plan)
       IN  /\ \/ "crash" \in Fault /\ session' = [session EXCEPT ![c] = None]
              \/ /\ "error" \in Fault
                 /\ IF setting THEN Remember(c, p) ELSE UNCHANGED session
           /\ \/ UNCHANGED <<Store, late>>
              \/ setting /\ Write(p) /\ UNCHANGED late
              \/ /\ setting /\ "late" \in Fault /\ \A d \in Client : late[d] = None
                 /\ late' = [late EXCEPT ![c] = p]
                 /\ UNCHANGED Store
    /\ UNCHANGED <<revoked, next, issued, batch>>

\* A Set takes effect after its call returned an error.
LateEffect(c) ==
    /\ late[c] # None
    /\ Write(late[c])
    /\ late' = [late EXCEPT ![c] = None]
    /\ UNCHANGED <<session, revoked, next, call, issued, batch>>

UserCall(c, u) ==
    /\ call[c] = None
    /\ InitUser(c, u) \/ GetUser(c, u)
    /\ UNCHANGED <<call, late, issued, batch>>

StepNext ==
    \E c \in Client :
        \/ \E u \in User : UserCall(c, u)
        \/ \E f \in Filename : Begin(c, f)
        \/ ReadMailbox(c) \/ ReadInode(c)
        \/ DoSet(c) \/ DoFetch(c) \/ DoLookup(c)
        \/ Interrupted(c) \/ LateEffect(c)

StepSpec == StepInit /\ [][StepNext]_stepVars

(***************************************************************************)
(* Properties.                                                              *)
(***************************************************************************)
\* What a Set may carry to each kind of object.
PutOK(p) ==
    \/ p.store = "user" /\ p.at \in User /\ p.value \in UserRecord
    \/ p.store = "access" /\ p.at \in Handle /\ p.value \in Access
    \/ p.store = "mailbox" /\ p.at \in Id /\ p.value \in MailboxNode
    \/ p.store = "inode" /\ p.at \in Id /\ p.value \in SealedInode
    \/ p.store = "block" /\ p.at \in Id /\ p.value \in SealedBlock
    \/ p.store = "invitation" /\ p.at \in Id /\ p.value \in Invitation

\* Type correctness of the store and of the calls that are under way.
StepTypeOK ==
    /\ TypeOK
    /\ \A c \in Client : call[c] # None =>
          /\ session[c] # None
          /\ call[c].op \in Operation
          /\ call[c].filename \in Filename
          /\ call[c].access \in Access \cup {None}
          /\ call[c].box \in MailboxNode \cup {None}
          /\ \A x \in DOMAIN call[c].plan :
                LET p == call[c].plan[x] IN
                    (p.kind = "set" => PutOK(p))
    /\ \A c \in Client : late[c] # None => PutOK(late[c])
    /\ issued \subseteq Id
    /\ batch \subseteq SUBSET Id

\* Whatever overlaps, fails or lands late, an object is stored before anything
\* refers to it: the mailboxes of access records, of Children and of invitations,
\* the blocks of inodes, the access records of the names in a user's list.  Only the
\* inode itself is left out: StoreFile (service.go:159 and 217) stores it after the
\* mailbox that names it.
PointeesFirst ==
    /\ \A h \in Handle : access[h] # None =>
          /\ mailbox[access[h].mailbox] # None
          /\ \A u \in User : access[h].children[u] # None =>
                mailbox[access[h].children[u]] # None
    /\ \A j \in Id : invitation[j] # None => mailbox[invitation[j].mailbox] # None
    /\ \A i \in Id : inode[i] # None => \A b \in Range(inode[i].plain) : block[b] # None
    /\ \A u \in User : account[u] # None =>
          \A f \in account[u].files : access[<<u, f>>] # None

\* However appends, re-keyings and failures interleave, no file ever shows a part
\* of one StoreFile or AppendToFile: its inode lists all blocks of the call or none.
AppendsWhole ==
    \A i \in Id : inode[i] # None =>
        \A B \in batch : Range(inode[i].plain) \cap B \in {{}, B}

\* LoadFile reads the inode and then, block by block, what it lists, while other
\* calls write.  What it returns is the content the inode stood for when it was read,
\* because whatever overlaps, dies or lands late, a stored block may be sealed anew but
\* keeps its plaintext and is never taken away.
LoadsSeeOneContent ==
    [][\A b \in Id : block[b] # None =>
          block'[b] # None /\ block'[b].plain = block[b].plain]_stepVars

\* Overlapping calls write back access records that are out of date, but never
\* graft a mailbox into two places or mix two files in one record: a child's
\* mailbox is in one record only and leads to that record's file.
TreeShape == OneParent /\ ChildrenShareTheFile
=============================================================================
