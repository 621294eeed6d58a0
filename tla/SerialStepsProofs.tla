-------------------------- MODULE SerialStepsProofs --------------------------
(***************************************************************************)
(* Proofs about what a call amounts to once it is over.  While calls take   *)
(* turns a completed call is the atomic call of Sharing, and one that is    *)
(* cut short is local, from whatever state earlier calls that were cut      *)
(* short have left.                                                         *)
(***************************************************************************)
EXTENDS SharingStepsProofs, SerialSteps

(***************************************************************************)
(* A call that is alone.                                                    *)
(***************************************************************************)
\* In the state b: the handle of the file f of c, and the mailbox and inode of a handle.
Owned(b, c, f) == <<b.session[c].name, f>>
BoxAt(b, h) == b.mailbox[b.access[h].mailbox]
NodeAt(b, h) == b.inode[BoxAt(b, h).inode]

\* The atomic calls of Sharing, as relations between the state b and the state g.
NameGoal(b, c, f, g) ==
    LET files == b.session[c].files \cup {f}
        name == b.session[c].name
    IN  /\ b.session[c] # None
        /\ g.session = [b.session EXCEPT ![c] = [name |-> name, files |-> files]]
        /\ g.account = [b.account EXCEPT ![name] = [files |-> files]]

BlocksGoal(b, first, content, k, g) ==
    g.block = [x \in Id |-> IF x \in first .. first + Len(content) - 1
                            THEN encryptAndMAC(content[x - first + 1], k)
                            ELSE b.block[x]]

StoreGoal(b, c, f, content, g) ==
    LET n == b.next
    IN  /\ content \in Content /\ n + 3 + Len(content) <= MaxId + 1
        /\ NameGoal(b, c, f, g)
        /\ BlocksGoal(b, n + 3, content, n, g)
        /\ g.mailbox = [b.mailbox EXCEPT ![n + 2] = [fileKey |-> n, inode |-> n + 1]]
        /\ g.access = [b.access EXCEPT ![Owned(b, c, f)] = NewRecord(Owned(b, c, f), n + 2)]
        /\ g.inode = [b.inode EXCEPT
                         ![n + 1] = encryptAndMAC(NewBlocks(n + 3, Len(content)), n)]
        /\ g.next = n + 3 + Len(content)
        /\ g.invitation = b.invitation /\ g.revoked = b.revoked

\* The handle h opens its inode at b.
OpensAt(b, h) ==
    /\ b.access[h] # None /\ BoxAt(b, h) # None
    /\ decryptAndVerify(NodeAt(b, h), BoxAt(b, h).fileKey)

AppendGoal(b, c, f, content, g) ==
    LET h == Owned(b, c, f)
        n == b.next
        k == BoxAt(b, h).fileKey
    IN  /\ content \in Content /\ n + Len(content) <= MaxId + 1
        /\ b.session[c] # None /\ OpensAt(b, h)
        /\ BlocksGoal(b, n, content, k, g)
        /\ g.inode = [b.inode EXCEPT ![BoxAt(b, h).inode] =
                         encryptAndMAC(NodeAt(b, h).plain \o NewBlocks(n, Len(content)), k)]
        /\ g.next = n + Len(content)
        /\ g.session = b.session /\ g.account = b.account /\ g.access = b.access
        /\ g.mailbox = b.mailbox /\ g.invitation = b.invitation /\ g.revoked = b.revoked

\* CreateInvitation as far as the lookup, and to its end.
CopyGoal(b, c, f, g) ==
    LET h == Owned(b, c, f)
    IN  /\ b.session[c] # None /\ b.access[h] # None /\ BoxAt(b, h) # None
        /\ b.next + 2 <= MaxId + 1
        /\ g.mailbox = [b.mailbox EXCEPT ![b.next] = BoxAt(b, h)]
        /\ g.next = b.next + 1
        /\ g.session = b.session /\ g.account = b.account /\ g.access = b.access
        /\ g.inode = b.inode /\ g.block = b.block
        /\ g.invitation = b.invitation /\ g.revoked = b.revoked

InviteGoal(b, c, f, r, g) ==
    LET h == Owned(b, c, f)
        n == b.next
    IN  /\ b.session[c] # None /\ b.access[h] # None /\ BoxAt(b, h) # None
        /\ b.account[r] # None /\ n + 2 <= MaxId + 1
        /\ g.mailbox = [b.mailbox EXCEPT ![n] = BoxAt(b, h)]
        /\ g.invitation = [b.invitation EXCEPT
                              ![n + 1] = SealedInvitation(b.session[c].name, f, r, n)]
        /\ g.access = [b.access EXCEPT ![h] = WithChild(b.access[h], r, n)]
        /\ g.next = n + 2
        /\ g.session = b.session /\ g.account = b.account
        /\ g.inode = b.inode /\ g.block = b.block /\ g.revoked = b.revoked

AcceptGoal(b, c, f, s, j, g) ==
    LET h == Owned(b, c, f)
    IN  /\ b.account[s] # None /\ b.invitation[j] # None
        /\ verify(b.invitation[j], s) /\ decryptFor(b.invitation[j], b.session[c].name)
        /\ NameGoal(b, c, f, g)
        /\ g.access = [b.access EXCEPT ![h] = NewRecord(h, b.invitation[j].mailbox)]
        /\ g.mailbox = b.mailbox /\ g.inode = b.inode /\ g.block = b.block
        /\ g.invitation = b.invitation /\ g.revoked = b.revoked /\ g.next = b.next

RekeyGoal(b, c, f, r, g) ==
    LET h == Owned(b, c, f)
        n == b.next
        box == BoxAt(b, h)
        ids == NodeAt(b, h).plain
    IN  /\ OpensAt(b, h) /\ n + 2 <= MaxId + 1
        /\ NameGoal(b, c, f, g)
        /\ g.block = [x \in Id |-> IF x \in Range(ids) THEN encryptAndMAC(b.block[x].plain, n)
                                   ELSE b.block[x]]
        /\ g.inode = [b.inode EXCEPT ![box.inode] = encryptAndMAC(ids, n)]
        /\ g.mailbox = [m \in Id |->
              IF m = n + 1 THEN [fileKey |-> n, inode |-> box.inode]
              ELSE IF m \in KeptChildren(b.access[h], r)
                   THEN [fileKey |-> n, inode |-> b.mailbox[m].inode]
                   ELSE b.mailbox[m]]
        /\ g.access = [b.access EXCEPT ![h] = WithoutChild(b.access[h], r, n + 1)]
        /\ g.revoked = b.revoked \cup ({b.access[h].children[r]} \ {None})
        /\ g.next = n + 2
        /\ g.invitation = b.invitation

\* Each block that RevokeAccess has passed opened at b.
Readable(b, k, h) ==
    /\ \A x \in Range(NodeAt(b, h).plain) :
          \/ decryptAndVerify(b.block[x], BoxAt(b, h).fileKey)
          \/ block[x] = b.block[x] /\ Fetch("block", x, b.next) \in Range(k.plan)
    /\ \A p \in Range(k.plan) :
          /\ p.store = "block" /\ p.kind = "set" =>
                decryptAndVerify(b.block[p.at], BoxAt(b, h).fileKey)
          /\ p.kind = "fetch" =>
                /\ p.value = b.next
                /\ p.store = "block" => p.at \in Range(NodeAt(b, h).plain)
                /\ p.store = "mailbox" => p.at \in KeptChildren(b.access[h], k.arg)

InodeLast(plan) == \A i \in DOMAIN plan : plan[i].store = "inode" => i = Len(plan)

\* The call k of c was begun at b and is to end in g.
Aim(b, c, k, g) ==
    LET h == Owned(b, c, k.filename)
    IN  \/ k.op = "StoreFile" /\ StoreGoal(b, c, k.filename, k.arg, g)
        \/ /\ k.op = "AppendToFile" /\ AppendGoal(b, c, k.filename, k.arg, g)
           /\ inode = b.inode /\ InodeLast(k.plan)
        \/ /\ k.op = "CreateInvitation" /\ k.access = b.access[h] /\ k.made = b.next
           /\ CopyGoal(b, c, k.filename, g) /\ Lookup(k.arg) \in Range(k.plan)
        \/ /\ k.op = "CreateInvitation"
           /\ \E r \in User : InviteGoal(b, c, k.filename, r, g)
           /\ \A p \in Range(k.plan) : p.kind = "set"
        \/ /\ k.op = "AcceptInvitation"
           /\ \E s \in User, j \in Id : AcceptGoal(b, c, k.filename, s, j, g)
        \/ /\ k.op = "RevokeAccess" /\ k.access = b.access[h] /\ k.box = BoxAt(b, h)
           /\ RekeyGoal(b, c, k.filename, k.arg, g)
           /\ Readable(b, k, h)

\* Where now is not what goal is, it is what then was and an operation of plan is to come.
Near(now, then, goal, D, name, plan) ==
    \A x \in D : \/ now[x] = goal[x]
                 \/ now[x] = then[x] /\ \E p \in Range(plan) : p.store = name /\ p.at = x

\* The store is between b and g, and plan leads to g.
StoreNear(b, g, plan) ==
    /\ Near(account, b.account, g.account, User, "user", plan)
    /\ Near(access, b.access, g.access, Handle, "access", plan)
    /\ Near(mailbox, b.mailbox, g.mailbox, Id, "mailbox", plan)
    /\ Near(inode, b.inode, g.inode, Id, "inode", plan)
    /\ Near(block, b.block, g.block, Id, "block", plan)
    /\ Near(invitation, b.invitation, g.invitation, Id, "invitation", plan)

\* The Set p carries what g has in its place.
Carries(g, p) ==
    /\ p.store = "user" => p.value = g.account[p.at]
    /\ p.store = "access" => p.value = g.access[p.at]
    /\ p.store = "mailbox" => p.value = g.mailbox[p.at]
    /\ p.store = "inode" => p.value = g.inode[p.at]
    /\ p.store = "block" => p.value = g.block[p.at]
    /\ p.store = "invitation" => p.value = g.invitation[p.at]

\* What an operation of the call k of c adds to the way from b to g.
Leads(c, k, b, g, p) ==
    /\ p.kind = "set" => Carries(g, p)
    /\ p.store = "user" =>
          \A s \in {b.session, g.session} : [s EXCEPT ![c].files = p.value.files] = g.session
    /\ p.store = "access" /\ k.op = "RevokeAccess" =>
          \A R \in {b.revoked, g.revoked} :
             R \cup ({k.access.children[k.arg]} \ {None}) = g.revoked

\* What is left of its plan takes the call k of c from b to g.
Toward(b, c, k, g) ==
    /\ StoreNear(b, g, k.plan)
    /\ \A p \in Range(k.plan) : Leads(c, k, b, g, p)
    /\ session = g.session \/ (session = b.session /\ \E p \in Range(k.plan) : p.store = "user")
    /\ \/ revoked = g.revoked
       \/ /\ revoked = b.revoked /\ k.op = "RevokeAccess"
          /\ \E p \in Range(k.plan) : p.store = "access"
    /\ next = g.next

(***************************************************************************)
(* Carrying out a plan.                                                     *)
(***************************************************************************)
\* What a sequence holds is its head or is in its tail.
LEMMA HeadOrTail ==
    ASSUME NEW S, NEW s \in Seq(S), s # << >>
    PROVE  Range(s) = {Head(s)} \cup Range(Tail(s))
<1>1. /\ Len(Tail(s)) = Len(s) - 1 /\ Tail(s) \in Seq(S)
      /\ \A n \in 1 .. Len(Tail(s)) : Tail(s)[n] = s[n + 1]
  BY HeadTailProperties
<1>2. /\ Len(s) \in Nat \ {0} /\ DOMAIN s = 1 .. Len(s)
      /\ DOMAIN Tail(s) = 1 .. Len(s) - 1
  BY <1>1, LenProperties, EmptySeq
<1>3. Head(s) = s[1]
  OBVIOUS
<1>4. ASSUME NEW n \in DOMAIN s PROVE s[n] \in {Head(s)} \cup Range(Tail(s))
  <2>1. CASE n = 1
    BY <1>3, <2>1
  <2>2. CASE n # 1
    <3>1. n - 1 \in DOMAIN Tail(s) /\ Tail(s)[n - 1] = s[n]
      BY <1>1, <1>2, <2>2
    <3> QED
      BY <3>1 DEF Range
  <2> QED
    BY <2>1, <2>2
<1>5. Range(s) \subseteq {Head(s)} \cup Range(Tail(s))
  BY <1>4 DEF Range
<1> QED
  BY <1>5, HeadAndTail

\* The plan of AppendToFile, once its first Set is done.
LEMMA InodeLastTail ==
    ASSUME NEW S, NEW s \in Seq(S), s # << >>, InodeLast(s)
    PROVE  /\ InodeLast(Tail(s))
           /\ Tail(s) # << >> => Head(s).store # "inode"
<1>1. /\ Len(Tail(s)) = Len(s) - 1 /\ Tail(s) \in Seq(S)
      /\ \A n \in 1 .. Len(Tail(s)) : Tail(s)[n] = s[n + 1]
  BY HeadTailProperties
<1>2. /\ Len(s) \in Nat \ {0} /\ DOMAIN s = 1 .. Len(s)
      /\ DOMAIN Tail(s) = 1 .. Len(s) - 1
  BY <1>1, LenProperties, EmptySeq
<1>3. Head(s) = s[1]
  OBVIOUS
<1>4. ASSUME NEW i \in DOMAIN Tail(s), Tail(s)[i].store = "inode" PROVE i = Len(Tail(s))
  <2>1. i + 1 \in DOMAIN s /\ s[i + 1].store = "inode"
    BY <1>1, <1>2, <1>4
  <2> QED
    BY <1>1, <1>2, <2>1 DEF InodeLast
<1>5. ASSUME Tail(s) # << >>, Head(s).store = "inode" PROVE FALSE
  <2>1. Len(s) = 1
    BY <1>2, <1>3, <1>5 DEF InodeLast
  <2>2. Len(Tail(s)) = 0
    BY <1>1, <2>1
  <2> QED
    BY <1>1, <1>5, <2>2, EmptySeq
<1> QED
  BY <1>4, <1>5 DEF InodeLast

\* One store after the first Set of the plan.
LEMMA NearWritten ==
    ASSUME NEW D, NEW now, now = [x \in D |-> now[x]], NEW later, NEW then, NEW goal, NEW name,
           NEW s \in Seq(Item), s # << >>, Near(now, then, goal, D, name, s),
           NEW p, p = Head(s), later = IF p.store = name THEN [now EXCEPT ![p.at] = p.value] ELSE now,
           p.store = name => p.value = goal[p.at]
    PROVE  Near(later, then, goal, D, name, Tail(s))
<1>1. Range(s) = {p} \cup Range(Tail(s))
  BY HeadOrTail
<1>2. ASSUME NEW x \in D
      PROVE  \/ later[x] = goal[x]
             \/ later[x] = then[x] /\ \E q \in Range(Tail(s)) : q.store = name /\ q.at = x
  <2>1. CASE p.store = name /\ p.at = x
    <3>1. later[x] = p.value
      BY <2>1
    <3> QED
      BY <2>1, <3>1
  <2>2. CASE ~(p.store = name /\ p.at = x)
    <3>1. later[x] = now[x]
      BY <2>2
    <3> QED
      BY <1>1, <2>2, <3>1 DEF Near
  <2> QED
    BY <2>1, <2>2
<1> QED
  BY <1>2 DEF Near

\* The store after the first Set of the plan.
LEMMA WriteNear ==
    ASSUME TypeOK, NEW b, NEW g, NEW s \in Seq(Item), s # << >>, StoreNear(b, g, s),
           NEW p, p = Head(s), Carries(g, p), Write(p)
    PROVE  StoreNear(b, g, Tail(s))'
<1>1. /\ account = [x \in User |-> account[x]] /\ access = [x \in Handle |-> access[x]]
      /\ mailbox = [x \in Id |-> mailbox[x]] /\ inode = [x \in Id |-> inode[x]]
      /\ block = [x \in Id |-> block[x]] /\ invitation = [x \in Id |-> invitation[x]]
  BY DEF TypeOK
<1>2. Near(account', b.account, g.account, User, "user", Tail(s))
  <2>1. account' = IF p.store = "user" THEN [account EXCEPT ![p.at] = p.value] ELSE account
    BY DEF Write
  <2> QED
    BY <1>1, <2>1, NearWritten DEF StoreNear, Carries
<1>3. Near(access', b.access, g.access, Handle, "access", Tail(s))
  <2>1. access' = IF p.store = "access" THEN [access EXCEPT ![p.at] = p.value] ELSE access
    BY DEF Write
  <2> QED
    BY <1>1, <2>1, NearWritten DEF StoreNear, Carries
<1>4. Near(mailbox', b.mailbox, g.mailbox, Id, "mailbox", Tail(s))
  <2>1. mailbox' = IF p.store = "mailbox" THEN [mailbox EXCEPT ![p.at] = p.value] ELSE mailbox
    BY DEF Write
  <2> QED
    BY <1>1, <2>1, NearWritten DEF StoreNear, Carries
<1>5. Near(inode', b.inode, g.inode, Id, "inode", Tail(s))
  <2>1. inode' = IF p.store = "inode" THEN [inode EXCEPT ![p.at] = p.value] ELSE inode
    BY DEF Write
  <2> QED
    BY <1>1, <2>1, NearWritten DEF StoreNear, Carries
<1>6. Near(block', b.block, g.block, Id, "block", Tail(s))
  <2>1. block' = IF p.store = "block" THEN [block EXCEPT ![p.at] = p.value] ELSE block
    BY DEF Write
  <2> QED
    BY <1>1, <2>1, NearWritten DEF StoreNear, Carries
<1>7. Near(invitation', b.invitation, g.invitation, Id, "invitation", Tail(s))
  <2>1. invitation' = IF p.store = "invitation" THEN [invitation EXCEPT ![p.at] = p.value] ELSE invitation
    BY DEF Write
  <2> QED
    BY <1>1, <2>1, NearWritten DEF StoreNear, Carries
<1> QED
  BY <1>2, <1>3, <1>4, <1>5, <1>6, <1>7 DEF StoreNear, Near

\* What the plan has in a place is all that matters of it.
LEMMA NearOtherPlan ==
    ASSUME NEW b, NEW g, NEW s, NEW t, StoreNear(b, g, s), UNCHANGED Store,
           \A p \in Range(s) : p.store # "key" =>
               \E q \in Range(t) : q.store = p.store /\ q.at = p.at
    PROVE  StoreNear(b, g, t)'
<1>1. UNCHANGED <<account, access, mailbox, inode, block, invitation>>
  BY DEF Store
<1>2. ASSUME NEW now, NEW then, NEW goal, NEW D, NEW name, name # "key",
             Near(now, then, goal, D, name, s)
      PROVE  Near(now, then, goal, D, name, t)
  BY <1>2 DEF Near
<1>3. /\ Near(account, b.account, g.account, User, "user", t)
      /\ Near(access, b.access, g.access, Handle, "access", t)
      /\ Near(mailbox, b.mailbox, g.mailbox, Id, "mailbox", t)
  BY <1>2 DEF StoreNear
<1>4. /\ Near(inode, b.inode, g.inode, Id, "inode", t)
      /\ Near(block, b.block, g.block, Id, "block", t)
      /\ Near(invitation, b.invitation, g.invitation, Id, "invitation", t)
  BY <1>2 DEF StoreNear
<1> QED
  BY <1>1, <1>3, <1>4 DEF StoreNear, Near

\* What is known of a state between two calls.
Between(b) ==
    /\ b.session \in [Client -> Session \cup {None}]
    /\ b.account \in [User -> UserRecord \cup {None}]
    /\ b.access \in [Handle -> Access \cup {None}]
    /\ b.mailbox \in [Id -> MailboxNode \cup {None}]
    /\ b.inode \in [Id -> SealedInode \cup {None}]
    /\ b.block \in [Id -> SealedBlock \cup {None}]
    /\ b.invitation \in [Id -> Invitation \cup {None}]
    /\ b.next \in 1 .. MaxId + 1
    /\ \A x \in Id : x >= b.next => b.mailbox[x] = None /\ b.inode[x] = None /\ b.block[x] = None
    /\ \A h \in Handle : b.access[h] # None =>
          /\ BoxAt(b, h) # None
          /\ \A u \in User : b.access[h].children[u] # None =>
                /\ b.mailbox[b.access[h].children[u]] # None
                /\ b.mailbox[b.access[h].children[u]].inode = BoxAt(b, h).inode
    /\ \A i \in Id : b.inode[i] # None => \A x \in Range(b.inode[i].plain) : b.block[x] # None
    /\ \A i, j \in Id : b.inode[i] # None /\ b.inode[j] # None /\ i # j =>
          Range(b.inode[i].plain) \cap Range(b.inode[j].plain) = {}

\* The stores of g have the keys of the stores.
Functions(g) ==
    /\ g.account = [x \in User |-> g.account[x]] /\ g.access = [x \in Handle |-> g.access[x]]
    /\ g.mailbox = [x \in Id |-> g.mailbox[x]] /\ g.inode = [x \in Id |-> g.inode[x]]
    /\ g.block = [x \in Id |-> g.block[x]] /\ g.invitation = [x \in Id |-> g.invitation[x]]

\* The state a call aims at consists of functions.
LEMMA GoalFunctions ==
    ASSUME NEW b, Between(b), NEW c \in Client, NEW k, NEW g, Aim(b, c, k, g)
    PROVE  Functions(g)
<1>1. Functions(b)
  BY DEF Between, Functions
<1>2. \A D, F, G : \A x, v : F = [y \in D |-> F[y]] /\ G = [F EXCEPT ![x] = v] => G = [y \in D |-> G[y]]
  OBVIOUS
<1>3. ASSUME NEW f, NEW content, StoreGoal(b, c, f, content, g) PROVE Functions(g)
  BY <1>1, <1>3 DEF Functions, StoreGoal, NameGoal, BlocksGoal
<1>4. ASSUME NEW f, NEW content, AppendGoal(b, c, f, content, g) PROVE Functions(g)
  BY <1>1, <1>4 DEF Functions, AppendGoal, BlocksGoal
<1>5. ASSUME NEW f, CopyGoal(b, c, f, g) PROVE Functions(g)
  BY <1>1, <1>5 DEF Functions, CopyGoal
<1>6. ASSUME NEW f, NEW r, InviteGoal(b, c, f, r, g) PROVE Functions(g)
  BY <1>1, <1>6 DEF Functions, InviteGoal
<1>7. ASSUME NEW f, NEW s, NEW j, AcceptGoal(b, c, f, s, j, g) PROVE Functions(g)
  BY <1>1, <1>7 DEF Functions, AcceptGoal, NameGoal
<1>8. ASSUME NEW f, NEW r, RekeyGoal(b, c, f, r, g) PROVE Functions(g)
  BY <1>1, <1>8 DEF Functions, RekeyGoal, NameGoal
<1> QED
  BY <1>3, <1>4, <1>5, <1>6, <1>7, <1>8 DEF Aim

\* What is left of a RevokeAccess after a Set.
LEMMA ReadableRest ==
    ASSUME StepTypes, NEW b, NEW k \in CallRecord, NEW h, Readable(b, k, h),
           k.plan # << >>, NEW p \in SetItem, p = Head(k.plan), Write(p),
           NEW on, on.plan = Tail(k.plan), on.arg = k.arg
    PROVE  Readable(b, on, h)'
<1>1. Range(k.plan) = {p} \cup Range(on.plan)
  BY HeadOrTail DEF CallRecord
<1>2. p.kind = "set" /\ block' = IF p.store = "block" THEN [block EXCEPT ![p.at] = p.value] ELSE block
  BY SetItemTyped DEF Write
<1>3. ASSUME NEW x \in Range(NodeAt(b, h).plain)
      PROVE  \/ decryptAndVerify(b.block[x], BoxAt(b, h).fileKey)
             \/ block'[x] = b.block[x] /\ Fetch("block", x, b.next) \in Range(on.plan)
  <2>1. CASE decryptAndVerify(b.block[x], BoxAt(b, h).fileKey)
    BY <2>1
  <2>2. CASE block[x] = b.block[x] /\ Fetch("block", x, b.next) \in Range(k.plan)
    <3>1. Fetch("block", x, b.next) \in Range(on.plan)
      BY <1>1, <1>2, <2>2 DEF Fetch
    <3>2. CASE p.store = "block" /\ p.at = x
      BY <1>1, <1>2, <3>2 DEF Readable
    <3>3. CASE ~(p.store = "block" /\ p.at = x)
      <4>1. block'[x] = block[x]
        BY <1>2, <3>3
      <4> QED
        BY <2>2, <3>1, <4>1
    <3> QED
      BY <3>2, <3>3
  <2> QED
    BY <2>1, <2>2 DEF Readable
<1> QED
  BY <1>1, <1>3 DEF Readable

\* A Set of the call brings the store nearer to its end.
LEMMA SetToward ==
    ASSUME StepTypes, NEW c \in Client, NEW k \in CallRecord, k = call[c],
           NEW b, NEW g, Toward(b, c, k, g), DoSet(c),
           NEW on, on = [k EXCEPT !.plan = Tail(k.plan)]
    PROVE  Toward(b, c, on, g)'
<1>1. TypeOK /\ Planned(c, "set")
  BY DEF StepTypes, DoSet
<1>2. PICK s \in Seq(Item) : s = k.plan /\ s # << >>
  BY <1>1, PlannedSet DEF CallRecord
<1>3. PICK p \in SetItem : p = Head(s) /\ p.kind = "set"
  BY <1>1, <1>2, PlannedSet, SetItemTyped
<1>4. PICK rest \in Seq(Item) : rest = Tail(s)
  BY <1>2, HeadAndTail
<1>5. Range(s) = {p} \cup Range(rest)
  BY <1>2, <1>3, <1>4, HeadOrTail
<1>6. on.plan = rest /\ on.op = k.op /\ on.access = k.access /\ on.arg = k.arg
  BY <1>2, <1>4, WithPlan
<1>7. /\ Write(p) /\ Remember(c, p) /\ UNCHANGED next
      /\ revoked' = IF k.op = "RevokeAccess" /\ p.store = "access"
                    THEN revoked \cup ({k.access.children[k.arg]} \ {None}) ELSE revoked
  BY <1>2, <1>3 DEF DoSet
<1>8. Leads(c, k, b, g, p) /\ StoreNear(b, g, s)
  BY <1>2, <1>5 DEF Toward
<1>9. StoreNear(b, g, rest)'
  <2>1. Carries(g, p)
    BY <1>3, <1>8 DEF Leads
  <2>2. StoreNear(b, g, Tail(s))'
    BY <1>1, <1>2, <1>3, <1>7, <1>8, <2>1, WriteNear
  <2> QED
    BY <1>4, <2>2
<1>10. \A q \in Range(rest) : Leads(c, on, b, g, q)
  BY <1>2, <1>5, <1>6 DEF Toward, Leads
<1>11. session' = g.session \/ (session' = b.session /\ \E q \in Range(rest) : q.store = "user")
  <2>1. session \in {b.session, g.session}
    BY DEF Toward
  <2>2. CASE p.store = "user"
    BY <1>7, <1>8, <2>1, <2>2 DEF Leads, Remember
  <2>3. CASE p.store # "user"
    <3>1. session' = session
      BY <1>7, <2>3 DEF Remember
    <3> QED
      BY <1>2, <1>5, <2>3, <3>1 DEF Toward
  <2> QED
    BY <2>2, <2>3
<1>12. \/ revoked' = g.revoked
       \/ /\ revoked' = b.revoked /\ k.op = "RevokeAccess"
          /\ \E q \in Range(rest) : q.store = "access"
  <2>1. revoked \in {b.revoked, g.revoked}
    BY DEF Toward
  <2>2. CASE k.op = "RevokeAccess" /\ p.store = "access"
    BY <1>7, <1>8, <2>1, <2>2 DEF Leads
  <2>3. CASE ~(k.op = "RevokeAccess" /\ p.store = "access")
    <3>1. revoked' = revoked
      BY <1>7, <2>3
    <3> QED
      BY <1>2, <1>5, <2>3, <3>1 DEF Toward
  <2> QED
    BY <2>2, <2>3
<1>13. next' = g.next
  BY <1>7 DEF Toward
<1> QED
  BY <1>6, <1>9, <1>10, <1>11, <1>12, <1>13 DEF Toward

\* And the end stays what it was, while the call goes on.
LEMMA SetAim ==
    ASSUME StepTypes, NEW c \in Client, NEW k \in CallRecord, k = call[c],
           NEW b, NEW g, Aim(b, c, k, g), DoSet(c), Tail(k.plan) # << >>,
           NEW on, on = [k EXCEPT !.plan = Tail(k.plan)]
    PROVE  Aim(b, c, on, g)'
<1>1. TypeOK /\ Planned(c, "set")
  BY DEF StepTypes, DoSet
<1>2. PICK s \in Seq(Item) : s = k.plan /\ s # << >>
  BY <1>1, PlannedSet DEF CallRecord
<1>3. PICK p \in SetItem : p = Head(s) /\ p.kind = "set"
  BY <1>1, <1>2, PlannedSet, SetItemTyped
<1>4. PICK rest \in Seq(Item) : rest = Tail(s) /\ rest # << >>
  BY <1>2, HeadAndTail
<1>5. Range(s) = {p} \cup Range(rest)
  BY <1>2, <1>3, <1>4, HeadOrTail
<1>6. /\ on.plan = rest /\ on.op = k.op /\ on.access = k.access /\ on.arg = k.arg
      /\ on.filename = k.filename /\ on.box = k.box /\ on.made = k.made
  BY <1>2, <1>4, WithPlan
<1>7. Write(p)
  BY <1>2, <1>3 DEF DoSet
<1> DEFINE h == Owned(b, c, k.filename)
<1>8. CASE k.op = "StoreFile" /\ StoreGoal(b, c, k.filename, k.arg, g)
  BY <1>6, <1>8 DEF Aim
<1>9. CASE /\ k.op = "AppendToFile" /\ AppendGoal(b, c, k.filename, k.arg, g)
           /\ inode = b.inode /\ InodeLast(k.plan)
  <2>1. InodeLast(rest) /\ p.store # "inode"
    BY <1>2, <1>3, <1>4, <1>9, InodeLastTail
  <2>2. inode' = b.inode
    BY <1>7, <1>9, <2>1 DEF Write
  <2> QED
    BY <1>6, <1>9, <2>1, <2>2 DEF Aim
<1>10. CASE /\ k.op = "CreateInvitation" /\ k.access = b.access[h] /\ k.made = b.next
            /\ CopyGoal(b, c, k.filename, g) /\ Lookup(k.arg) \in Range(k.plan)
  <2>1. Lookup(k.arg) \in Range(rest)
    BY <1>2, <1>3, <1>5, <1>10 DEF Lookup
  <2> QED
    BY <1>6, <1>10, <2>1 DEF Aim
<1>11. CASE /\ k.op = "CreateInvitation"
            /\ \E r \in User : InviteGoal(b, c, k.filename, r, g)
            /\ \A q \in Range(k.plan) : q.kind = "set"
  BY <1>2, <1>5, <1>6, <1>11 DEF Aim
<1>12. CASE /\ k.op = "AcceptInvitation"
            /\ \E s1 \in User, j \in Id : AcceptGoal(b, c, k.filename, s1, j, g)
  BY <1>6, <1>12 DEF Aim
<1>13. CASE /\ k.op = "RevokeAccess" /\ k.access = b.access[h] /\ k.box = BoxAt(b, h)
            /\ RekeyGoal(b, c, k.filename, k.arg, g) /\ Readable(b, k, h)
  <2>1. Readable(b, on, h)'
    BY <1>2, <1>3, <1>4, <1>6, <1>7, <1>13, ReadableRest
  <2> QED
    BY <1>6, <1>13, <2>1 DEF Aim
<1> QED
  BY <1>8, <1>9, <1>10, <1>11, <1>12, <1>13 DEF Aim

\* What is near its goal and has no Set left to do is the goal.
LEMMA NearEnd ==
    ASSUME NEW D, NEW now, NEW then, NEW goal, NEW name, NEW s, Near(now, then, goal, D, name, s),
           \A p \in Range(s) : p.store # name,
           now = [x \in D |-> now[x]], goal = [x \in D |-> goal[x]]
    PROVE  now = goal
<1>1. \A x \in D : now[x] = goal[x]
  BY DEF Near
<1> QED
  BY <1>1

\* The variables of Sharing are those of g.
Reached(g) ==
    /\ session = g.session /\ account = g.account /\ access = g.access
    /\ mailbox = g.mailbox /\ inode = g.inode /\ block = g.block
    /\ invitation = g.invitation /\ revoked = g.revoked /\ next = g.next

\* When no Set is left, the call has come to its end.
LEMMA TowardDone ==
    ASSUME TypeOK, NEW b, NEW c, NEW k, NEW g, Toward(b, c, k, g), Functions(g),
           \A p \in Range(k.plan) : p.kind = "lookup" /\ p.store = "key"
    PROVE  Reached(g)
<1>1. Functions(Now)
  BY DEF TypeOK, Functions, Now
<1>2. \A p \in Range(k.plan) :
          p.store \notin {"user", "access", "mailbox", "inode", "block", "invitation"}
  OBVIOUS
<1>3. account = g.account /\ access = g.access
  BY <1>1, <1>2, NearEnd DEF Toward, StoreNear, Functions, Now
<1>4. mailbox = g.mailbox /\ inode = g.inode
  BY <1>1, <1>2, NearEnd DEF Toward, StoreNear, Functions, Now
<1>5. block = g.block /\ invitation = g.invitation
  BY <1>1, <1>2, NearEnd DEF Toward, StoreNear, Functions, Now
<1>6. session = g.session /\ revoked = g.revoked /\ next = g.next
  BY <1>2 DEF Toward
<1> QED
  BY <1>3, <1>4, <1>5, <1>6 DEF Reached

\* The last Set of a call brings it to its end.
LEMMA SetDone ==
    ASSUME StepTypes, StepTypes', NEW c \in Client, NEW k \in CallRecord, k = call[c],
           NEW b, NEW g, Toward(b, c, k, g), Functions(g), DoSet(c), Tail(k.plan) = << >>
    PROVE  /\ Reached(g)'
           /\ \A p \in Range(k.plan) : p.kind = "set"
<1>1. PICK on : on = [k EXCEPT !.plan = Tail(k.plan)]
  OBVIOUS
<1>2. Toward(b, c, on, g)'
  BY <1>1, SetToward
<1>3. on.plan = << >>
  BY <1>1, WithPlan, << >> \in Seq(Item)
<1>4. Range(<< >>) = {}
  BY DEF Range
<1>5. /\ account' = [x \in User |-> account'[x]] /\ access' = [x \in Handle |-> access'[x]]
      /\ mailbox' = [x \in Id |-> mailbox'[x]] /\ inode' = [x \in Id |-> inode'[x]]
      /\ block' = [x \in Id |-> block'[x]] /\ invitation' = [x \in Id |-> invitation'[x]]
  BY DEF StepTypes, TypeOK
<1>6. account' = g.account /\ access' = g.access
  BY <1>2, <1>3, <1>4, <1>5, NearEnd DEF Toward, StoreNear, Functions
<1>7. mailbox' = g.mailbox /\ inode' = g.inode
  BY <1>2, <1>3, <1>4, <1>5, NearEnd DEF Toward, StoreNear, Functions
<1>8. block' = g.block /\ invitation' = g.invitation
  BY <1>2, <1>3, <1>4, <1>5, NearEnd DEF Toward, StoreNear, Functions
<1>9. session' = g.session /\ revoked' = g.revoked /\ next' = g.next
  BY <1>2, <1>3, <1>4 DEF Toward
<1>10. \A p \in Range(k.plan) : p.kind = "set"
  <2>1. Planned(c, "set")
    BY DEF DoSet
  <2>2. k.plan \in Seq(Item) /\ k.plan # << >> /\ Head(k.plan).kind = "set"
    BY <2>1 DEF CallRecord, Planned
  <2>3. Range(k.plan) = {Head(k.plan)} \cup Range(<< >>)
    BY <2>2, HeadOrTail
  <2> QED
    BY <1>4, <2>2, <2>3
<1> QED
  BY <1>6, <1>7, <1>8, <1>9, <1>10 DEF Reached

\* The Set that puts back what RevokeAccess has read is on the way.
LEMMA BackToward ==
    ASSUME StepTypes, NEW c \in Client, NEW k \in CallRecord, k.plan # << >>,
           NEW b, Between(b), NEW g, Aim(b, c, k, g), Toward(b, c, k, g), k.op = "RevokeAccess",
           NEW p \in FetchItem, p = Head(k.plan), NEW back,
           \/ /\ p.store = "block" /\ decryptAndVerify(block[p.at], k.box.fileKey)
              /\ back = Put("block", p.at, encryptAndMAC(block[p.at].plain, p.value))
           \/ /\ p.store = "mailbox" /\ mailbox[p.at] # None
              /\ back = Put("mailbox", p.at, [mailbox[p.at] EXCEPT !.fileKey = p.value]),
           UNCHANGED vars,
           NEW on \in CallRecord, on.op = k.op, on.filename = k.filename, on.arg = k.arg,
           on.access = k.access, on.box = k.box, Range(on.plan) = {back} \cup Range(Tail(k.plan))
    PROVE  Aim(b, c, on, g)' /\ Toward(b, c, on, g)'
<1> DEFINE h == Owned(b, c, k.filename)
           box == BoxAt(b, h)
           ids == NodeAt(b, h).plain
<1>1. Range(k.plan) = {p} \cup Range(Tail(k.plan))
  BY HeadOrTail DEF CallRecord
<1>2. /\ p.kind = "fetch" /\ p.at \in Id
      /\ back.kind = "set" /\ back.store = p.store /\ back.at = p.at
  BY ItemKinds, PutFields
<1>3. /\ k.access = b.access[h] /\ k.box = box
      /\ RekeyGoal(b, c, k.filename, k.arg, g) /\ Readable(b, k, h)
  BY DEF Aim
<1>4. /\ p.value = b.next
      /\ p.store = "block" => p.at \in Range(ids)
      /\ p.store = "mailbox" => p.at \in KeptChildren(b.access[h], k.arg)
  BY <1>1, <1>2, <1>3 DEF Readable
<1>5. Carries(g, back)
  <2>1. CASE p.store = "block"
    <3>1. g.block[p.at] = encryptAndMAC(b.block[p.at].plain, b.next)
      BY <1>2, <1>3, <1>4, <2>1 DEF RekeyGoal
    <3>2. block[p.at] \in {b.block[p.at], g.block[p.at]}
      BY <1>2 DEF Toward, StoreNear, Near
    <3>3. block[p.at].plain = b.block[p.at].plain
      BY <3>1, <3>2 DEF encryptAndMAC
    <3>4. back.value = encryptAndMAC(block[p.at].plain, p.value)
      BY <2>1, PutFields
    <3> QED
      BY <1>2, <1>4, <2>1, <3>1, <3>3, <3>4 DEF Carries
  <2>2. CASE p.store = "mailbox"
    <3>1. /\ b.access[h] # None /\ b.session[c] # None /\ b.next + 2 <= MaxId + 1
          /\ g.mailbox = [m \in Id |->
                IF m = b.next + 1 THEN [fileKey |-> b.next, inode |-> box.inode]
                ELSE IF m \in KeptChildren(b.access[h], k.arg)
                     THEN [fileKey |-> b.next, inode |-> b.mailbox[m].inode]
                     ELSE b.mailbox[m]]
      BY SMTT(30), <1>3 DEF RekeyGoal, OpensAt, NameGoal
    <3>2. h \in Handle
      BY SMTT(30), <3>1 DEF Between, Session, Handle, Owned, CallRecord
    <3>3. PICK u \in User : p.at = b.access[h].children[u] /\ p.at # None
      BY SMTT(30), <1>4, <2>2 DEF KeptChildren
    <3>4. b.mailbox[p.at] # None
      BY <3>1, <3>2, <3>3 DEF Between
    <3>5. b.mailbox[p.at] \in MailboxNode /\ b.next \in Nat
      BY <1>2, <3>4 DEF Between
    <3>6. p.at # b.next + 1
      BY <1>2, <3>1, <3>4, <3>5 DEF Between, Id
    <3>7. g.mailbox[p.at] = [fileKey |-> b.next, inode |-> b.mailbox[p.at].inode]
      BY <1>2, <1>4, <2>2, <3>1, <3>6
    <3>8. mailbox[p.at] \in {b.mailbox[p.at], g.mailbox[p.at]}
      BY <1>2 DEF Toward, StoreNear, Near
    <3>9. back.value = [mailbox[p.at] EXCEPT !.fileKey = b.next]
      BY <1>4, <2>2, PutFields
    <3>10. \A x \in MailboxNode :
              [x EXCEPT !.fileKey = b.next] = [fileKey |-> b.next, inode |-> x.inode]
      BY DEF MailboxNode
    <3>11. g.mailbox[p.at] = [g.mailbox[p.at] EXCEPT !.fileKey = b.next]
      BY <3>7
    <3>12. back.value = g.mailbox[p.at]
      BY <3>5, <3>7, <3>8, <3>9, <3>10, <3>11
    <3> QED
      BY <1>2, <2>2, <3>12 DEF Carries
  <2> QED
    BY <2>1, <2>2
<1>6. p.store \in {"block", "mailbox"} /\ UNCHANGED Store
  BY DEF vars, Store
<1>7. StoreNear(b, g, on.plan)'
  <2>1. \A q \in Range(k.plan) : \E r \in Range(on.plan) : r.store = q.store /\ r.at = q.at
    BY <1>1, <1>2
  <2> QED
    BY <1>6, <2>1, NearOtherPlan DEF Toward
<1>8. \A q \in Range(on.plan) : Leads(c, on, b, g, q)
  <2>1. Leads(c, on, b, g, back)
    BY <1>2, <1>5, <1>6 DEF Leads
  <2>2. \A q \in Range(k.plan) : Leads(c, on, b, g, q)
    BY DEF Toward, Leads
  <2> QED
    BY <1>1, <2>1, <2>2
<1>9. Toward(b, c, on, g)'
  <2>1. session' = g.session \/ (session' = b.session /\ \E q \in Range(on.plan) : q.store = "user")
    BY <1>1, <1>2, <1>6 DEF Toward, vars
  <2>2. \/ revoked' = g.revoked
        \/ /\ revoked' = b.revoked /\ on.op = "RevokeAccess"
           /\ \E q \in Range(on.plan) : q.store = "access"
    BY <1>1, <1>2, <1>6 DEF Toward, vars
  <2>3. next' = g.next
    BY DEF Toward, vars
  <2> QED
    BY <1>7, <1>8, <2>1, <2>2, <2>3 DEF Toward
<1>10. Readable(b, on, h)'
  <2>1. block' = block
    BY DEF vars
  <2>2. ASSUME NEW x \in Range(ids)
        PROVE  \/ decryptAndVerify(b.block[x], box.fileKey)
               \/ block[x] = b.block[x] /\ Fetch("block", x, b.next) \in Range(on.plan)
    <3>1. CASE Fetch("block", x, b.next) = p /\ block[x] = b.block[x]
      <4>1. p.store = "block" /\ p.at = x
        BY <3>1 DEF Fetch
      <4> QED
        BY <1>3, <3>1, <4>1
    <3> QED
      BY <1>1, <1>3, <3>1 DEF Readable
  <2>3. p.store = "block" => decryptAndVerify(b.block[p.at], box.fileKey)
    <3>1. SUFFICES ASSUME p.store = "block" PROVE decryptAndVerify(b.block[p.at], box.fileKey)
      OBVIOUS
    <3>2. p.at \in Range(ids) /\ decryptAndVerify(block[p.at], box.fileKey)
      BY <1>3, <1>4, <3>1
    <3> QED
      BY <1>3, <3>2 DEF Readable
  <2>4. \A q \in Range(on.plan) :
          /\ q.store = "block" /\ q.kind = "set" => decryptAndVerify(b.block[q.at], box.fileKey)
          /\ q.kind = "fetch" =>
                /\ q.value = b.next
                /\ q.store = "block" => q.at \in Range(ids)
                /\ q.store = "mailbox" => q.at \in KeptChildren(b.access[h], on.arg)
    BY <1>1, <1>2, <1>3, <2>3 DEF Readable
  <2> HIDE DEF h, box, ids
  <2>5. \A x \in Range(NodeAt(b, h).plain) :
               \/ decryptAndVerify(b.block[x], BoxAt(b, h).fileKey)
               \/ block'[x] = b.block[x] /\ Fetch("block", x, b.next) \in Range(on.plan)
    BY <2>1, <2>2 DEF box, ids
  <2> QED
    BY <2>4, <2>5 DEF Readable, box, ids
<1>11. Aim(b, c, on, g)'
  BY <1>3, <1>10 DEF Aim
<1> QED
  BY <1>9, <1>11

(***************************************************************************)
(* A plan leads to the end of the call.                                     *)
(***************************************************************************)
State(s, a, r, m, i, x, j, w, n) ==
    [session |-> s, account |-> a, access |-> r, mailbox |-> m, inode |-> i,
     block |-> x, invitation |-> j, revoked |-> w, next |-> n]

\* The fields of a state.
LEMMA StateFields ==
    ASSUME NEW s, NEW a, NEW r, NEW m, NEW i, NEW x, NEW j, NEW w, NEW n,
           NEW g, g = State(s, a, r, m, i, x, j, w, n)
    PROVE  /\ g.session = s /\ g.account = a /\ g.access = r /\ g.mailbox = m /\ g.inode = i
           /\ g.block = x /\ g.invitation = j /\ g.revoked = w /\ g.next = n
  BY DEF State

\* What a plan must have when it is made.
LEMMA PlanToward ==
    ASSUME NEW b, Reached(b), NEW c, NEW g, NEW on, UNCHANGED <<session, Store, revoked>>,
           next' = g.next, \A p \in Range(on.plan) : Leads(c, on, b, g, p),
           g.session = b.session \/ \E p \in Range(on.plan) : p.store = "user",
           \/ g.revoked = b.revoked
           \/ on.op = "RevokeAccess" /\ \E p \in Range(on.plan) : p.store = "access",
           Near(b.account, b.account, g.account, User, "user", on.plan),
           Near(b.access, b.access, g.access, Handle, "access", on.plan),
           Near(b.mailbox, b.mailbox, g.mailbox, Id, "mailbox", on.plan),
           Near(b.inode, b.inode, g.inode, Id, "inode", on.plan),
           Near(b.block, b.block, g.block, Id, "block", on.plan),
           Near(b.invitation, b.invitation, g.invitation, Id, "invitation", on.plan)
    PROVE  Toward(b, c, on, g)'
<1>1. /\ session' = b.session /\ account' = b.account /\ access' = b.access
      /\ mailbox' = b.mailbox /\ inode' = b.inode /\ block' = b.block
      /\ invitation' = b.invitation /\ revoked' = b.revoked
  BY DEF Reached, Store
<1>2. StoreNear(b, g, on.plan)'
  BY <1>1 DEF StoreNear, Near
<1> QED
  BY <1>1, <1>2 DEF Toward

\* A store that the call leaves alone, and one that it changes in one place.
LEMMA NearSame ==
    ASSUME NEW then, NEW D, NEW name, NEW plan
    PROVE  Near(then, then, then, D, name, plan)
  BY DEF Near

\* A map that differs from its goal at one place is near it, given a Set there.
LEMMA NearOne ==
    ASSUME NEW then, NEW D, NEW name, NEW plan, NEW at, NEW goal,
           \A x \in D : x # at => goal[x] = then[x],
           \E p \in Range(plan) : p.store = name /\ p.at = at
    PROVE  Near(then, then, goal, D, name, plan)
  BY DEF Near

\* The Set that saves the user record.
LEMMA UserLeads ==
    ASSUME NEW b, Between(b), NEW c \in Client, NEW f \in Filename, NEW g, NEW k,
           NameGoal(b, c, f, g),
           NEW p, p = Put("user", b.session[c].name, [files |-> b.session[c].files \cup {f}])
    PROVE  Leads(c, k, b, g, p) /\ p.store = "user" /\ p.at = b.session[c].name
<1>1. PICK s \in Session : s = b.session[c]
  BY DEF NameGoal, Between
<1>2. s.name \in User /\ s = [name |-> s.name, files |-> s.files]
  BY DEF Session
<1> DEFINE files == s.files \cup {f}
<1>3. /\ p.kind = "set" /\ p.store = "user" /\ p.at = s.name /\ p.value = [files |-> files]
  BY <1>1, PutFields
<1>4. /\ g.session = [b.session EXCEPT ![c] = [name |-> s.name, files |-> files]]
      /\ g.account = [b.account EXCEPT ![s.name] = [files |-> files]]
      /\ b.session \in [Client -> Session \cup {None}] /\ b.account \in [User -> UserRecord \cup {None}]
  BY <1>1 DEF NameGoal, Between
<1>5. g.account[p.at] = p.value
  BY <1>2, <1>3, <1>4
<1>6. p.value.files = files
  BY <1>3
<1>7. [b.session EXCEPT ![c].files = files] = g.session
  <2>1. [b.session[c] EXCEPT !.files = files] = [name |-> s.name, files |-> files]
    BY <1>1, <1>2
  <2> QED
    BY <1>4, <2>1
<1>8. [g.session EXCEPT ![c].files = files] = g.session
  <2>1. g.session[c] = [name |-> s.name, files |-> files] /\ g.session = [d \in Client |-> g.session[d]]
    BY <1>4
  <2>2. [g.session[c] EXCEPT !.files = files] = g.session[c]
    BY <2>1
  <2> QED
    BY <2>1, <2>2
<1> HIDE DEF files
<1> QED
  BY <1>1, <1>3, <1>5, <1>6, <1>7, <1>8 DEF Leads, Carries

\* The Sets of new blocks.
LEMMA BlocksLead ==
    ASSUME NEW b, NEW c, NEW k, NEW g, NEW first \in Nat \ {0}, NEW content \in Content, NEW key \in Id,
           first + Len(content) <= MaxId + 1, BlocksGoal(b, first, content, key, g),
           NEW plan, Range(PutBlocks(first, content, key)) \subseteq Range(plan)
    PROVE  /\ \A p \in Range(PutBlocks(first, content, key)) :
                 Leads(c, k, b, g, p) /\ p.store = "block" /\ p.kind = "set"
           /\ Near(b.block, b.block, g.block, Id, "block", plan)
<1>1. Len(content) \in Nat
  BY ContentIsSeq
<1>2. ASSUME NEW p \in Range(PutBlocks(first, content, key))
      PROVE  Leads(c, k, b, g, p) /\ p.store = "block" /\ p.kind = "set"
  <2>1. PICK x \in 1 .. Len(content) : /\ p = Put("block", first + x - 1, encryptAndMAC(content[x], key))
                                       /\ first + x - 1 \in Id
    BY PutBlocksItems
  <2>2. /\ p.kind = "set" /\ p.store = "block" /\ p.at = first + x - 1
        /\ p.value = encryptAndMAC(content[x], key)
    BY <2>1, PutFields
  <2>3. p.at \in first .. first + Len(content) - 1 /\ p.at - first + 1 = x
    BY <1>1, <2>2
  <2>4. g.block[p.at] = p.value
    BY <2>1, <2>2, <2>3 DEF BlocksGoal
  <2> QED
    BY <2>2, <2>4 DEF Leads, Carries
<1>3. ASSUME NEW x \in Id, x \in first .. first + Len(content) - 1
      PROVE  \E p \in Range(plan) : p.store = "block" /\ p.at = x
  <2>1. x - first + 1 \in 1 .. Len(content) /\ first + (x - first + 1) - 1 = x
    BY <1>1, <1>3 DEF Id
  <2>2. PICK n \in 1 .. Len(content) : first + n - 1 = x
    BY <2>1
  <2>3. PutBlocks(first, content, key)[n] = Put("block", x, encryptAndMAC(content[n], key))
    BY <2>2 DEF PutBlocks
  <2>4. Put("block", x, encryptAndMAC(content[n], key)) \in Range(PutBlocks(first, content, key))
    <3>1. DOMAIN PutBlocks(first, content, key) = 1 .. Len(content)
      BY DEF PutBlocks
    <3> QED
      BY <2>3, <3>1 DEF Range
  <2> QED
    BY <2>4, PutFields
<1>4. Near(b.block, b.block, g.block, Id, "block", plan)
  BY <1>3 DEF Near, BlocksGoal
<1> QED
  BY <1>2, <1>4

\* StoreFile.
LEMMA StoreToward ==
    ASSUME StepTypes, NEW c \in Client, NEW f \in Filename, NEW content \in Content,
           BeginStore(c, f, content), NEW b, Reached(b), Between(b),
           NEW on, on.op = "StoreFile", on.filename = f, on.arg = content,
           on.plan = StorePlan(c, f, content)
    PROVE  \E g : Aim(b, c, on, g)' /\ Toward(b, c, on, g)'
<1> DEFINE n == b.next
           h == Owned(b, c, f)
           files == b.session[c].files \cup {f}
           name == b.session[c].name
           pm == Put("mailbox", n + 2, [fileKey |-> n, inode |-> n + 1])
           pa == Put("access", h, NewRecord(h, n + 2))
           pi == Put("inode", n + 1, encryptAndMAC(NewBlocks(n + 3, Len(content)), n))
           pu == Put("user", name, [files |-> files])
           pb == PutBlocks(n + 3, content, n)
<1>1. /\ TypeOK /\ session[c] # None /\ CanDraw(3 + Len(content))
      /\ next' = n + 3 + Len(content)
      /\ UNCHANGED <<session, Store, revoked>> /\ next = n /\ session = b.session
  BY DEF StepTypes, BeginStore, Idle, Reached
<1>2. /\ h \in Handle /\ n \in Id /\ n + 1 \in Id /\ n + 2 \in Id
      /\ Range(on.plan) = {pm, pa, pi, pu} \cup Range(pb)
  BY <1>1, StorePlanItems DEF Owned, PutUser
<1>3. n \in Nat /\ Len(content) \in Nat /\ n + 3 + Len(content) <= MaxId + 1 /\ n + 3 \in Nat \ {0}
  <2>1. next \in Nat \ {0} /\ Len(content) \in Nat
    BY <1>1, ContentIsSeq, Typed
  <2>2. next + (3 + Len(content)) <= MaxId + 1
    BY <1>1 DEF CanDraw
  <2> QED
    BY <1>1, <2>1, <2>2, BoundsAssumption
<1> DEFINE newNode == encryptAndMAC(NewBlocks(n + 3, Len(content)), n)
           blocks == [x \in Id |-> IF x \in n + 3 .. n + 3 + Len(content) - 1
                                   THEN encryptAndMAC(content[x - (n + 3) + 1], n)
                                   ELSE b.block[x]]
           g == State([b.session EXCEPT ![c] = [name |-> name, files |-> files]],
                      [b.account EXCEPT ![name] = [files |-> files]],
                      [b.access EXCEPT ![h] = NewRecord(h, n + 2)],
                      [b.mailbox EXCEPT ![n + 2] = [fileKey |-> n, inode |-> n + 1]],
                      [b.inode EXCEPT ![n + 1] = newNode], blocks,
                      b.invitation, b.revoked, n + 3 + Len(content))
<1>4. /\ g.session = [b.session EXCEPT ![c] = [name |-> name, files |-> files]]
      /\ g.account = [b.account EXCEPT ![name] = [files |-> files]]
      /\ g.access = [b.access EXCEPT ![h] = NewRecord(h, n + 2)]
      /\ g.mailbox = [b.mailbox EXCEPT ![n + 2] = [fileKey |-> n, inode |-> n + 1]]
      /\ g.inode = [b.inode EXCEPT ![n + 1] = newNode] /\ g.block = blocks
      /\ g.invitation = b.invitation /\ g.revoked = b.revoked /\ g.next = n + 3 + Len(content)
  BY ONLY StateFields
<1> HIDE DEF g
<1>5. NameGoal(b, c, f, g) /\ BlocksGoal(b, n + 3, content, n, g)
  BY <1>1, <1>4 DEF NameGoal, BlocksGoal
<1>6. StoreGoal(b, c, f, content, g)
  BY <1>3, <1>4, <1>5 DEF StoreGoal
<1>7. Functions(b)
  BY DEF Between, Functions
<1>8. /\ pm.kind = "set" /\ pm.store = "mailbox" /\ pm.at = n + 2
      /\ pm.value = [fileKey |-> n, inode |-> n + 1]
      /\ pa.kind = "set" /\ pa.store = "access" /\ pa.at = h /\ pa.value = NewRecord(h, n + 2)
      /\ pi.kind = "set" /\ pi.store = "inode" /\ pi.at = n + 1
      /\ pi.value = encryptAndMAC(NewBlocks(n + 3, Len(content)), n)
  BY PutFields
<1>9. Leads(c, on, b, g, pu) /\ pu.store = "user" /\ pu.at = name
  BY <1>5, UserLeads
<1>10. /\ \A p \in Range(pb) : Leads(c, on, b, g, p)
       /\ Near(b.block, b.block, g.block, Id, "block", on.plan)
  BY <1>2, <1>3, <1>5, BlocksLead
<1> HIDE DEF pm, pa, pi, pu, pb
<1>11. /\ Near(b.account, b.account, g.account, User, "user", on.plan)
       /\ Near(b.access, b.access, g.access, Handle, "access", on.plan)
       /\ g.access[h] = NewRecord(h, n + 2)
  <2>1. b.account = [x \in User |-> b.account[x]] /\ b.access = [x \in Handle |-> b.access[x]]
    BY <1>7 DEF Functions
  <2>2. /\ \E p \in Range(on.plan) : p.store = "user" /\ p.at = name
        /\ \E p \in Range(on.plan) : p.store = "access" /\ p.at = h
    BY <1>2, <1>8, <1>9
  <2> HIDE DEF h, name, files
  <2>3. \A x \in User : x # name => g.account[x] = b.account[x]
    BY <1>4, <2>1
  <2>4. /\ \A x \in Handle : x # h => g.access[x] = b.access[x]
        /\ h \in Handle => g.access[h] = NewRecord(h, n + 2)
    BY <1>4, <2>1
  <2> QED
    BY <1>2, <2>2, <2>3, <2>4, NearOne
<1>12. /\ Near(b.mailbox, b.mailbox, g.mailbox, Id, "mailbox", on.plan)
       /\ g.mailbox[n + 2] = [fileKey |-> n, inode |-> n + 1]
       /\ Near(b.inode, b.inode, g.inode, Id, "inode", on.plan)
       /\ g.inode[n + 1] = newNode
  <2>1. b.mailbox = [x \in Id |-> b.mailbox[x]] /\ b.inode = [x \in Id |-> b.inode[x]]
    BY <1>7 DEF Functions
  <2>2. /\ \E p \in Range(on.plan) : p.store = "mailbox" /\ p.at = n + 2
        /\ \E p \in Range(on.plan) : p.store = "inode" /\ p.at = n + 1
    BY <1>2, <1>8
  <2> DEFINE at == n + 1
             am == n + 2
             box == [fileKey |-> n, inode |-> n + 1]
  <2>3. /\ g.mailbox = [b.mailbox EXCEPT ![am] = box] /\ g.inode = [b.inode EXCEPT ![at] = newNode]
        /\ at \in Id /\ am \in Id
    BY <1>2, <1>4
  <2> HIDE DEF at, am, box, newNode
  <2>4. /\ \E p \in Range(on.plan) : p.store = "mailbox" /\ p.at = am
        /\ \E p \in Range(on.plan) : p.store = "inode" /\ p.at = at
    BY <2>2 DEF at, am
  <2>5. g.mailbox[am] = box /\ \A x \in Id : x # am => g.mailbox[x] = b.mailbox[x]
    BY <2>1, <2>3
  <2>6. g.inode[at] = newNode /\ \A x \in Id : x # at => g.inode[x] = b.inode[x]
    BY <2>1, <2>3
  <2>7. /\ Near(b.mailbox, b.mailbox, g.mailbox, Id, "mailbox", on.plan)
        /\ Near(b.inode, b.inode, g.inode, Id, "inode", on.plan)
    BY <2>4, <2>5, <2>6, NearOne
  <2> QED
    BY <2>5, <2>6, <2>7 DEF at, am, box
<1>13. Near(b.invitation, b.invitation, g.invitation, Id, "invitation", on.plan)
  BY <1>4, NearSame
<1>14. Leads(c, on, b, g, pm) /\ Leads(c, on, b, g, pa) /\ Leads(c, on, b, g, pi)
  BY <1>8, <1>11, <1>12 DEF Leads, Carries
<1>15. Toward(b, c, on, g)'
  <2>1. \A p \in Range(on.plan) : Leads(c, on, b, g, p)
    BY <1>2, <1>9, <1>10, <1>14
  <2>2. pu \in Range(on.plan)
    BY <1>2
  <2> QED
    BY <1>1, <1>4, <1>9, <1>10, <1>11, <1>12, <1>13, <2>1, <2>2, PlanToward
<1>16. Aim(b, c, on, g)'
  BY <1>6 DEF Aim
<1> QED
  BY <1>15, <1>16

\* AcceptInvitation.
LEMMA AcceptToward ==
    ASSUME StepTypes, IssuedStored, NEW c \in Client, NEW f \in Filename, NEW s \in User, NEW j \in issued,
           BeginAccept(c, s, j, f), NEW b, Reached(b), Between(b),
           NEW on, on.op = "AcceptInvitation", on.filename = f,
           on.plan = <<Put("access", <<session[c].name, f>>,
                           NewRecord(<<session[c].name, f>>, invitation[j].mailbox)), PutUser(c, f)>>
    PROVE  \E g : Aim(b, c, on, g)' /\ Toward(b, c, on, g)'
<1> DEFINE h == Owned(b, c, f)
           m == b.invitation[j].mailbox
           files == b.session[c].files \cup {f}
           name == b.session[c].name
           pa == Put("access", h, NewRecord(h, m))
           pu == Put("user", name, [files |-> files])
<1>1. /\ TypeOK /\ session[c] # None /\ invitation[j] # None /\ account[s] # None /\ j \in Id
      /\ verify(invitation[j], s) /\ decryptFor(invitation[j], session[c].name)
      /\ UNCHANGED <<session, Store, revoked, next>>
      /\ session = b.session /\ invitation = b.invitation /\ account = b.account /\ next = b.next
  BY DEF StepTypes, CallsTyped, IssuedStored, BeginAccept, Idle, Reached, vars, Store
<1>2. session[c] \in Session /\ invitation[j] \in Invitation
  BY <1>1, Typed
<1>3. h \in Handle /\ m \in Id
  BY <1>1, <1>2 DEF Owned, Handle, Session, Invitation
<1>4. on.plan = <<pa, pu>>
  BY <1>1 DEF Owned, PutUser
<1>5. Range(on.plan) = {pa, pu}
  <2>1. pa \in SetItem
    BY <1>3, PutTyped DEF NewRecord, NoChildren, Access, ChildrenMap
  <2>2. pu \in SetItem
    BY <1>1, <1>2, PutTyped DEF Session, UserRecord
  <2>3. pa \in Item /\ pu \in Item
    BY <2>1, <2>2, ItemKinds
  <2> HIDE DEF pa, pu
  <2>4. Range(<<pa, pu>>) = {pa, pu}
    BY <2>3, ShortPlans
  <2> QED
    BY <1>4, <2>4
<1> DEFINE g == State([b.session EXCEPT ![c] = [name |-> name, files |-> files]],
                      [b.account EXCEPT ![name] = [files |-> files]],
                      [b.access EXCEPT ![h] = NewRecord(h, m)],
                      b.mailbox, b.inode, b.block, b.invitation, b.revoked, b.next)
<1>6. /\ g.session = [b.session EXCEPT ![c] = [name |-> name, files |-> files]]
      /\ g.account = [b.account EXCEPT ![name] = [files |-> files]]
      /\ g.access = [b.access EXCEPT ![h] = NewRecord(h, m)]
      /\ g.mailbox = b.mailbox /\ g.inode = b.inode /\ g.block = b.block
      /\ g.invitation = b.invitation /\ g.revoked = b.revoked /\ g.next = b.next
  BY ONLY StateFields
<1> HIDE DEF g
<1>7. NameGoal(b, c, f, g) /\ AcceptGoal(b, c, f, s, j, g)
  BY <1>1, <1>6 DEF NameGoal, AcceptGoal
<1>8. Functions(b)
  BY DEF Between, Functions
<1>9. pa.kind = "set" /\ pa.store = "access" /\ pa.at = h /\ pa.value = NewRecord(h, m)
  BY PutFields
<1>10. Leads(c, on, b, g, pu) /\ pu.store = "user" /\ pu.at = name
  BY <1>7, UserLeads
<1> HIDE DEF pa, pu
<1>11. /\ Near(b.account, b.account, g.account, User, "user", on.plan)
       /\ Near(b.access, b.access, g.access, Handle, "access", on.plan)
       /\ g.access[h] = NewRecord(h, m)
  <2>1. b.account = [x \in User |-> b.account[x]] /\ b.access = [x \in Handle |-> b.access[x]]
    BY <1>8 DEF Functions
  <2>2. /\ \E p \in Range(on.plan) : p.store = "user" /\ p.at = name
        /\ \E p \in Range(on.plan) : p.store = "access" /\ p.at = h
    BY <1>5, <1>9, <1>10
  <2> HIDE DEF h, name, files, m
  <2>3. \A x \in User : x # name => g.account[x] = b.account[x]
    BY <1>6, <2>1
  <2>4. /\ \A x \in Handle : x # h => g.access[x] = b.access[x]
        /\ h \in Handle => g.access[h] = NewRecord(h, m)
    BY <1>6, <2>1
  <2> QED
    BY ZenonT(60), <1>3, <2>2, <2>3, <2>4, NearOne
<1>12. /\ Near(b.mailbox, b.mailbox, g.mailbox, Id, "mailbox", on.plan)
       /\ Near(b.inode, b.inode, g.inode, Id, "inode", on.plan)
       /\ Near(b.block, b.block, g.block, Id, "block", on.plan)
       /\ Near(b.invitation, b.invitation, g.invitation, Id, "invitation", on.plan)
  BY <1>6, NearSame
<1>13. Leads(c, on, b, g, pa)
  BY <1>9, <1>11 DEF Leads, Carries
<1>14. Toward(b, c, on, g)'
  BY <1>1, <1>5, <1>6, <1>10, <1>11, <1>12, <1>13, PlanToward
<1>15. Aim(b, c, on, g)'
  BY <1>1, <1>7 DEF Aim
<1> QED
  BY <1>14, <1>15

\* CreateInvitation, up to the lookup of its recipient.
LEMMA CopyToward ==
    ASSUME StepTypes, NEW c \in Client, NEW f \in Filename, NEW r \in User, NEW b, Reached(b), Between(b),
           NEW h, h = Owned(b, c, f), b.session[c] # None, b.access[h] # None,
           NEW box \in MailboxNode, box = BoxAt(b, h), CanDraw(2),
           next' = next + 1, UNCHANGED <<session, Store, revoked>>,
           NEW on, on.op = "CreateInvitation", on.filename = f, on.arg = r, on.access = b.access[h],
           on.made = next, on.plan = <<Put("mailbox", next, box), Lookup(r)>>
    PROVE  \E g : Aim(b, c, on, g)' /\ Toward(b, c, on, g)'
<1> DEFINE n == b.next
           g == State(b.session, b.account, b.access, [b.mailbox EXCEPT ![n] = box],
                      b.inode, b.block, b.invitation, b.revoked, n + 1)
           pm == Put("mailbox", n, box)
           pl == Lookup(r)
<1>1. next = n /\ next \in Nat \ {0} /\ n \in Id /\ n + 2 <= MaxId + 1
  <2>1. next = n /\ next \in Nat \ {0} /\ next + 2 <= MaxId + 1
    BY Typed DEF StepTypes, Reached, CanDraw
  <2> QED
    BY <2>1, BoundsAssumption DEF Id
<1>2. /\ g.session = b.session /\ g.account = b.account /\ g.access = b.access
      /\ g.mailbox = [b.mailbox EXCEPT ![n] = box] /\ g.inode = b.inode /\ g.block = b.block
      /\ g.invitation = b.invitation /\ g.revoked = b.revoked /\ g.next = n + 1
  BY ONLY StateFields
<1> HIDE DEF g
<1>3. box # None
  BY NoneAssumption
<1>4. CopyGoal(b, c, f, g)
  BY <1>1, <1>2, <1>3 DEF CopyGoal
<1>5. /\ pm.kind = "set" /\ pm.store = "mailbox" /\ pm.at = n /\ pm.value = box
      /\ pl.kind = "lookup" /\ pl.store = "key"
  BY PutFields DEF Lookup
<1>6. Range(on.plan) = {pm, pl}
  <2>1. pm \in Item /\ pl \in Item
    BY <1>1, PutTyped, ItemKinds
  <2>2. on.plan = <<pm, pl>>
    BY <1>1
  <2> HIDE DEF pm, pl
  <2> QED
    BY <2>1, <2>2, ShortPlans
<1> HIDE DEF pm, pl
<1>7. g.mailbox[n] = box /\ \A x \in Id : x # n => g.mailbox[x] = b.mailbox[x]
  BY <1>1, <1>2 DEF Between
<1> HIDE DEF n
<1>8. Near(b.mailbox, b.mailbox, g.mailbox, Id, "mailbox", on.plan)
  <2>1. \E p \in Range(on.plan) : p.store = "mailbox" /\ p.at = n
    BY <1>5, <1>6
  <2> QED
    BY <1>7, <2>1, NearOne
<1>9. \A p \in Range(on.plan) : Leads(c, on, b, g, p)
  BY <1>5, <1>6, <1>7 DEF Leads, Carries
<1>10. /\ Near(b.account, b.account, g.account, User, "user", on.plan)
       /\ Near(b.access, b.access, g.access, Handle, "access", on.plan)
       /\ Near(b.inode, b.inode, g.inode, Id, "inode", on.plan)
       /\ Near(b.block, b.block, g.block, Id, "block", on.plan)
       /\ Near(b.invitation, b.invitation, g.invitation, Id, "invitation", on.plan)
  BY <1>2, NearSame
<1>11. Toward(b, c, on, g)'
  <2>1. next' = g.next
    BY <1>1, <1>2
  <2> QED
    BY <1>2, <1>8, <1>9, <1>10, <2>1, PlanToward
<1>12. Lookup(on.arg) \in Range(on.plan)
  BY <1>6 DEF pl
<1>13. Aim(b, c, on, g)'
  BY <1>1, <1>4, <1>12 DEF Aim, n
<1> QED
  BY <1>11, <1>13

\* CreateInvitation from there on, when the recipient is known.
LEMMA InviteToward ==
    ASSUME StepTypes, NEW c \in Client, NEW f \in Filename, NEW r \in User, NEW b, Between(b),
           NEW d, Reached(d), CopyGoal(b, c, f, d),
           NEW h, h = Owned(b, c, f), account[r] # None,
           next' = next + 1, UNCHANGED <<session, Store, revoked>>,
           NEW on, on.op = "CreateInvitation", on.filename = f,
           on.plan = <<Put("invitation", next, SealedInvitation(session[c].name, f, r, b.next)),
                       Put("access", h, WithChild(b.access[h], r, b.next))>>
    PROVE  \E g : Aim(b, c, on, g)' /\ Toward(b, c, on, g)'
<1> DEFINE n == b.next
           m == n + 1
           sealed == SealedInvitation(b.session[c].name, f, r, n)
           record == WithChild(b.access[h], r, n)
           g == State(b.session, b.account, [b.access EXCEPT ![h] = record],
                      d.mailbox, b.inode, b.block,
                      [b.invitation EXCEPT ![m] = sealed], b.revoked, n + 2)
           pj == Put("invitation", m, sealed)
           pa == Put("access", h, record)
<1>1. /\ b.session[c] # None /\ b.access[h] # None /\ BoxAt(b, h) # None
      /\ n + 2 <= MaxId + 1 /\ n \in Nat \ {0} /\ n \in Id /\ m \in Id /\ next = m /\ d.next = m
      /\ session = b.session
  <2>1. /\ b.session[c] # None /\ b.access[h] # None /\ BoxAt(b, h) # None
        /\ n + 2 <= MaxId + 1 /\ d.next = n + 1 /\ next = d.next /\ session = b.session
    BY DEF CopyGoal, Reached
  <2>2. n \in Nat \ {0}
    BY BoundsAssumption DEF Between
  <2> QED
    BY <2>1, <2>2, BoundsAssumption DEF Id
<1>2. /\ session = b.session /\ account = b.account /\ access = b.access /\ mailbox = d.mailbox
      /\ inode = b.inode /\ block = b.block /\ invitation = b.invitation /\ revoked = b.revoked
      /\ d.mailbox = [b.mailbox EXCEPT ![n] = BoxAt(b, h)]
  BY DEF CopyGoal, Reached
<1>3. /\ g.session = b.session /\ g.account = b.account
      /\ g.access = [b.access EXCEPT ![h] = record] /\ g.mailbox = d.mailbox
      /\ g.inode = b.inode /\ g.block = b.block
      /\ g.invitation = [b.invitation EXCEPT ![m] = sealed]
      /\ g.revoked = b.revoked /\ g.next = n + 2
  BY ONLY StateFields
<1> HIDE DEF g
<1>4. InviteGoal(b, c, f, r, g)
  BY <1>1, <1>2, <1>3 DEF InviteGoal
<1>5. /\ pj.kind = "set" /\ pj.store = "invitation" /\ pj.at = m /\ pj.value = sealed
      /\ pa.kind = "set" /\ pa.store = "access" /\ pa.at = h /\ pa.value = record
  BY PutFields
<1>6. h \in Handle
  <2>1. b.session[c] \in Session
    BY <1>1 DEF Between
  <2> QED
    BY <2>1 DEF Owned, Handle, Session
<1>7. Range(on.plan) = {pj, pa}
  <2>1. pj \in SetItem
    <3>1. sealed \in Invitation
      BY <1>1 DEF SealedInvitation, Invitation, Between, Session
    <3> QED
      BY <1>1, <3>1, PutTyped
  <2>2. pa \in SetItem
    <3>1. b.access[h] \in Access
      BY <1>1, <1>6 DEF Between
    <3>2. record \in Access
      BY <1>1, <3>1 DEF WithChild, Access, ChildrenMap
    <3> QED
      BY <1>6, <3>2, PutTyped
  <2>3. on.plan = <<pj, pa>>
    BY <1>1
  <2> HIDE DEF pj, pa
  <2>4. pj \in Item /\ pa \in Item
    BY <2>1, <2>2, ItemKinds
  <2> QED
    BY <2>3, <2>4, ShortPlans
<1> HIDE DEF pj, pa, sealed, record
<1>8. g.invitation[m] = sealed /\ \A x \in Id : x # m => g.invitation[x] = b.invitation[x]
  BY <1>1, <1>3 DEF Between
<1>9. g.access[h] = record /\ \A x \in Handle : x # h => g.access[x] = b.access[x]
  BY <1>3, <1>6 DEF Between
<1> HIDE DEF m, n
<1>10. /\ Near(b.invitation, b.invitation, g.invitation, Id, "invitation", on.plan)
       /\ Near(b.access, b.access, g.access, Handle, "access", on.plan)
  <2>1. /\ \E p \in Range(on.plan) : p.store = "invitation" /\ p.at = m
        /\ \E p \in Range(on.plan) : p.store = "access" /\ p.at = h
    BY <1>5, <1>7
  <2>2. Near(b.invitation, b.invitation, g.invitation, Id, "invitation", on.plan)
    BY <1>8, <2>1, NearOne
  <2>3. Near(b.access, b.access, g.access, Handle, "access", on.plan)
    BY ZenonT(60), <1>9, <2>1, NearOne
  <2> QED
    BY <2>2, <2>3
<1>11. \A p \in Range(on.plan) : Leads(c, on, b, g, p)
  <2>1. on.op # "RevokeAccess"
    OBVIOUS
  <2> QED
    BY <1>5, <1>7, <1>8, <1>9, <2>1 DEF Leads, Carries
<1>12. /\ session' = b.session /\ account' = b.account /\ access' = b.access
       /\ mailbox' = d.mailbox /\ inode' = b.inode /\ block' = b.block
       /\ invitation' = b.invitation /\ revoked' = b.revoked
  BY <1>2 DEF Store
<1>13. StoreNear(b, g, on.plan)'
  <2>1. /\ Near(account', b.account, g.account, User, "user", on.plan)
        /\ Near(mailbox', b.mailbox, g.mailbox, Id, "mailbox", on.plan)
        /\ Near(inode', b.inode, g.inode, Id, "inode", on.plan)
        /\ Near(block', b.block, g.block, Id, "block", on.plan)
    BY <1>3, <1>12 DEF Near
  <2> QED
    BY <1>10, <1>12, <2>1 DEF StoreNear, Near
<1>14. Toward(b, c, on, g)'
  <2>1. next' = g.next
    BY <1>1, <1>3 DEF m
  <2> QED
    BY <1>3, <1>11, <1>12, <1>13, <2>1 DEF Toward
<1>15. Aim(b, c, on, g)'
  BY <1>4, <1>5, <1>7 DEF Aim
<1> QED
  BY <1>14, <1>15

\* AppendToFile writes its inode last.
LEMMA AppendPlanLast ==
    ASSUME NEW box, NEW node, NEW content \in Content, NEW plan, plan = AppendPlan(box, node, content)
    PROVE  InodeLast(plan)
<1> DEFINE pi == Put("inode", box.inode,
                     encryptAndMAC(node.plain \o NewBlocks(next, Len(content)), box.fileKey))
           pb == PutBlocks(next, content, box.fileKey)
<1>1. Len(content) \in Nat /\ DOMAIN pb = 1 .. Len(content)
  BY ContentIsSeq DEF PutBlocks
<1>2. \A x \in 1 .. Len(content) : pb[x].store = "block"
  BY PutFields DEF PutBlocks
<1>3. plan = pb \o <<pi>>
  BY DEF AppendPlan
<1> HIDE DEF pb, pi
<1>4. Len(pb) = Len(content) /\ pb \in Seq(Range(pb))
  <2>1. PICK n \in Nat : n = Len(content) /\ DOMAIN pb = 1 .. n
    BY <1>1
  <2>2. pb = [x \in 1 .. n |-> pb[x]]
    BY <2>1, <1>1 DEF pb, PutBlocks
  <2>3. pb \in [1 .. n -> Range(pb)]
    BY <2>1, <2>2 DEF Range
  <2> QED
    BY <2>1, <2>3, SeqDef
<1>5. PICK S : pb \in Seq(S) /\ <<pi>> \in Seq(S)
  <2>1. pb \in Seq(Range(pb) \cup {pi})
    BY <1>4
  <2> QED
    BY <2>1
<1>6. /\ Len(pb \o <<pi>>) = Len(content) + 1
      /\ \A x \in 1 .. Len(content) : (pb \o <<pi>>)[x] = pb[x]
      /\ pb \o <<pi>> \in Seq(S)
  BY <1>1, <1>4, <1>5, ConcatProperties
<1>7. DOMAIN (pb \o <<pi>>) = 1 .. Len(content) + 1
  BY <1>6, LenProperties
<1> QED
  BY <1>1, <1>2, <1>3, <1>6, <1>7 DEF InodeLast

\* AppendToFile.
LEMMA AppendToward ==
    ASSUME StepTypes, NEW c \in Client, NEW f \in Filename, NEW content \in Content,
           NEW b, Reached(b), Between(b), b.session[c] # None,
           NEW h, h = Owned(b, c, f), b.access[h] # None,
           NEW box \in MailboxNode, box = BoxAt(b, h), decryptAndVerify(inode[box.inode], box.fileKey),
           CanDraw(Len(content)), next' = next + Len(content), UNCHANGED <<session, Store, revoked>>,
           NEW on, on.op = "AppendToFile", on.filename = f, on.arg = content,
           on.plan = AppendPlan(box, inode[box.inode], content)
    PROVE  \E g : Aim(b, c, on, g)' /\ Toward(b, c, on, g)'
<1> DEFINE n == b.next
           k == box.fileKey
           i == box.inode
           node == encryptAndMAC(b.inode[i].plain \o NewBlocks(n, Len(content)), k)
           blocks == [x \in Id |-> IF x \in n .. n + Len(content) - 1
                                   THEN encryptAndMAC(content[x - n + 1], k) ELSE b.block[x]]
           g == State(b.session, b.account, b.access, b.mailbox, [b.inode EXCEPT ![i] = node],
                      blocks, b.invitation, b.revoked, n + Len(content))
           pi == Put("inode", i, node)
           pb == PutBlocks(n, content, k)
<1>1. /\ next = n /\ n \in Nat \ {0} /\ Len(content) \in Nat /\ n + Len(content) <= MaxId + 1
      /\ i \in Id /\ k \in Id /\ inode = b.inode /\ inode[i] # None /\ box # None
  <2>1. next = n /\ next \in Nat \ {0} /\ next + Len(content) <= MaxId + 1 /\ inode = b.inode
    BY Typed DEF StepTypes, Reached, CanDraw
  <2> QED
    BY <2>1, ContentIsSeq, NoneAssumption DEF MailboxNode, decryptAndVerify
<1>2. /\ g.session = b.session /\ g.account = b.account /\ g.access = b.access
      /\ g.mailbox = b.mailbox /\ g.inode = [b.inode EXCEPT ![i] = node] /\ g.block = blocks
      /\ g.invitation = b.invitation /\ g.revoked = b.revoked /\ g.next = n + Len(content)
  BY ONLY StateFields
<1> HIDE DEF g
<1>3. BlocksGoal(b, n, content, k, g)
  BY <1>2 DEF BlocksGoal
<1>4. AppendGoal(b, c, f, content, g)
  <2>1. OpensAt(b, h)
    BY <1>1 DEF OpensAt, NodeAt
  <2> QED
    BY <1>1, <1>2, <1>3, <2>1 DEF AppendGoal, NodeAt
<1>5. Range(on.plan) = {pi} \cup Range(pb)
  <2>1. /\ TypeOK /\ inode[box.inode] # None
        /\ on.plan = AppendPlan(box, inode[box.inode], content)
    BY <1>1 DEF StepTypes
  <2>2. Range(AppendPlan(box, inode[box.inode], content)) =
           {Put("inode", box.inode, encryptAndMAC(inode[box.inode].plain \o NewBlocks(next, Len(content)),
                                                  box.fileKey))}
           \cup Range(PutBlocks(next, content, box.fileKey))
    BY <2>1, AppendPlanItems
  <2> QED
    BY <1>1, <2>1, <2>2
<1>6. InodeLast(on.plan)
  BY AppendPlanLast
<1>7. pi.kind = "set" /\ pi.store = "inode" /\ pi.at = i /\ pi.value = node
  BY PutFields
<1>8. /\ \A p \in Range(pb) : Leads(c, on, b, g, p)
      /\ Near(b.block, b.block, g.block, Id, "block", on.plan)
  BY <1>1, <1>3, <1>5, BlocksLead
<1> HIDE DEF pi, pb, node, blocks
<1>9. g.inode[i] = node /\ \A x \in Id : x # i => g.inode[x] = b.inode[x]
  BY <1>1, <1>2 DEF Between
<1>10. Leads(c, on, b, g, pi)
  BY <1>7, <1>9 DEF Leads, Carries
<1> HIDE DEF i
<1>11. Near(b.inode, b.inode, g.inode, Id, "inode", on.plan)
  <2>1. \E p \in Range(on.plan) : p.store = "inode" /\ p.at = i
    BY <1>5, <1>7
  <2> QED
    BY <1>9, <2>1, NearOne
<1>12. /\ Near(b.account, b.account, g.account, User, "user", on.plan)
       /\ Near(b.access, b.access, g.access, Handle, "access", on.plan)
       /\ Near(b.mailbox, b.mailbox, g.mailbox, Id, "mailbox", on.plan)
       /\ Near(b.invitation, b.invitation, g.invitation, Id, "invitation", on.plan)
  BY <1>2, NearSame
<1>13. Toward(b, c, on, g)'
  <2>1. \A p \in Range(on.plan) : Leads(c, on, b, g, p)
    BY <1>5, <1>8, <1>10
  <2>2. next' = g.next
    BY <1>1, <1>2
  <2> QED
    BY <1>2, <1>8, <1>11, <1>12, <2>1, <2>2, PlanToward
<1>14. inode' = b.inode
  BY <1>1 DEF Store
<1>15. Aim(b, c, on, g)'
  BY <1>4, <1>6, <1>14 DEF Aim
<1> QED
  BY <1>13, <1>15

\* The operations of RevokeAccess, all of them.
LEMMA FetchesOf ==
    ASSUME NEW ids \in Seq(Id), NEW k, NEW store
    PROVE  Range([x \in DOMAIN ids |-> Fetch(store, ids[x], k)]) =
              {Fetch(store, x, k) : x \in Range(ids)}
  BY DEF Range

Rekeys(plan, box, node, children, pa, pu) ==
    \A p : p \in Range(plan) <=>
       \/ p = Put("inode", box.inode, encryptAndMAC(node.plain, next))
       \/ p = Put("mailbox", next + 1, [fileKey |-> next, inode |-> box.inode])
       \/ p = pa \/ p = pu
       \/ \E x \in Range(node.plain) : p = Fetch("block", x, next)
       \/ \E m \in Range(children) : p = Fetch("mailbox", m, next)

\* What the plan of RevokeAccess holds.
LEMMA RekeyPlanRange ==
    ASSUME TypeOK, NEW box \in MailboxNode, inode[box.inode] # None, CanDraw(2),
           NEW children \in Seq(Id), NEW pa \in SetItem, NEW pu \in SetItem,
           NEW node, node = inode[box.inode],
           NEW plan, plan = RekeyPlan(box, node, children, <<pa, pu>>)
    PROVE  Rekeys(plan, box, node, children, pa, pu)
<1> DEFINE pi == Put("inode", box.inode, encryptAndMAC(node.plain, next))
           pm == Put("mailbox", next + 1, [fileKey |-> next, inode |-> box.inode])
           fb == [x \in DOMAIN node.plain |-> Fetch("block", node.plain[x], next)]
           fm == [x \in DOMAIN children |-> Fetch("mailbox", children[x], next)]
<1>1. next \in Nat \ {0} /\ next \in Id /\ next + 1 \in Id
  BY Typed, BoundsAssumption DEF CanDraw, Id
<1>2. box.inode \in Id /\ node \in SealedInode /\ node.plain \in Seq(Id)
  BY Typed DEF MailboxNode, SealedInode
<1>3. pi \in SetItem
  BY <1>1, <1>2, PutTyped DEF encryptAndMAC, SealedInode
<1>4. pm \in SetItem
  BY <1>1, <1>2, PutTyped DEF MailboxNode
<1>5. fb \in Seq(Item) /\ Range(fb) = {Fetch("block", x, next) : x \in Range(node.plain)}
  <2>1. PICK ids \in Seq(Id), k \in Id : ids = node.plain /\ k = next
    BY <1>1, <1>2
  <2>2. [x \in DOMAIN ids |-> Fetch("block", ids[x], k)] \in Seq(Item)
    BY FetchItems
  <2>3. Range([x \in DOMAIN ids |-> Fetch("block", ids[x], k)]) = {Fetch("block", x, k) : x \in Range(ids)}
    BY FetchesOf
  <2> QED
    BY <2>1, <2>2, <2>3
<1>6. fm \in Seq(Item) /\ Range(fm) = {Fetch("mailbox", m, next) : m \in Range(children)}
  <2>1. fm \in Seq(Item)
    BY <1>1, FetchItems
  <2>2. Range(fm) = {Fetch("mailbox", m, next) : m \in Range(children)}
    BY FetchesOf
  <2> QED
    BY <2>1, <2>2
<1> HIDE DEF pi, pm, fb, fm
<1>7. /\ <<pi, pm>> \in Seq(Item) /\ Range(<<pi, pm>>) = {pi, pm}
      /\ <<pa, pu>> \in Seq(Item) /\ Range(<<pa, pu>>) = {pa, pu}
  BY <1>3, <1>4, ItemKinds, ShortPlans
<1>8. PICK s \in Seq(Item), t \in Seq(Item), v \in Seq(Item), w \in Seq(Item) :
          /\ s = fb /\ t = <<pi, pm>> /\ v = fm /\ w = <<pa, pu>>
          /\ Range(t) = {pi, pm} /\ Range(w) = {pa, pu}
  BY <1>5, <1>6, <1>7
<1>9. PICK z \in Seq(Item) : z = s \o t /\ Range(z) = Range(s) \cup Range(t)
  <2>1. s \o t \in Seq(Item)
    BY JoinedPlans
  <2>2. Range(s \o t) = Range(s) \cup Range(t)
    BY JoinedPlans
  <2> QED
    BY <2>1, <2>2
<1>10. Range(z \o v \o w) = Range(z) \cup Range(v) \cup Range(w)
  BY JoinedPlans
<1>11. RekeyPlan(box, node, children, <<pa, pu>>) = z \o v \o w
  BY <1>8, <1>9 DEF RekeyPlan, fb, fm, pi, pm
<1>12. Range(RekeyPlan(box, node, children, <<pa, pu>>)) =
          {pi, pm} \cup Range(fb) \cup Range(fm) \cup {pa, pu}
  BY <1>8, <1>9, <1>10, <1>11
<1> QED
  BY <1>5, <1>6, <1>12 DEF Rekeys, pi, pm

\* RevokeAccess.
LEMMA RekeyToward ==
    ASSUME StepTypes, NEW c \in Client, NEW f \in Filename, NEW r \in User,
           NEW b, Reached(b), Between(b), b.session[c] # None,
           NEW h, h = Owned(b, c, f), NEW a \in Access, a = b.access[h],
           NEW box \in MailboxNode, box = BoxAt(b, h), decryptAndVerify(inode[box.inode], box.fileKey),
           CanDraw(2), next' = next + 2, UNCHANGED <<session, Store, revoked>>,
           NEW children \in Orders(KeptChildren(a, r)),
           NEW on, on.op = "RevokeAccess", on.filename = f, on.arg = r, on.access = a, on.box = box,
           on.plan = RekeyPlan(box, inode[box.inode], children,
                               <<Put("access", h, WithoutChild(a, r, next + 1)), PutUser(c, f)>>)
    PROVE  \E g : Aim(b, c, on, g)' /\ Toward(b, c, on, g)'
<1> DEFINE n == b.next
           m == n + 1
           i == box.inode
           ids == b.inode[i].plain
           kept == KeptChildren(a, r)
           name == b.session[c].name
           files == b.session[c].files \cup {f}
           node == encryptAndMAC(ids, n)
           record == WithoutChild(a, r, m)
           boxes == [x \in Id |-> IF x = m THEN [fileKey |-> n, inode |-> i]
                                  ELSE IF x \in kept THEN [fileKey |-> n, inode |-> b.mailbox[x].inode]
                                       ELSE b.mailbox[x]]
           blocks == [x \in Id |-> IF x \in Range(ids) THEN encryptAndMAC(b.block[x].plain, n)
                                   ELSE b.block[x]]
           gone == {a.children[r]} \ {None}
           g == State([b.session EXCEPT ![c] = [name |-> name, files |-> files]],
                      [b.account EXCEPT ![name] = [files |-> files]],
                      [b.access EXCEPT ![h] = record], boxes, [b.inode EXCEPT ![i] = node],
                      blocks, b.invitation, b.revoked \cup gone, n + 2)
           pi == Put("inode", i, node)
           pm == Put("mailbox", m, [fileKey |-> n, inode |-> i])
           pa == Put("access", h, record)
           pu == Put("user", name, [files |-> files])
<1>1. /\ next = n /\ n \in Nat \ {0} /\ n + 2 <= MaxId + 1 /\ n \in Id /\ m \in Id
      /\ i \in Id /\ inode = b.inode /\ inode[i] # None /\ box # None /\ a # None
      /\ session = b.session /\ TypeOK
  <2>1. /\ next = n /\ next \in Nat \ {0} /\ next + 2 <= MaxId + 1 /\ inode = b.inode
        /\ session = b.session
    BY Typed DEF StepTypes, Reached, CanDraw
  <2>2. n \in Id /\ m \in Id
    BY <2>1, BoundsAssumption DEF Id
  <2>3. box # None /\ a # None
    BY NoneAssumption
  <2>4. i \in Id /\ inode[i] # None /\ TypeOK
    BY DEF MailboxNode, decryptAndVerify, StepTypes
  <2> QED
    BY <2>1, <2>2, <2>3, <2>4
<1>2. /\ g.session = [b.session EXCEPT ![c] = [name |-> name, files |-> files]]
      /\ g.account = [b.account EXCEPT ![name] = [files |-> files]]
      /\ g.access = [b.access EXCEPT ![h] = record] /\ g.mailbox = boxes
      /\ g.inode = [b.inode EXCEPT ![i] = node] /\ g.block = blocks
      /\ g.invitation = b.invitation /\ g.revoked = b.revoked \cup gone /\ g.next = n + 2
  BY ONLY StateFields
<1> HIDE DEF g
<1>3. NameGoal(b, c, f, g)
  BY <1>2 DEF NameGoal
<1>4. RekeyGoal(b, c, f, r, g)
  <2>1. OpensAt(b, h)
    BY <1>1 DEF OpensAt, NodeAt
  <2>2. NodeAt(b, h) = b.inode[i]
    BY DEF NodeAt
  <2> QED
    BY <1>1, <1>2, <1>3, <2>1, <2>2 DEF RekeyGoal
<1>5. name \in User /\ files \in SUBSET Filename /\ h \in Handle
  <2>1. b.session[c] \in Session
    BY DEF Between
  <2> QED
    BY <2>1 DEF Owned, Handle, Session
<1>6. \A p : p \in Range(on.plan) <=>
          \/ p = pi \/ p = pm \/ p = pa \/ p = pu
          \/ \E x \in Range(ids) : p = Fetch("block", x, n)
          \/ \E x \in kept : p = Fetch("mailbox", x, n)
  <2>1. pa \in SetItem
    <3>1. record \in Access
      BY <1>1 DEF WithoutChild, Access, ChildrenMap
    <3> QED
      BY <1>5, <3>1, PutTyped
  <2>2. pu \in SetItem
    BY <1>5, PutTyped DEF UserRecord
  <2>3. children \in Seq(Id) /\ Range(children) = kept
    BY OrdersAreSeqs DEF Orders
  <2>4. on.plan = RekeyPlan(box, inode[i], children, <<pa, pu>>)
    BY <1>1 DEF PutUser
  <2> HIDE DEF pa, pu
  <2>5. PICK node0 : node0 = inode[box.inode]
    OBVIOUS
  <2>6. TypeOK /\ inode[box.inode] # None /\ on.plan = RekeyPlan(box, node0, children, <<pa, pu>>)
    BY <1>1, <2>4, <2>5
  <2>7. Rekeys(on.plan, box, node0, children, pa, pu)
    BY <2>1, <2>2, <2>3, <2>5, <2>6, RekeyPlanRange
  <2>8. node0.plain = ids
    BY <1>1, <2>5
  <2> QED
    BY <1>1, <2>3, <2>7, <2>8 DEF Rekeys
<1>7. /\ pi.kind = "set" /\ pi.store = "inode" /\ pi.at = i /\ pi.value = node
      /\ pm.kind = "set" /\ pm.store = "mailbox" /\ pm.at = m
      /\ pm.value = [fileKey |-> n, inode |-> i]
      /\ pa.kind = "set" /\ pa.store = "access" /\ pa.at = h /\ pa.value = record
  BY PutFields
<1>8. Leads(c, on, b, g, pu) /\ pu.store = "user" /\ pu.at = name /\ pu.kind = "set"
  BY <1>3, UserLeads, PutFields
<1>9. \A store, x, v : /\ Fetch(store, x, v).kind = "fetch" /\ Fetch(store, x, v).store = store
                       /\ Fetch(store, x, v).at = x /\ Fetch(store, x, v).value = v
  BY DEF Fetch
<1> HIDE DEF pi, pm, pa, pu
<1>10. /\ g.mailbox[m] = [fileKey |-> n, inode |-> i]
       /\ \A x \in Id : x = m \/ x \in kept \/ g.mailbox[x] = b.mailbox[x]
       /\ \A x \in Id : x \in Range(ids) \/ g.block[x] = b.block[x]
  BY <1>1, <1>2
<1>11. g.inode[i] = node /\ \A x \in Id : x # i => g.inode[x] = b.inode[x]
  BY <1>1, <1>2 DEF Between
<1>12. g.access[h] = record /\ \A x \in Handle : x # h => g.access[x] = b.access[x]
  BY <1>2, <1>5 DEF Between
<1>13. \A x \in User : x # name => g.account[x] = b.account[x]
  BY <1>2, <1>5 DEF Between
<1> HIDE DEF m, i, ids, kept, name, files, node, record, boxes, blocks
<1>14. Near(b.mailbox, b.mailbox, g.mailbox, Id, "mailbox", on.plan)
  <2>1. ASSUME NEW x \in Id, x = m \/ x \in kept
        PROVE  \E p \in Range(on.plan) : p.store = "mailbox" /\ p.at = x
    BY <1>6, <1>7, <1>9, <2>1
  <2> QED
    BY <1>10, <2>1 DEF Near
<1>15. Near(b.block, b.block, g.block, Id, "block", on.plan)
  <2>1. ASSUME NEW x \in Id, x \in Range(ids)
        PROVE  \E p \in Range(on.plan) : p.store = "block" /\ p.at = x
    BY <1>6, <1>9, <2>1
  <2> QED
    BY <1>10, <2>1 DEF Near
<1>16. /\ \E p \in Range(on.plan) : p.store = "user" /\ p.at = name
       /\ \E p \in Range(on.plan) : p.store = "access" /\ p.at = h
       /\ \E p \in Range(on.plan) : p.store = "inode" /\ p.at = i
  BY <1>6, <1>7, <1>8
<1>17. Near(b.inode, b.inode, g.inode, Id, "inode", on.plan)
  BY ZenonT(60), <1>11, <1>16, NearOne
<1>18. Near(b.access, b.access, g.access, Handle, "access", on.plan)
  BY ZenonT(60), <1>12, <1>16, NearOne
<1>19. Near(b.account, b.account, g.account, User, "user", on.plan)
  BY ZenonT(60), <1>13, <1>16, NearOne
<1>20. Near(b.invitation, b.invitation, g.invitation, Id, "invitation", on.plan)
  BY <1>2, NearSame
<1>21. \A p \in Range(on.plan) : Leads(c, on, b, g, p)
  <2>1. Leads(c, on, b, g, pi)
    BY <1>7, <1>11 DEF Leads, Carries
  <2>2. Leads(c, on, b, g, pm)
    BY <1>7, <1>10 DEF Leads, Carries
  <2>3. Leads(c, on, b, g, pa)
    <3>1. \A R \in {b.revoked, g.revoked} : R \cup gone = g.revoked
      BY <1>2
    <3> QED
      BY <1>7, <1>12, <3>1 DEF Leads, Carries
  <2>4. \A x : Leads(c, on, b, g, Fetch("block", x, n)) /\ Leads(c, on, b, g, Fetch("mailbox", x, n))
    BY <1>9 DEF Leads
  <2> QED
    BY <1>6, <1>8, <2>1, <2>2, <2>3, <2>4
<1>22. Toward(b, c, on, g)'
  <2>1. next' = g.next
    BY <1>1, <1>2
  <2>2. g.revoked = b.revoked \/ (on.op = "RevokeAccess" /\ \E p \in Range(on.plan) : p.store = "access")
    BY <1>16
  <2>3. g.session = b.session \/ \E p \in Range(on.plan) : p.store = "user"
    BY <1>16
  <2> QED
    BY <1>14, <1>15, <1>17, <1>18, <1>19, <1>20, <1>21, <2>1, <2>2, <2>3, PlanToward
<1>23. Readable(b, on, h)'
  <2>1. block' = b.block
    BY DEF Store, Reached
  <2>2. NodeAt(b, h).plain = ids
    BY DEF NodeAt, ids, i
  <2>3. \A x \in Range(ids) : Fetch("block", x, n) \in Range(on.plan)
    BY <1>6
  <2>4. ASSUME NEW p \in Range(on.plan)
        PROVE  /\ ~(p.store = "block" /\ p.kind = "set")
               /\ p.kind = "fetch" => /\ p.value = n
                                      /\ p.store = "block" => p.at \in Range(ids)
                                      /\ p.store = "mailbox" => p.at \in kept
    <3>1. CASE p = pi \/ p = pm \/ p = pa \/ p = pu
      BY <1>7, <1>8, <3>1
    <3>2. CASE \E x \in Range(ids) : p = Fetch("block", x, n)
      BY <1>9, <3>2
    <3>3. CASE \E x \in kept : p = Fetch("mailbox", x, n)
      BY <1>9, <3>3
    <3> QED
      BY <1>6, <3>1, <3>2, <3>3
  <2>5. KeptChildren(b.access[h], on.arg) = kept
    BY DEF kept
  <2> QED
    BY <2>1, <2>2, <2>3, <2>4, <2>5 DEF Readable
<1>24. Aim(b, c, on, g)'
  BY <1>4, <1>23 DEF Aim
<1> QED
  BY <1>22, <1>24

(***************************************************************************)
(* A call that is over is the atomic call of Sharing.                       *)
(***************************************************************************)
\* base has become g.
Became(g) ==
    /\ base'.session = g.session /\ base'.account = g.account /\ base'.access = g.access
    /\ base'.mailbox = g.mailbox /\ base'.inode = g.inode /\ base'.block = g.block
    /\ base'.invitation = g.invitation /\ base'.revoked = g.revoked /\ base'.next = g.next

\* Adding a name to the file list is SaveUser.
LEMMA NameSaved ==
    ASSUME NEW c \in Client, NEW f \in Filename, NEW g, NameGoal(base, c, f, g), Became(g)
    PROVE  Atomic!SaveUser(c, f)
  BY DEF NameGoal, Became, Atomic!SaveUser

\* StoreFile, over, is the atomic StoreFile.
LEMMA StoreIsAtomic ==
    ASSUME Between(base), NEW c \in Client, NEW f \in Filename, NEW content, NEW g,
           StoreGoal(base, c, f, content, g), Became(g)
    PROVE  Atomic!Next
<1>1. base.next \in Nat /\ Len(content) \in Nat /\ content \in Content
  BY ContentIsSeq, BoundsAssumption DEF Between, StoreGoal
<1>2. Atomic!CanDraw(3 + Len(content))
  BY <1>1, BoundsAssumption DEF StoreGoal, Atomic!CanDraw
<1>3. Atomic!SaveUser(c, f) /\ base.session[c] # None
  BY NameSaved DEF StoreGoal, NameGoal
<1>4. base'.block = Atomic!WriteBlocks(base.next + 3, content, base.next)
  BY DEF StoreGoal, BlocksGoal, Became, Atomic!WriteBlocks, encryptAndMAC, Atomic!encryptAndMAC, Id, Atomic!Id
<1>5. base'.access = [base.access EXCEPT ![<<base.session[c].name, f>>] =
                         Atomic!NewRecord(<<base.session[c].name, f>>, base.next + 2)]
  BY DEF StoreGoal, Became, Owned, NewRecord, Atomic!NewRecord, NoChildren, Atomic!NoChildren
<1>6. base'.inode = [base.inode EXCEPT ![base.next + 1] =
         Atomic!encryptAndMAC(Atomic!NewBlocks(base.next + 3, Len(content)), base.next)]
  BY DEF StoreGoal, Became, encryptAndMAC, Atomic!encryptAndMAC, NewBlocks, Atomic!NewBlocks
<1>7. /\ base'.mailbox = [base.mailbox EXCEPT ![base.next + 2] =
                             [fileKey |-> base.next, inode |-> base.next + 1]]
      /\ base'.next = base.next + 3 + Len(content)
      /\ base'.invitation = base.invitation /\ base'.revoked = base.revoked
  BY DEF StoreGoal, Became
<1>8. Atomic!StoreFile(c, f, content)
  BY <1>2, <1>3, <1>4, <1>5, <1>6, <1>7 DEF Atomic!StoreFile
<1>9. content \in Atomic!Content
  BY <1>1 DEF Content, Atomic!Content
<1> QED
  BY <1>8, <1>9 DEF Atomic!Next

\* AppendToFile, over, is the atomic AppendToFile.
LEMMA AppendIsAtomic ==
    ASSUME Between(base), NEW c \in Client, NEW f \in Filename, NEW content, NEW g,
           AppendGoal(base, c, f, content, g), Became(g)
    PROVE  Atomic!Next
<1> DEFINE h == <<base.session[c].name, f>>
           box == base.mailbox[base.access[h].mailbox]
           node == base.inode[box.inode]
<1>1. base.next \in Nat /\ Len(content) \in Nat /\ content \in Content
  BY ContentIsSeq, BoundsAssumption DEF Between, AppendGoal
<1>2. /\ base.session[c] # None /\ base.access[h] # None /\ Atomic!Opens(base.access[h].mailbox)
      /\ Atomic!CanDraw(Len(content))
  BY ZenonT(60), <1>1 DEF AppendGoal, OpensAt, BoxAt, NodeAt, Owned, Atomic!Opens, decryptAndVerify,
              Atomic!decryptAndVerify, Atomic!CanDraw
<1>3. base'.block = Atomic!WriteBlocks(base.next, content, box.fileKey)
  BY ZenonT(60) DEF AppendGoal, BlocksGoal, BoxAt, Owned, Became, Atomic!WriteBlocks, encryptAndMAC,
         Atomic!encryptAndMAC, Id, Atomic!Id
<1>4. base'.inode = [base.inode EXCEPT ![box.inode] =
         Atomic!encryptAndMAC(node.plain \o Atomic!NewBlocks(base.next, Len(content)), box.fileKey)]
  BY DEF AppendGoal, BoxAt, NodeAt, Owned, Became, encryptAndMAC, Atomic!encryptAndMAC,
         NewBlocks, Atomic!NewBlocks
<1>5. /\ base'.next = base.next + Len(content)
      /\ base'.session = base.session /\ base'.account = base.account /\ base'.access = base.access
      /\ base'.mailbox = base.mailbox /\ base'.invitation = base.invitation
      /\ base'.revoked = base.revoked
  BY DEF AppendGoal, Became
<1>6. Atomic!AppendToFile(c, f, content)
  BY <1>2, <1>3, <1>4, <1>5 DEF Atomic!AppendToFile
<1>7. content \in Atomic!Content
  BY <1>1 DEF Content, Atomic!Content
<1> QED
  BY <1>6, <1>7 DEF Atomic!Next

\* CreateInvitation for a user who does not exist leaves the mailbox copy it made.
LEMMA CopyIsAtomic ==
    ASSUME Between(base), NEW c \in Client, NEW f \in Filename, NEW r \in User, NEW g,
           CopyGoal(base, c, f, g), base.account[r] = None, Became(g)
    PROVE  Atomic!Next
<1>1. Atomic!CanDraw(2)
  BY DEF CopyGoal, Atomic!CanDraw
<1>2. Atomic!CreateInvitation(c, f, r)
  BY <1>1 DEF CopyGoal, BoxAt, Owned, Became, Atomic!CreateInvitation
<1> QED
  BY <1>2 DEF Atomic!Next

\* CreateInvitation, over, is the atomic CreateInvitation.
LEMMA InviteIsAtomic ==
    ASSUME Between(base), NEW c \in Client, NEW f \in Filename, NEW r \in User, NEW g,
           InviteGoal(base, c, f, r, g), Became(g)
    PROVE  Atomic!Next
<1>1. Atomic!CanDraw(2)
  BY DEF InviteGoal, Atomic!CanDraw
<1>2. Atomic!CreateInvitation(c, f, r)
  BY <1>1 DEF InviteGoal, BoxAt, Owned, Became, SealedInvitation, WithChild,
              Atomic!SealedInvitation, Atomic!WithChild, Atomic!CreateInvitation
<1> QED
  BY <1>2 DEF Atomic!Next

\* AcceptInvitation, over, is the atomic AcceptInvitation.
LEMMA AcceptIsAtomic ==
    ASSUME Between(base), NEW c \in Client, NEW f \in Filename, NEW s \in User, NEW j \in Id, NEW g,
           AcceptGoal(base, c, f, s, j, g), Became(g)
    PROVE  Atomic!Next
<1>1. Atomic!SaveUser(c, f) /\ base.session[c] # None
  BY NameSaved DEF AcceptGoal, NameGoal
<1>2. base'.access = [base.access EXCEPT ![<<base.session[c].name, f>>] =
                 Atomic!NewRecord(<<base.session[c].name, f>>, base.invitation[j].mailbox)]
  BY DEF AcceptGoal, Became, Owned, NewRecord, Atomic!NewRecord, NoChildren, Atomic!NoChildren
<1>3. Atomic!AcceptInvitation(c, s, j, f)
  BY <1>1, <1>2 DEF AcceptGoal, Became, verify, decryptFor, Atomic!verify, Atomic!decryptFor,
                    Atomic!AcceptInvitation
<1>4. j \in Atomic!Id
  BY DEF Id, Atomic!Id
<1> QED
  BY <1>3, <1>4 DEF Atomic!Next

\* RevokeAccess, over, is the atomic RevokeAccess.
LEMMA RekeyIsAtomic ==
    ASSUME Between(base), NEW c \in Client, NEW f \in Filename, NEW r \in User, NEW g,
           RekeyGoal(base, c, f, r, g), Became(g),
           \A x \in Range(NodeAt(base, Owned(base, c, f)).plain) :
               decryptAndVerify(base.block[x], BoxAt(base, Owned(base, c, f)).fileKey)
    PROVE  Atomic!Next
<1> DEFINE h == <<base.session[c].name, f>>
           box == base.mailbox[base.access[h].mailbox]
           node == base.inode[box.inode]
<1>1. /\ base.session[c] # None /\ base.access[h] # None /\ Atomic!Opens(base.access[h].mailbox)
      /\ Atomic!CanDraw(2)
  BY DEF RekeyGoal, NameGoal, OpensAt, BoxAt, NodeAt, Owned, Atomic!Opens, decryptAndVerify,
         Atomic!decryptAndVerify, Atomic!CanDraw
<1>2. Atomic!BlocksOpen(base.access[h].mailbox)
  BY DEF BoxAt, NodeAt, Owned, decryptAndVerify, Atomic!decryptAndVerify, Atomic!BlocksOpen,
         Range, Atomic!Range
<1>3. Atomic!Kept(h, r) = KeptChildren(base.access[h], r)
  BY DEF Atomic!Kept, KeptChildren
<1>4. h \in Handle
  <2>1. base.session[c] \in Session
    BY <1>1 DEF Between
  <2> QED
    BY <2>1 DEF Handle, Session
<1>5. \A m \in Atomic!Kept(h, r) : base.mailbox[m] # None
  <2>1. ASSUME NEW m \in KeptChildren(base.access[h], r) PROVE base.mailbox[m] # None
    <3>1. PICK u \in User : m = base.access[h].children[u] /\ m # None
      BY DEF KeptChildren
    <3> QED
      BY <1>1, <1>4, <3>1 DEF Between
  <2> QED
    BY SMTT(30), <1>3, <2>1
<1>6. base'.block = Atomic!Reencrypt(node.plain, base.next)
  <2>1. base'.block = [x \in Id |-> IF x \in Range(node.plain) THEN encryptAndMAC(base.block[x].plain, base.next)
                                    ELSE base.block[x]]
    BY DEF RekeyGoal, BoxAt, NodeAt, Owned, Became
  <2>2. Atomic!Range(node.plain) = Range(node.plain) /\ Atomic!Id = Id
    BY DEF Range, Atomic!Range, Id, Atomic!Id
  <2>3. \A x, k : Atomic!encryptAndMAC(x, k) = encryptAndMAC(x, k)
    BY DEF encryptAndMAC, Atomic!encryptAndMAC
  <2> HIDE DEF node
  <2> QED
    BY <2>1, <2>2, <2>3 DEF Atomic!Reencrypt
<1>7. base'.inode = [base.inode EXCEPT ![box.inode] = Atomic!encryptAndMAC(node.plain, base.next)]
  BY DEF RekeyGoal, BoxAt, NodeAt, Owned, Became, encryptAndMAC, Atomic!encryptAndMAC
<1>8. base'.mailbox = [m \in Atomic!Id |->
              IF m = base.next + 1 THEN [fileKey |-> base.next, inode |-> box.inode]
              ELSE IF m \in Atomic!Kept(h, r) THEN [fileKey |-> base.next, inode |-> base.mailbox[m].inode]
              ELSE base.mailbox[m]]
  <2>1. PICK S : S = KeptChildren(base.access[h], r)
    OBVIOUS
  <2>2. base'.mailbox = [m \in Id |->
              IF m = base.next + 1 THEN [fileKey |-> base.next, inode |-> box.inode]
              ELSE IF m \in S THEN [fileKey |-> base.next, inode |-> base.mailbox[m].inode]
              ELSE base.mailbox[m]]
    BY ZenonT(60), <2>1 DEF RekeyGoal, BoxAt, Owned, Became
  <2>3. Atomic!Kept(h, r) = S /\ Atomic!Id = Id
    BY <1>3, <2>1 DEF Id, Atomic!Id
  <2> HIDE DEF h, box
  <2> QED
    BY <2>2, <2>3
<1>9. /\ base'.access = [base.access EXCEPT ![h] =
                            Atomic!WithoutChild(base.access[h], r, base.next + 1)]
      /\ base'.revoked = base.revoked \cup ({base.access[h].children[r]} \ {None})
      /\ base'.next = base.next + 2 /\ base'.invitation = base.invitation
  BY DEF RekeyGoal, Owned, Became, WithoutChild, Atomic!WithoutChild
<1>10. Atomic!SaveUser(c, f)
  BY NameSaved DEF RekeyGoal
<1>11. Atomic!RevokeAccess(c, f, r)
  BY <1>1, <1>2, <1>5, <1>6, <1>7, <1>8, <1>9, <1>10 DEF Atomic!RevokeAccess
<1> QED
  BY <1>11 DEF Atomic!Next

\* The end of a call that has done all it planned.
LEMMA DoneIsAtomic ==
    ASSUME Between(base), NEW c \in Client, NEW k \in CallRecord, CallShape(k), NEW g,
           Aim(base, c, k, g), \A p \in Range(k.plan) : p.kind = "set", Became(g)
    PROVE  Atomic!Next
<1> DEFINE h == Owned(base, c, k.filename)
<1>1. k.filename \in Filename
  BY DEF CallRecord
<1>2. CASE k.op = "StoreFile" /\ StoreGoal(base, c, k.filename, k.arg, g)
  BY <1>1, <1>2, StoreIsAtomic
<1>3. CASE k.op = "AppendToFile" /\ AppendGoal(base, c, k.filename, k.arg, g)
  BY <1>1, <1>3, AppendIsAtomic
<1>4. CASE Lookup(k.arg) \in Range(k.plan)
  BY <1>4 DEF Lookup
<1>5. CASE \E r \in User : InviteGoal(base, c, k.filename, r, g)
  BY <1>1, <1>5, InviteIsAtomic
<1>6. CASE \E s \in User, j \in Id : AcceptGoal(base, c, k.filename, s, j, g)
  BY <1>1, <1>6, AcceptIsAtomic
<1>7. CASE k.op = "RevokeAccess" /\ RekeyGoal(base, c, k.filename, k.arg, g) /\ Readable(base, k, h)
  <2>1. k.arg \in User
    BY <1>7 DEF CallShape
  <2>2. \A x \in Range(NodeAt(base, h).plain) :
            decryptAndVerify(base.block[x], BoxAt(base, h).fileKey)
    BY <1>7 DEF Readable, Fetch
  <2> QED
    BY <1>1, <1>7, <2>1, <2>2, RekeyIsAtomic
<1> QED
  BY <1>2, <1>3, <1>4, <1>5, <1>6, <1>7 DEF Aim

(***************************************************************************)
(* Clients that take turns.                                                 *)
(***************************************************************************)
\* No call begins while another is under way, and no Set is late.
TakeTurns ==
    /\ \A c, d \in Client : call[c] # None /\ d # c =>
          ~(\E f \in Filename : Begin(d, f)) /\ ~\E u \in User : UserCall(d, u)
    /\ \A c \in Client : ~LateEffect(c)

\* The call k of c has read its access record, and perhaps its mailbox.
OnlyRead(b, c, k) ==
    /\ b = Now /\ k.plan = << >> /\ b.session[c] # None
    /\ k.op \in {"AppendToFile", "CreateInvitation", "RevokeAccess"}
    /\ k.access = b.access[Owned(b, c, k.filename)] /\ k.access # None
    /\ k.box = None \/ k.box = BoxAt(b, Owned(b, c, k.filename))

\* It works through its plan.
Working(b, c, k) == k.plan # << >> /\ \E g : Aim(b, c, k, g) /\ Toward(b, c, k, g)

\* At most one call is under way, and it was begun at b.
AloneAt(b) ==
    /\ Between(b)
    /\ \A c \in Client : call[c] # None =>
          /\ \A d \in Client \ {c} : call[d] = None
          /\ \E k : k = call[c] /\ (OnlyRead(b, c, k) \/ Working(b, c, k))
    /\ (\A c \in Client : call[c] = None) => b = Now

Alone == \E b : b = base /\ AloneAt(b)

BetweenNow == \E n : n = Now /\ Between(n)

Rebase == base' = IF \A c \in Client : call'[c] = None THEN Now' ELSE base

\* What a step of c amounts to.
Outcome(c) == Alone' /\ (base' = base \/ Atomic!Next \/ CutShort(c))

\* The present state is reached.
LEMMA NowReached ==
    ASSUME NEW b, b = Now
    PROVE  Reached(b)
  BY DEF Reached, Now

\* A call that reached its goal as it ended made it the new base.
LEMMA NowBecame ==
    ASSUME base' = Now', NEW g, Reached(g)'
    PROVE  Became(g)
  BY DEF Reached, Now, Became

\* The call of c goes on.
LEMMA GoesOn ==
    ASSUME StepTypes, Rebase, NEW c \in Client, \A d \in Client \ {c} : call[d] = None,
           NEW b, b = base, Between(b), NEW on \in CallRecord, call' = [call EXCEPT ![c] = on],
           OnlyRead(b, c, on)' \/ Working(b, c, on)'
    PROVE  Outcome(c)
<1>1. call'[c] = on /\ on # None /\ \A d \in Client \ {c} : call'[d] = None
  BY CallAssumption DEF StepTypes, CallsTyped
<1>2. base' = b
  BY <1>1 DEF Rebase
<1>3. AloneAt(b)'
  BY <1>1 DEF AloneAt
<1> QED
  BY <1>2, <1>3 DEF Outcome, Alone

\* The call of c is over.
LEMMA IsOver ==
    ASSUME StepTypes, Rebase, BetweenNow', NEW c \in Client, \A d \in Client \ {c} : call[d] = None,
           call' = [call EXCEPT ![c] = None] \/ (call' = call /\ call[c] = None)
    PROVE  Alone' /\ base' = Now'
<1>1. \A d \in Client : call'[d] = None
  BY DEF StepTypes, CallsTyped
<1>2. base' = Now'
  BY <1>1 DEF Rebase
<1>3. PICK n : n = Now' /\ Between(n)
  BY DEF BetweenNow
<1>4. AloneAt(n)'
  BY <1>1, <1>3 DEF AloneAt
<1> QED
  BY <1>2, <1>3, <1>4 DEF Alone

\* InitUser and GetUser.
LEMMA UserCallAlone ==
    ASSUME StepTypes, Rebase, BetweenNow', NEW c \in Client, \A d \in Client \ {c} : call[d] = None,
           NEW b, b = base, AloneAt(b), NEW u \in User, UserCall(c, u)
    PROVE  Outcome(c)
<1>1. call[c] = None /\ call' = call
  BY DEF UserCall
<1>2. Alone' /\ base' = Now'
  BY <1>1, IsOver
<1>3. b = Now
  BY <1>1 DEF AloneAt
<1>4. /\ base.session = session /\ base.account = account /\ base.access = access
      /\ base.mailbox = mailbox /\ base.inode = inode /\ base.block = block
      /\ base.invitation = invitation /\ base.revoked = revoked /\ base.next = next
  BY <1>3 DEF Now
<1>5. /\ base'.session = session' /\ base'.account = account' /\ base'.access = access'
      /\ base'.mailbox = mailbox' /\ base'.inode = inode' /\ base'.block = block'
      /\ base'.invitation = invitation' /\ base'.revoked = revoked' /\ base'.next = next'
  BY <1>2 DEF Now
<1>6. Atomic!InitUser(c, u) \/ Atomic!GetUser(c, u)
  <2>1. CASE InitUser(c, u)
    BY <1>4, <1>5, <2>1 DEF InitUser, Atomic!InitUser
  <2>2. CASE GetUser(c, u)
    BY <1>4, <1>5, <2>2 DEF GetUser, Atomic!GetUser
  <2> QED
    BY <2>1, <2>2 DEF UserCall
<1>7. Atomic!Next
  BY <1>6 DEF Atomic!Next
<1> QED
  BY <1>2, <1>7 DEF Outcome

\* StoreFile begins with a plan that leads to its goal.
LEMMA BeginStoreAlone ==
    ASSUME StepTypes, Rebase, NEW c \in Client, \A d \in Client \ {c} : call[d] = None,
           NEW b, b = base, AloneAt(b), NEW f \in Filename, NEW content \in Content,
           BeginStore(c, f, content)
    PROVE  Outcome(c)
<1>1. call[c] = None
  BY DEF BeginStore, Idle
<1>2. Between(b) /\ Reached(b)
  BY <1>1, NowReached DEF AloneAt
<1>3. PICK on \in CallRecord : /\ on.op = "StoreFile" /\ on.filename = f /\ on.arg = content
                               /\ on.plan = StorePlan(c, f, content) /\ on.plan # << >>
                               /\ call' = [call EXCEPT ![c] = on]
  <2>1. /\ TypeOK /\ session[c] # None /\ CanDraw(3 + Len(content))
    BY DEF StepTypes, BeginStore, Idle
  <2>2. PICK plan \in Seq(Item) : plan = StorePlan(c, f, content) /\ plan # << >>
    BY <2>1, StorePlanItems
  <2> DEFINE on == [NewCall("StoreFile", f, content, None) EXCEPT !.plan = plan]
  <2>3. /\ on.op = "StoreFile" /\ on.filename = f /\ on.arg = content /\ on.plan = plan
        /\ on \in CallRecord
    BY DEF NewCall, CallRecord, Operation
  <2>4. call' = [call EXCEPT ![c] = on]
    BY <2>2 DEF BeginStore
  <2> QED
    BY <2>2, <2>3, <2>4
<1>4. \E g : Aim(b, c, on, g)' /\ Toward(b, c, on, g)'
  BY <1>2, <1>3, StoreToward
<1>5. Working(b, c, on)'
  BY <1>3, <1>4 DEF Working
<1> QED
  BY <1>2, <1>3, <1>5, GoesOn

\* AcceptInvitation begins with a plan that leads to its goal.
LEMMA BeginAcceptAlone ==
    ASSUME StepTypes, IssuedStored, Rebase, NEW c \in Client, \A d \in Client \ {c} : call[d] = None,
           NEW b, b = base, AloneAt(b), NEW f \in Filename, NEW s \in User, NEW j \in issued,
           BeginAccept(c, s, j, f)
    PROVE  Outcome(c)
<1>1. call[c] = None
  BY DEF BeginAccept, Idle
<1>2. Between(b) /\ Reached(b)
  BY <1>1, NowReached DEF AloneAt
<1> DEFINE h == <<session[c].name, f>>
           pa == Put("access", h, NewRecord(h, invitation[j].mailbox))
           pu == PutUser(c, f)
<1>3. PICK on \in CallRecord : /\ on.op = "AcceptInvitation" /\ on.filename = f
                               /\ on.plan = <<pa, pu>> /\ on.plan # << >>
                               /\ call' = [call EXCEPT ![c] = on]
  <2>1. session[c] \in Session /\ invitation[j] \in Invitation /\ j \in Id
    BY Typed DEF StepTypes, CallsTyped, IssuedStored, BeginAccept, Idle
  <2>2. pa \in SetItem
    <3>1. h \in Handle /\ NewRecord(h, invitation[j].mailbox) \in Access
      BY <2>1 DEF Handle, Session, Invitation, NewRecord, NoChildren, Access, ChildrenMap
    <3> QED
      BY <3>1, PutTyped
  <2>3. pu \in SetItem
    BY <2>1, PutTyped DEF PutUser, Session, UserRecord
  <2>4. pa \in Item /\ pu \in Item
    BY <2>2, <2>3, ItemKinds
  <2>5. call' = [call EXCEPT ![c] = [NewCall("AcceptInvitation", f, j, None) EXCEPT !.plan = <<pa, pu>>]]
    BY DEF BeginAccept
  <2> HIDE DEF pa, pu
  <2>6. PICK plan \in Seq(Item) : plan = <<pa, pu>> /\ plan # << >>
    BY <2>4, ShortPlans
  <2> DEFINE on == [NewCall("AcceptInvitation", f, j, None) EXCEPT !.plan = plan]
  <2>7. on.op = "AcceptInvitation" /\ on.filename = f /\ on.plan = plan /\ on \in CallRecord
    BY <2>1 DEF NewCall, CallRecord, Operation
  <2> QED
    BY <2>5, <2>6, <2>7
<1>4. \E g : Aim(b, c, on, g)' /\ Toward(b, c, on, g)'
  BY <1>2, <1>3, AcceptToward
<1> HIDE DEF pa, pu
<1>5. Working(b, c, on)'
  BY <1>3, <1>4 DEF Working
<1> QED
  BY <1>2, <1>3, <1>5, GoesOn

\* The calls that first load an access record begin by reading.
LEMMA BeginOnAccessAlone ==
    ASSUME StepTypes, Rebase, NEW c \in Client, \A d \in Client \ {c} : call[d] = None,
           NEW b, b = base, AloneAt(b), NEW f \in Filename, NEW o, NEW x, NEW n,
           o \in {"AppendToFile", "CreateInvitation", "RevokeAccess"}, x \in Content \cup User,
           BeginOnAccess(c, o, f, x, n)
    PROVE  Outcome(c)
<1>1. call[c] = None /\ session[c] # None /\ UNCHANGED vars
  BY DEF BeginOnAccess, Idle
<1>2. Between(b) /\ b = Now
  BY <1>1 DEF AloneAt
<1>3. b.session = session /\ b.access = access
  BY <1>2 DEF Now
<1> DEFINE h == <<session[c].name, f>>
<1>4. PICK on \in CallRecord : /\ on.op = o /\ on.filename = f /\ on.access = access[h]
                               /\ on.box = None /\ on.plan = << >> /\ on.access # None
                               /\ call' = [call EXCEPT ![c] = on]
  <2>1. h \in Handle
    <3>1. session[c] \in Session
      BY <1>1, Typed DEF StepTypes
    <3> QED
      BY <3>1 DEF Handle, Session
  <2>2. access[h] \in Access /\ access[h] # None
    BY <2>1, Typed DEF BeginOnAccess, StepTypes
  <2> DEFINE on == NewCall(o, f, x, access[h])
  <2>3. /\ on.op = o /\ on.filename = f /\ on.access = access[h] /\ on.box = None /\ on.plan = << >>
        /\ on \in CallRecord
    BY <2>2 DEF NewCall, CallRecord, Operation
  <2>4. call' = [call EXCEPT ![c] = on]
    BY DEF BeginOnAccess
  <2> QED
    BY <2>2, <2>3, <2>4
<1>5. b = Now'
  BY <1>1, <1>2 DEF vars, Now
<1>6. OnlyRead(b, c, on)'
  BY <1>1, <1>3, <1>4, <1>5 DEF OnlyRead, Owned
<1> QED
  BY <1>2, <1>4, <1>6, GoesOn

\* A call that is refused while it has only read.
LEMMA RefusedReading ==
    ASSUME StepTypes, Rebase, BetweenNow', NEW c \in Client, \A d \in Client \ {c} : call[d] = None,
           NEW b, b = base, b = Now, Refuse(c)
    PROVE  Outcome(c)
<1>1. Alone' /\ base' = Now'
  BY IsOver DEF Refuse
<1>2. Now' = Now
  BY DEF Refuse, vars, Now
<1> QED
  BY <1>1, <1>2 DEF Outcome

\* The call under way, before its plan is made.
LEMMA ReadingAt ==
    ASSUME StepTypes, NEW c \in Client, NEW b, AloneAt(b), Reading(c)
    PROVE  \E k \in CallRecord : k = call[c] /\ OnlyRead(b, c, k) /\ k.access \in Access
<1>1. call[c] # None /\ call[c].plan = << >> /\ call[c] \in CallRecord
  BY DEF Reading, StepTypes, CallsTyped
<1>2. PICK k : k = call[c] /\ (OnlyRead(b, c, k) \/ Working(b, c, k))
  BY <1>1 DEF AloneAt
<1>3. k \in CallRecord /\ OnlyRead(b, c, k) /\ k.access \in Access
  BY <1>1, <1>2, ReadingCall DEF Working
<1> QED
  BY <1>2, <1>3

\* Having read the mailbox, a call reads on, ends, or has a plan that leads to its goal.
LEMMA ReadMailboxAlone ==
    ASSUME StepTypes, Rebase, BetweenNow', NEW c \in Client, \A d \in Client \ {c} : call[d] = None,
           NEW b, b = base, AloneAt(b), ReadMailbox(c)
    PROVE  Outcome(c)
<1>1. Reading(c)
  BY DEF ReadMailbox
<1>2. PICK k \in CallRecord : k = call[c] /\ OnlyRead(b, c, k) /\ k.access \in Access
  BY <1>1, ReadingAt
<1>3. PICK m \in Id : m = k.access.mailbox
  BY <1>2 DEF Access
<1>4. /\ b = Now /\ Between(b) /\ Reached(b) /\ b.session = session /\ b.access = access
      /\ b.mailbox = mailbox /\ b.next = next
  BY <1>2, NowReached DEF OnlyRead, AloneAt, Reached
<1> DEFINE h == Owned(b, c, k.filename)
<1>5. /\ k.access = b.access[h] /\ k.access # None /\ b.session[c] # None /\ BoxAt(b, h) = mailbox[m]
      /\ k.op \in {"AppendToFile", "CreateInvitation", "RevokeAccess"}
      /\ k.filename \in Filename
  BY <1>2, <1>3, <1>4 DEF OnlyRead, BoxAt, CallRecord
<1>6. CASE mailbox[m] = None
  <2>1. Refuse(c)
    BY <1>2, <1>3, <1>6 DEF ReadMailbox
  <2> QED
    BY <1>4, <2>1, RefusedReading
<1>7. CASE mailbox[m] # None /\ k.op = "CreateInvitation"
  <2>1. PICK box \in MailboxNode : box = mailbox[m]
    BY <1>7, Typed DEF StepTypes
  <2>2. PICK r \in User : r = k.arg
    BY <1>1, <1>2, <1>7, ReadingCall
  <2>3. /\ CanDraw(2) /\ next' = next + 1 /\ UNCHANGED <<session, Store, revoked>>
    BY <1>2, <1>3, <1>7 DEF ReadMailbox
  <2>4. next \in Id
    BY <2>3, Typed, BoundsAssumption DEF StepTypes, CanDraw, Id
  <2> DEFINE pm == Put("mailbox", next, box)
             pl == Lookup(r)
  <2>5. pm \in Item /\ pl \in Item
    BY <2>4, PutTyped, ItemKinds
  <2>6. call' = [call EXCEPT ![c] =
                   [[k EXCEPT !.box = box] EXCEPT !.made = next, !.plan = <<pm, pl>>]]
    BY <1>2, <1>3, <1>7, <2>1, <2>2 DEF ReadMailbox
  <2> HIDE DEF pm, pl
  <2>7. PICK plan \in Seq(Item) : plan = <<pm, pl>> /\ plan # << >>
    BY <2>5, ShortPlans
  <2>o. PICK on : on = [[k EXCEPT !.box = box] EXCEPT !.made = next, !.plan = plan]
    OBVIOUS
  <2>8. /\ on \in CallRecord /\ on.plan = plan /\ on.made = next /\ on.arg = r /\ on.op = k.op
        /\ on.access = k.access /\ on.filename = k.filename
    BY <2>2, <2>4, <2>o DEF CallRecord
  <2>9. call' = [call EXCEPT ![c] = on]
    BY <2>6, <2>7, <2>o
  <2>10. \E g : Aim(b, c, on, g)' /\ Toward(b, c, on, g)'
    <3>1. on.plan = <<Put("mailbox", next, box), Lookup(r)>>
      BY <2>7, <2>8 DEF pm, pl
    <3>2. PICK f \in Filename : f = k.filename
      BY <1>5
    <3>3. PICK at : at = Owned(b, c, f)
      OBVIOUS
    <3>4. /\ on.op = "CreateInvitation" /\ on.filename = f /\ on.access = b.access[at]
          /\ box = BoxAt(b, at) /\ b.access[at] # None /\ b.session[c] # None
      BY <1>5, <1>7, <2>1, <2>8, <3>2, <3>3
    <3> HIDE DEF h
    <3> QED
      BY <1>4, <2>3, <2>8, <3>1, <3>3, <3>4, CopyToward
  <2>11. Working(b, c, on)'
    BY <2>7, <2>8, <2>10 DEF Working
  <2> QED
    BY <1>4, <2>8, <2>9, <2>11, GoesOn
<1>8. CASE mailbox[m] # None /\ k.op # "CreateInvitation"
  <2>1. PICK box \in MailboxNode : box = mailbox[m]
    BY <1>8, Typed DEF StepTypes
  <2>2. call' = [call EXCEPT ![c] = [k EXCEPT !.box = box]] /\ UNCHANGED vars
    BY <1>2, <1>3, <1>8, <2>1 DEF ReadMailbox, vars, Store
  <2> DEFINE on == [k EXCEPT !.box = box]
  <2>3. /\ on \in CallRecord /\ on.plan = k.plan /\ on.op = k.op /\ on.box = box
        /\ on.access = k.access /\ on.filename = k.filename
    BY DEF CallRecord
  <2>4. call' = [call EXCEPT ![c] = on]
    BY <2>2
  <2> HIDE DEF on
  <2>5. b = Now'
    BY <1>4, <2>2 DEF vars, Now
  <2>6. OnlyRead(b, c, on)'
    BY <1>2, <1>5, <2>1, <2>3, <2>5 DEF OnlyRead
  <2> QED
    BY <1>4, <2>3, <2>4, <2>6, GoesOn
<1> QED
  BY <1>6, <1>7, <1>8

\* Having read the inode, a call ends or has a plan that leads to its goal.
LEMMA ReadInodeAlone ==
    ASSUME StepTypes, Rebase, BetweenNow', NEW c \in Client, \A d \in Client \ {c} : call[d] = None,
           NEW b, b = base, AloneAt(b), ReadInode(c)
    PROVE  Outcome(c)
<1>1. Reading(c)
  BY DEF ReadInode
<1>2. PICK k \in CallRecord : k = call[c] /\ OnlyRead(b, c, k) /\ k.access \in Access
  BY <1>1, ReadingAt
<1>3. PICK box \in MailboxNode : box = k.box
  BY <1>2 DEF ReadInode, CallRecord
<1>4. /\ b = Now /\ Between(b) /\ Reached(b) /\ b.session = session /\ b.inode = inode
  BY <1>2, NowReached DEF OnlyRead, AloneAt, Reached
<1>5. PICK f \in Filename : f = k.filename
  BY DEF CallRecord
<1>h. PICK h : h = Owned(b, c, f)
  OBVIOUS
<1>6. box # None
  BY NoneAssumption
<1>7. /\ k.access = b.access[h] /\ k.access # None /\ b.session[c] # None /\ box = BoxAt(b, h)
  BY <1>2, <1>3, <1>5, <1>h, <1>6 DEF OnlyRead
<1>8. CASE ~decryptAndVerify(inode[box.inode], box.fileKey)
  <2>1. Refuse(c)
    BY <1>2, <1>3, <1>8 DEF ReadInode
  <2> QED
    BY <1>4, <2>1, RefusedReading
<1>9. CASE decryptAndVerify(inode[box.inode], box.fileKey) /\ k.op = "AppendToFile"
  <2>1. PICK content \in Content : content = k.arg
    BY <1>1, <1>2, <1>9, ReadingCall
  <2>2. /\ CanDraw(Len(content)) /\ next' = next + Len(content) /\ UNCHANGED <<session, Store, revoked>>
        /\ GoOn(c, AppendPlan(box, inode[box.inode], content))
    BY <1>2, <1>3, <1>9, <2>1 DEF ReadInode
  <2>3. inode[box.inode] # None /\ TypeOK
    BY <1>9 DEF decryptAndVerify, StepTypes
  <2>4. PICK plan \in Seq(Item) : plan = AppendPlan(box, inode[box.inode], content) /\ plan # << >>
    BY <2>2, <2>3, AppendPlanItems
  <2> DEFINE on == [k EXCEPT !.plan = plan]
  <2>5. on \in CallRecord /\ on.plan = plan /\ on.op = k.op /\ on.arg = k.arg /\ on.filename = k.filename
    BY WithPlan
  <2>6. call' = [call EXCEPT ![c] = on]
    BY <1>2, <2>2, <2>4 DEF GoOn
  <2> HIDE DEF on
  <2>7. on.op = "AppendToFile" /\ on.filename = f /\ on.arg = content
        /\ on.plan = AppendPlan(box, inode[box.inode], content)
    BY <1>5, <1>h, <1>9, <2>1, <2>4, <2>5
  <2>8. \E g : Aim(b, c, on, g)' /\ Toward(b, c, on, g)'
    BY <1>4, <1>5, <1>h, <1>7, <1>9, <2>2, <2>7, AppendToward
  <2>9. Working(b, c, on)'
    BY <2>4, <2>5, <2>8 DEF Working
  <2> QED
    BY <1>4, <2>5, <2>6, <2>9, GoesOn
<1>10. CASE decryptAndVerify(inode[box.inode], box.fileKey) /\ k.op # "AppendToFile"
  <2>1. PICK r \in User, a \in Access : r = k.arg /\ a = k.access
    BY <1>1, <1>2, <1>3, <1>6, <1>10, ReadingCall
  <2>2. k.op = "RevokeAccess" /\ HandleOf(c) = h
    <3>1. k.op = "RevokeAccess"
      BY <1>1, <1>2, <1>3, <1>6, <1>10, ReadingCall
    <3> QED
      BY <1>2, <1>4, <1>5, <1>h, <3>1 DEF HandleOf, Owned
  <2> DEFINE pa == Put("access", h, WithoutChild(a, r, next + 1))
             pu == PutUser(c, f)
  <2>3. PICK children \in Orders(KeptChildren(a, r)) :
            GoOn(c, RekeyPlan(box, inode[box.inode], children, <<pa, pu>>))
    BY <1>2, <1>3, <1>5, <1>h, <1>10, <2>1, <2>2 DEF ReadInode
  <2>4. /\ CanDraw(2) /\ next' = next + 2 /\ UNCHANGED <<session, Store, revoked>>
    BY <1>2, <1>3, <1>10 DEF ReadInode
  <2>5. inode[box.inode] # None /\ TypeOK
    BY <1>10 DEF decryptAndVerify, StepTypes
  <2>6. children \in Seq(Id)
    BY OrdersAreSeqs
  <2>7. session[c] \in Session /\ h \in Handle
    BY <1>4, <1>5, <1>h, <1>7, <2>5, Typed DEF Owned, Handle, Session
  <2>8. pa \in SetItem
    <3>1. next + 1 \in Id
      BY <2>4, <2>5, Typed, BoundsAssumption DEF CanDraw, Id
    <3>2. WithoutChild(a, r, next + 1) \in Access
      BY <3>1 DEF WithoutChild, Access, ChildrenMap
    <3> QED
      BY <2>7, <3>2, PutTyped
  <2>9. pu \in SetItem
    BY <2>7, PutTyped DEF PutUser, Session, UserRecord
  <2> HIDE DEF pa, pu
  <2>10. PICK plan \in Seq(Item) :
            plan = RekeyPlan(box, inode[box.inode], children, <<pa, pu>>) /\ plan # << >>
    BY <2>4, <2>5, <2>6, <2>8, <2>9, RekeyPlanItems
  <2> DEFINE on == [k EXCEPT !.plan = plan]
  <2>11. /\ on \in CallRecord /\ on.plan = plan /\ on.op = k.op /\ on.arg = k.arg
         /\ on.filename = k.filename /\ on.access = k.access /\ on.box = k.box
    BY WithPlan
  <2>12. call' = [call EXCEPT ![c] = on]
    BY <1>2, <2>3, <2>10 DEF GoOn
  <2> HIDE DEF on
  <2>13. /\ on.op = "RevokeAccess" /\ on.filename = f /\ on.arg = r /\ on.access = a /\ on.box = box
         /\ on.plan = RekeyPlan(box, inode[box.inode], children,
                        <<Put("access", h, WithoutChild(a, r, next + 1)), PutUser(c, f)>>)
    BY <1>3, <1>5, <1>h, <2>1, <2>2, <2>10, <2>11 DEF pa, pu
  <2>14. a = b.access[h] /\ decryptAndVerify(inode[box.inode], box.fileKey)
    BY <1>7, <1>10, <2>1
  <2>15. \E g : Aim(b, c, on, g)' /\ Toward(b, c, on, g)'
    BY <1>4, <1>5, <1>h, <1>7, <2>4, <2>13, <2>14, RekeyToward
  <2>16. Working(b, c, on)'
    BY <2>10, <2>11, <2>15 DEF Working
  <2> QED
    BY <1>4, <2>11, <2>12, <2>16, GoesOn
<1> QED
  BY <1>8, <1>9, <1>10

\* The call under way, once its plan is made.
LEMMA WorkingAt ==
    ASSUME StepTypes, NEW c \in Client, NEW b, AloneAt(b), call[c] # None, call[c].plan # << >>
    PROVE  \E k \in CallRecord : /\ k = call[c] /\ k.plan # << >> /\ CallShape(k)
                                 /\ \E g : Aim(b, c, k, g) /\ Toward(b, c, k, g)
<1>1. call[c] \in CallRecord /\ CallShape(call[c])
  BY DEF StepTypes, CallsTyped
<1>2. PICK k : k = call[c] /\ (OnlyRead(b, c, k) \/ Working(b, c, k))
  BY DEF AloneAt
<1>3. Working(b, c, k)
  BY <1>2 DEF OnlyRead
<1> QED
  BY <1>1, <1>2, <1>3 DEF Working

\* A Set brings a call nearer to its goal, and the last one reaches it.
LEMMA DoSetAlone ==
    ASSUME StepTypes, StepTypes', Rebase, BetweenNow', NEW c \in Client,
           \A d \in Client \ {c} : call[d] = None, NEW b, b = base, AloneAt(b), DoSet(c)
    PROVE  Outcome(c)
<1>1. Planned(c, "set") /\ GoOn(c, Tail(call[c].plan))
  BY DEF DoSet
<1>2. PICK k \in CallRecord : /\ k = call[c] /\ k.plan # << >> /\ CallShape(k)
                              /\ \E g : Aim(b, c, k, g) /\ Toward(b, c, k, g)
  BY <1>1, WorkingAt DEF Planned
<1>3. PICK g : Aim(b, c, k, g) /\ Toward(b, c, k, g)
  BY <1>2
<1>4. Between(b)
  BY DEF AloneAt
<1>5. CASE Tail(k.plan) # << >>
  <2>1. PICK rest \in Seq(Item) : rest = Tail(k.plan)
    BY <1>2, HeadAndTail DEF CallRecord
  <2> DEFINE on == [k EXCEPT !.plan = rest]
  <2>2. on \in CallRecord /\ on.plan = rest
    BY WithPlan
  <2>3. on = [k EXCEPT !.plan = Tail(k.plan)] /\ call' = [call EXCEPT ![c] = on]
    BY <1>1, <1>2, <1>5, <2>1 DEF GoOn
  <2> HIDE DEF on
  <2>4. Toward(b, c, on, g)'
    BY <1>2, <1>3, <2>3, SetToward
  <2>5. Aim(b, c, on, g)'
    BY <1>2, <1>3, <1>5, <2>3, SetAim
  <2>6. Working(b, c, on)'
    BY <1>5, <2>1, <2>2, <2>4, <2>5 DEF Working
  <2> QED
    BY <1>4, <2>2, <2>3, <2>6, GoesOn
<1>6. CASE Tail(k.plan) = << >>
  <2>1. Functions(g)
    BY <1>3, <1>4, GoalFunctions
  <2>2. Reached(g)' /\ \A p \in Range(k.plan) : p.kind = "set"
    BY <1>2, <1>3, <1>6, <2>1, SetDone
  <2>3. call' = [call EXCEPT ![c] = None]
    BY <1>1, <1>2, <1>6 DEF GoOn
  <2>4. Alone' /\ base' = Now'
    BY <2>3, IsOver
  <2>5. Became(g)
    BY <2>2, <2>4, NowBecame
  <2>6. Between(base) /\ Aim(base, c, k, g)
    BY <1>3, <1>4
  <2>7. Atomic!Next
    BY <1>2, <2>2, <2>5, <2>6, DoneIsAtomic
  <2> QED
    BY <2>4, <2>7 DEF Outcome
<1> QED
  BY <1>5, <1>6

\* RevokeAccess reads a block or a mailbox.
LEMMA DoFetchAlone ==
    ASSUME StepTypes, Rebase, BetweenNow', NEW c \in Client,
           \A d \in Client \ {c} : call[d] = None, NEW b, b = base, AloneAt(b), DoFetch(c)
    PROVE  Outcome(c)
<1>1. Planned(c, "fetch")
  BY DEF DoFetch
<1>2. PICK k \in CallRecord : /\ k = call[c] /\ k # None /\ k.plan # << >> /\ k.op = "RevokeAccess"
  BY <1>1, PlannedFetch
<1>3. PICK p \in FetchItem : p = Head(k.plan)
  BY <1>1, <1>2, PlannedFetch
<1>4. PICK g : Aim(b, c, k, g) /\ Toward(b, c, k, g)
  BY <1>2, WorkingAt
<1>5. Between(b)
  BY DEF AloneAt
<1>6. TypeOK /\ p.store \in {"block", "mailbox"} /\ p.at \in Id /\ p.value \in Id
  BY <1>3, ItemKinds DEF StepTypes
<1>7. CASE Refuse(c)
  <2>1. Alone' /\ base' = Now'
    BY <1>7, IsOver DEF Refuse
  <2>2. CutShort(c)
    BY <1>1, <1>7 DEF CutShort
  <2> QED
    BY <2>1, <2>2 DEF Outcome
<1>8. ASSUME NEW back \in SetItem,
             \/ /\ p.store = "block" /\ decryptAndVerify(block[p.at], k.box.fileKey)
                /\ back = Put("block", p.at, encryptAndMAC(block[p.at].plain, p.value))
             \/ /\ p.store = "mailbox" /\ mailbox[p.at] # None
                /\ back = Put("mailbox", p.at, [mailbox[p.at] EXCEPT !.fileKey = p.value]),
             GoOn(c, <<back>> \o Tail(k.plan)), UNCHANGED vars
      PROVE  Outcome(c)
  <2>1. PICK rest \in Seq(Item) : rest = Tail(k.plan)
    BY <1>2, HeadAndTail DEF CallRecord
  <2>2. PICK a \in Seq(Item) : a = <<back>> /\ Range(a) = {back} /\ a # << >>
    BY ItemKinds, ShortPlans
  <2>3. a \o rest \in Seq(Item) /\ Range(a \o rest) = Range(a) \cup Range(rest)
    BY JoinedPlans
  <2>4. a \o rest # << >>
    BY <2>2, JoinedPlans
  <2>5. PICK plan \in Seq(Item) : /\ plan = a \o rest /\ plan # << >>
                                  /\ Range(plan) = {back} \cup Range(Tail(k.plan))
    BY <2>1, <2>2, <2>3, <2>4
  <2> DEFINE on == [k EXCEPT !.plan = plan]
  <2>6. /\ on \in CallRecord /\ on.plan = plan /\ on.op = k.op /\ on.filename = k.filename
        /\ on.arg = k.arg /\ on.access = k.access /\ on.box = k.box
    BY WithPlan
  <2>7. call' = [call EXCEPT ![c] = on]
    BY <1>2, <1>8, <2>1, <2>2, <2>5 DEF GoOn
  <2> HIDE DEF on
  <2>8. Range(on.plan) = {back} \cup Range(Tail(k.plan))
    BY <2>5, <2>6
  <2>9. Aim(b, c, on, g)' /\ Toward(b, c, on, g)'
    BY <1>2, <1>3, <1>4, <1>5, <1>8, <2>6, <2>8, BackToward
  <2>10. Working(b, c, on)'
    BY <2>5, <2>6, <2>9 DEF Working
  <2> QED
    BY <1>5, <2>6, <2>7, <2>10, GoesOn
<1>9. CASE /\ p.store = "block" /\ decryptAndVerify(block[p.at], k.box.fileKey)
           /\ GoOn(c, <<Put("block", p.at, encryptAndMAC(block[p.at].plain, p.value))>> \o Tail(k.plan))
           /\ UNCHANGED vars
  <2>1. block[p.at] \in SealedBlock
    BY <1>6, <1>9, Typed DEF decryptAndVerify
  <2>2. PICK back \in SetItem : back = Put("block", p.at, encryptAndMAC(block[p.at].plain, p.value))
    BY <1>6, <2>1, PutTyped DEF encryptAndMAC, SealedBlock
  <2> QED
    BY <1>8, <1>9, <2>2
<1>10. CASE /\ p.store = "mailbox" /\ mailbox[p.at] # None
            /\ GoOn(c, <<Put("mailbox", p.at, [mailbox[p.at] EXCEPT !.fileKey = p.value])>> \o Tail(k.plan))
            /\ UNCHANGED vars
  <2>1. mailbox[p.at] \in MailboxNode
    BY <1>6, <1>10, Typed
  <2>2. PICK back \in SetItem : back = Put("mailbox", p.at, [mailbox[p.at] EXCEPT !.fileKey = p.value])
    BY <1>6, <2>1, PutTyped DEF MailboxNode
  <2> QED
    BY <1>8, <1>10, <2>2
<1>11. p = Head(call[c].plan)
  BY <1>2, <1>3
<1> QED
  BY <1>2, <1>6, <1>7, <1>9, <1>10, <1>11 DEF DoFetch

\* CreateInvitation looks its recipient up.
LEMMA DoLookupAlone ==
    ASSUME StepTypes, Rebase, BetweenNow', NEW c \in Client,
           \A d \in Client \ {c} : call[d] = None, NEW b, b = base, AloneAt(b), DoLookup(c)
    PROVE  Outcome(c)
<1>1. Planned(c, "lookup")
  BY DEF DoLookup
<1>2. PICK k \in CallRecord : /\ k = call[c] /\ k # None /\ k.access \in Access
                              /\ k.made \in Id /\ k.arg \in User /\ k.plan = <<Lookup(k.arg)>>
  BY <1>1, PlannedLookup
<1>3. PICK r \in User, f \in Filename : r = k.arg /\ f = k.filename
  BY <1>2 DEF CallRecord
<1>4. k.plan # << >> /\ Range(k.plan) = {Lookup(r)} /\ Lookup(r).kind = "lookup" /\ Lookup(r).store = "key"
  <2>1. Lookup(r) \in Item
    BY ItemKinds
  <2> QED
    BY <1>2, <1>3, <2>1, ShortPlans DEF Lookup
<1>5. PICK g : Aim(b, c, k, g) /\ Toward(b, c, k, g) /\ CallShape(k)
  BY <1>2, <1>4, WorkingAt
<1>6. Between(b) /\ TypeOK
  BY DEF AloneAt, StepTypes
<1>7. k.op = "CreateInvitation"
  <2>1. Lookup(r) \notin SetItem \cup FetchItem
    BY <1>4, ItemKinds
  <2> QED
    BY <1>4, <1>5, <2>1 DEF CallShape
<1>8. CopyGoal(b, c, f, g) /\ k.access = b.access[Owned(b, c, f)] /\ k.made = b.next
  BY <1>3, <1>4, <1>5, <1>7 DEF Aim
<1>9. Reached(g)
  <2>1. Functions(g)
    BY <1>5, <1>6, GoalFunctions
  <2> QED
    BY <1>4, <1>5, <1>6, <2>1, TowardDone
<1>10. CASE account[r] = None /\ Refuse(c)
  <2>1. Alone' /\ base' = Now'
    BY <1>10, IsOver DEF Refuse
  <2>2. UNCHANGED vars
    BY <1>10 DEF Refuse
  <2>3. Reached(g)'
    BY <1>9, <2>2 DEF Reached, vars
  <2>4. Became(g)
    BY <2>1, <2>3, NowBecame
  <2>5. b.account[r] = None
    BY <1>8, <1>9, <1>10 DEF CopyGoal, Reached
  <2>6. Between(base) /\ CopyGoal(base, c, f, g) /\ base.account[r] = None
    BY <1>6, <1>8, <2>5
  <2>7. Atomic!Next
    BY <2>4, <2>6, CopyIsAtomic
  <2> QED
    BY <2>1, <2>7 DEF Outcome
<1>11. CASE account[r] # None /\ ~Refuse(c)
  <2>1. PICK h : h = Owned(b, c, f) /\ h = HandleOf(c)
    BY <1>2, <1>3, <1>8, <1>9 DEF Owned, HandleOf, CopyGoal, Reached
  <2> DEFINE inv == SealedInvitation(session[c].name, f, r, b.next)
             rec == WithChild(b.access[h], r, b.next)
  <2>2. /\ CanDraw(1) /\ next' = next + 1 /\ UNCHANGED <<session, Store, revoked>>
        /\ call' = [call EXCEPT ![c] = [k EXCEPT !.arg = next, !.plan =
                       <<Put("invitation", next, inv), Put("access", h, rec)>>]]
    BY <1>2, <1>3, <1>8, <1>11, <2>1 DEF DoLookup
  <2>3. PICK j \in Id : j = next
    BY <1>6, <2>2, Typed, BoundsAssumption DEF CanDraw, Id
  <2>4. session[c] \in Session /\ b.next \in Id /\ b.access[h] \in Access /\ h \in Handle
    <3>1. session[c] # None
      BY <1>2 DEF StepTypes, CallsTyped
    <3>2. session[c] \in Session
      BY <1>6, <3>1, Typed
    <3>3. b.next \in Id /\ b.access[h] \in Access
      <4>1. b.next \in Id
        BY <1>2, <1>8
      <4>2. h = Owned(b, c, f)
        BY <2>1
      <4> QED
        BY <1>2, <1>8, <4>1, <4>2
    <3>4. h = <<session[c].name, f>>
      BY <1>2, <1>3, <2>1 DEF HandleOf
    <3>5. h \in Handle
      BY <3>2, <3>4 DEF Handle, Session
    <3> QED
      BY <3>2, <3>3, <3>5
  <2>5. inv \in Invitation
    BY <2>4 DEF SealedInvitation, Invitation, Session
  <2>6. rec \in Access
    BY <2>4 DEF WithChild, Access, ChildrenMap
  <2> HIDE DEF inv, rec
  <2>7. Put("invitation", j, inv) \in Item /\ Put("access", h, rec) \in Item
    BY <2>4, <2>5, <2>6, PutTyped, ItemKinds
  <2>8. PICK plan \in Seq(Item) : plan = <<Put("invitation", j, inv), Put("access", h, rec)>> /\ plan # << >>
    BY <2>7, ShortPlans
  <2> DEFINE on == [k EXCEPT !.arg = j, !.plan = plan]
  <2>9. on \in CallRecord /\ on.plan = plan /\ on.op = "CreateInvitation" /\ on.filename = f
    BY <1>3, <1>7 DEF CallRecord
  <2>10. call' = [call EXCEPT ![c] = on]
    BY <2>2, <2>3, <2>8
  <2> HIDE DEF on
  <2>11. on.plan = <<Put("invitation", next, SealedInvitation(session[c].name, f, r, b.next)),
                     Put("access", h, WithChild(b.access[h], r, b.next))>>
    BY <2>3, <2>8, <2>9 DEF inv, rec
  <2>12. \E e : Aim(b, c, on, e)' /\ Toward(b, c, on, e)'
    BY <1>6, <1>8, <1>9, <1>11, <2>1, <2>2, <2>9, <2>11, InviteToward
  <2>13. Working(b, c, on)'
    BY <2>8, <2>9, <2>12 DEF Working
  <2> QED
    BY <1>6, <2>9, <2>10, <2>13, GoesOn
<1>12. (account[r] = None /\ Refuse(c)) \/ account[r] # None
  BY <1>2, <1>3 DEF DoLookup
<1>13. account[r] # None => ~Refuse(c)
  <2>1. SUFFICES ASSUME account[r] # None, Refuse(c) PROVE FALSE
    OBVIOUS
  <2>2. next' = next + 1 /\ next' = next
    BY <1>2, <1>3, <2>1 DEF DoLookup, Refuse, vars
  <2>3. next \in Nat
    BY <1>6, Typed
  <2> QED
    BY <2>2, <2>3
<1> QED
  BY <1>10, <1>11, <1>12, <1>13

\* A fault ends the call; what it does to the store may also be its next Set.
LEMMA InterruptedAlone ==
    ASSUME StepTypes, StepTypes', Rebase, BetweenNow', NEW c \in Client,
           \A d \in Client \ {c} : call[d] = None, NEW b, b = base, AloneAt(b), Interrupted(c)
    PROVE  Outcome(c)
<1>1. CASE DoSet(c)
  BY <1>1, DoSetAlone
<1>2. CASE ~DoSet(c)
  <2>1. Alone' /\ base' = Now'
    BY IsOver DEF Interrupted
  <2> QED
    BY <1>2, <2>1 DEF Outcome, CutShort
<1> QED
  BY <1>1, <1>2

\* Whoever takes a step while another call is under way is the caller.
LEMMA OnlyTheCaller ==
    ASSUME Alone, TakeTurns, NEW c \in Client,
           \/ \E u \in User : UserCall(c, u)
           \/ \E f \in Filename : Begin(c, f)
           \/ call[c] # None
    PROVE  \A d \in Client \ {c} : call[d] = None
<1>1. SUFFICES ASSUME NEW d \in Client \ {c}, call[d] # None PROVE FALSE
  OBVIOUS
<1>2. call[c] = None
  BY <1>1 DEF Alone, AloneAt
<1> QED
  BY <1>1, <1>2 DEF TakeTurns

\* Every step of clients that take turns has one of the outcomes of Outcome.
LEMMA StepOutcome ==
    ASSUME StepTypes, StepTypes', IssuedStored, Rebase, BetweenNow', Alone, TakeTurns, StepNext
    PROVE  \E c \in Client : Outcome(c)
<1>1. PICK b : b = base /\ AloneAt(b)
  BY DEF Alone
<1>2. PICK c \in Client :
        \/ \E u \in User : UserCall(c, u)
        \/ \E f \in Filename : Begin(c, f)
        \/ ReadMailbox(c) \/ ReadInode(c)
        \/ DoSet(c) \/ DoFetch(c) \/ DoLookup(c)
        \/ Interrupted(c)
  BY SMTT(30) DEF StepNext, TakeTurns
<1>3. \A d \in Client \ {c} : call[d] = None
  BY <1>2, OnlyTheCaller
     DEF ReadMailbox, ReadInode, Reading, DoSet, DoFetch, DoLookup, Planned, Interrupted
<1>4. ASSUME NEW u \in User, UserCall(c, u) PROVE Outcome(c)
  BY <1>1, <1>3, <1>4, UserCallAlone
<1>5. ASSUME NEW f \in Filename, Begin(c, f) PROVE Outcome(c)
  <2>1. ASSUME NEW content \in Content, BeginStore(c, f, content) PROVE Outcome(c)
    BY <1>1, <1>3, <2>1, BeginStoreAlone
  <2>2. ASSUME NEW content \in Content, BeginOnAccess(c, "AppendToFile", f, content, Len(content))
        PROVE  Outcome(c)
    <3>1. PICK n : n = Len(content)
      OBVIOUS
    <3> QED
      BY <1>1, <1>3, <2>2, <3>1, BeginOnAccessAlone
  <2>3. ASSUME NEW r \in User, NEW o \in {"CreateInvitation", "RevokeAccess"},
               BeginOnAccess(c, o, f, r, 2)
        PROVE  Outcome(c)
    BY <1>1, <1>3, <2>3, BeginOnAccessAlone
  <2>4. ASSUME NEW s \in User, NEW j \in issued, BeginAccept(c, s, j, f) PROVE Outcome(c)
    BY <1>1, <1>3, <2>4, BeginAcceptAlone
  <2> QED
    BY <1>5, <2>1, <2>2, <2>3, <2>4 DEF Begin
<1>6. ReadMailbox(c) => Outcome(c)
  BY <1>1, <1>3, ReadMailboxAlone
<1>7. ReadInode(c) => Outcome(c)
  BY <1>1, <1>3, ReadInodeAlone
<1>8. DoSet(c) => Outcome(c)
  BY <1>1, <1>3, DoSetAlone
<1>9. DoFetch(c) => Outcome(c)
  BY <1>1, <1>3, DoFetchAlone
<1>10. DoLookup(c) => Outcome(c)
  BY <1>1, <1>3, DoLookupAlone
<1>11. Interrupted(c) => Outcome(c)
  BY <1>1, <1>3, InterruptedAlone
<1> QED
  BY <1>2, <1>4, <1>5, <1>6, <1>7, <1>8, <1>9, <1>10, <1>11

\* What is known of the stores at any time is known of them between two calls.
LEMMA NowBetween ==
    ASSUME StepTypes, FreshUnused, BlocksApart, PointeesFirst, TreeShape
    PROVE  BetweenNow
<1>1. PICK n : n = Now
  OBVIOUS
<1>2. /\ n.session = session /\ n.account = account /\ n.access = access /\ n.mailbox = mailbox
      /\ n.inode = inode /\ n.block = block /\ n.invitation = invitation /\ n.next = next
  BY <1>1 DEF Now
<1>3. TypeOK
  BY DEF StepTypes
<1>4. \A h \in Handle : n.access[h] # None =>
           /\ BoxAt(n, h) # None
           /\ \A u \in User : n.access[h].children[u] # None =>
                 /\ n.mailbox[n.access[h].children[u]] # None
                 /\ n.mailbox[n.access[h].children[u]].inode = BoxAt(n, h).inode
  BY <1>2 DEF BoxAt, PointeesFirst, TreeShape, ChildrenShareTheFile
<1>5. Between(n)
  BY <1>2, <1>3, <1>4 DEF Between, TypeOK, FreshUnused, PointeesFirst, BlocksApart
<1> QED
  BY <1>1, <1>5 DEF BetweenNow

\* No call is under way at the start.
LEMMA AloneInit ==
    ASSUME SerialInit, BetweenNow
    PROVE  Alone
<1>1. \A c \in Client : call[c] = None
  BY DEF SerialInit, StepInit
<1>2. PICK n : n = Now /\ Between(n)
  BY DEF BetweenNow
<1> QED
  BY <1>1, <1>2 DEF Alone, AloneAt, SerialInit

\* A stuttering step leaves the call as it is.
LEMMA AloneSame ==
    ASSUME Alone, UNCHANGED <<stepVars, base>>
    PROVE  Alone'
<1>1. PICK b : b = base /\ AloneAt(b)
  BY DEF Alone
<1>2. /\ UNCHANGED <<session, account, access, mailbox, inode, block, invitation, revoked, next>>
      /\ UNCHANGED <<call, base>>
  BY DEF stepVars, vars
<1>3. Now' = Now
  BY <1>2 DEF Now
<1>4. AloneAt(b)'
  <2>1. ASSUME NEW c, NEW k PROVE OnlyRead(b, c, k)' = OnlyRead(b, c, k)
    BY <1>3 DEF OnlyRead
  <2>2. ASSUME NEW c, NEW k, Working(b, c, k) PROVE Working(b, c, k)'
    <3>1. PICK g : Aim(b, c, k, g) /\ Toward(b, c, k, g)
      BY <2>2 DEF Working
    <3>2. Aim(b, c, k, g)'
      BY <1>2, <3>1 DEF Aim, Readable
    <3>3. Toward(b, c, k, g)'
      BY <1>2, <3>1 DEF Toward, StoreNear, Near
    <3> QED
      BY <2>2, <3>2, <3>3 DEF Working
  <2>3. \A c, k : OnlyRead(b, c, k) => OnlyRead(b, c, k)'
    BY <2>1
  <2>4. \A c, k : Working(b, c, k) => Working(b, c, k)'
    BY <2>2
  <2> QED
    BY <1>1, <1>2, <1>3, <2>3, <2>4 DEF AloneAt
<1> QED
  BY <1>1, <1>2, <1>4 DEF Alone

\* The steps of SharingSteps are still its steps with base kept beside them.
LEMMA SerialIsSteps == SerialSpec => StepSpec
<1>1. SerialInit => StepInit
  BY DEF SerialInit
<1>2. [SerialNext]_<<stepVars, base>> => [StepNext]_stepVars
  BY DEF SerialNext
<1> QED
  BY <1>1, <1>2, PTL DEF SerialSpec, StepSpec

\* The state between calls is a state of the invariants, whatever calls overlap.
LEMMA BetweenInvariant == SerialSpec => [](StepTypes /\ IssuedStored /\ BetweenNow)
<1>1. StepTypes /\ (FreshUnused /\ BlocksApart) /\ PointeesFirst /\ TreeShape => BetweenNow
  BY NowBetween
<1> QED
  BY <1>1, SerialIsSteps, StepTypesInvariant, FilesStayApart, ReferencesAreStored, TreeKeepsShape, PTL

\* As long as clients take turns, each call is on its way from the state in which it began
\* to the state in which the call of Sharing ends.
LEMMA AloneInvariant ==
    SerialSpec /\ [][TakeTurns]_<<stepVars, base>> => []Alone
<1>1. SerialInit /\ BetweenNow => Alone
  BY AloneInit
<1>2. /\ Alone /\ StepTypes /\ StepTypes' /\ IssuedStored /\ BetweenNow'
      /\ [SerialNext]_<<stepVars, base>> /\ [TakeTurns]_<<stepVars, base>>
      => Alone'
  <2>1. SUFFICES ASSUME Alone, StepTypes, StepTypes', IssuedStored, BetweenNow',
                        [SerialNext]_<<stepVars, base>>, [TakeTurns]_<<stepVars, base>>
                 PROVE  Alone'
    OBVIOUS
  <2>2. CASE UNCHANGED <<stepVars, base>>
    BY <2>1, <2>2, AloneSame
  <2>3. CASE SerialNext /\ TakeTurns
    <3>1. Rebase /\ StepNext
      BY <2>3 DEF SerialNext, Rebase
    <3> QED
      BY <2>1, <2>3, <3>1, StepOutcome DEF Outcome
  <2> QED
    BY <2>1, <2>2, <2>3
<1> QED
  BY <1>1, <1>2, BetweenInvariant, PTL DEF SerialSpec

\* As long as clients take turns, every call that is not cut short is the atomic call of
\* Sharing, also in whatever state the calls that were cut short have left.
THEOREM CallsTakeOneStep ==
    SerialSpec /\ [][TakeTurns]_<<stepVars, base>> => CallsAreAtomic
<1>1. /\ Alone /\ StepTypes /\ StepTypes' /\ IssuedStored /\ BetweenNow'
      /\ [SerialNext]_<<stepVars, base>> /\ [TakeTurns]_<<stepVars, base>>
      => [(\A c \in Client : ~CutShort(c)) => [Atomic!Next]_base]_<<stepVars, base>>
  <2>1. SUFFICES ASSUME Alone, StepTypes, StepTypes', IssuedStored, BetweenNow', SerialNext, TakeTurns,
                        \A c \in Client : ~CutShort(c)
                 PROVE  [Atomic!Next]_base
    OBVIOUS
  <2>2. Rebase /\ StepNext
    BY <2>1 DEF SerialNext, Rebase
  <2>3. PICK c \in Client : Outcome(c)
    BY <2>1, <2>2, StepOutcome
  <2> QED
    BY <2>1, <2>3 DEF Outcome
<1> QED
  BY <1>1, AloneInvariant, BetweenInvariant, PTL DEF SerialSpec, CallsAreAtomic

(***************************************************************************)
(* What a call that is cut short leaves behind.                             *)
(***************************************************************************)
\* The handle h loads at b.
LoadsAt(b, h) ==
    /\ OpensAt(b, h)
    /\ \A x \in Range(NodeAt(b, h).plain) : decryptAndVerify(b.block[x], BoxAt(b, h).fileKey)

\* Whatever h reads is what it was at b.
Sees(b, h) ==
    /\ access[h] # None /\ access[h].mailbox = b.access[h].mailbox
    /\ mailbox[b.access[h].mailbox] = BoxAt(b, h)
    /\ inode[BoxAt(b, h).inode] = NodeAt(b, h)
    /\ \A x \in Range(NodeAt(b, h).plain) : block[x] = b.block[x]

\* And it is still that in g.
Keeps(b, g, h) ==
    /\ g.access[h] # None /\ g.access[h].mailbox = b.access[h].mailbox
    /\ g.mailbox[b.access[h].mailbox] = BoxAt(b, h)
    /\ g.inode[BoxAt(b, h).inode] = NodeAt(b, h)
    /\ \A x \in Range(NodeAt(b, h).plain) : g.block[x] = b.block[x]

\* Each object is the one of b or the one of g.
Mixed(b, g) ==
    /\ \A h \in Handle : access[h] \in {b.access[h], g.access[h]}
    /\ \A m \in Id : mailbox[m] \in {b.mailbox[m], g.mailbox[m]}
    /\ \A i \in Id : inode[i] \in {b.inode[i], g.inode[i]}
    /\ \A x \in Id : block[x] \in {b.block[x], g.block[x]}

\* A state on the way to g holds, place by place, what b or what g holds.
LEMMA NearMixed ==
    ASSUME NEW b, NEW g, NEW s, StoreNear(b, g, s)
    PROVE  Mixed(b, g)
  BY DEF StoreNear, Near, Mixed

\* LoadsAt says of b what LoadFileSucceeds says of the state between calls.
LEMMA LoadsBefore ==
    ASSUME NEW b, b = base, NEW h
    PROVE  Atomic!LoadFileSucceeds(h) <=> LoadsAt(b, h)
  BY DEF Atomic!LoadFileSucceeds, Atomic!Opens, Atomic!BlocksOpen, Atomic!decryptAndVerify, Atomic!Range,
         LoadsAt, OpensAt, BoxAt, NodeAt, decryptAndVerify, Range

\* What a handle that loads at b leads to was drawn before.
LEMMA SeenIsOld ==
    ASSUME NEW b, Between(b), NEW h \in Handle, LoadsAt(b, h)
    PROVE  /\ b.access[h] \in Access /\ b.access[h].mailbox \in Id /\ b.access[h].mailbox < b.next
           /\ BoxAt(b, h) \in MailboxNode /\ BoxAt(b, h).inode \in Id /\ BoxAt(b, h).inode < b.next
           /\ BoxAt(b, h).fileKey \in Id
           /\ NodeAt(b, h) \in SealedInode /\ NodeAt(b, h).plain \in Seq(Id)
           /\ \A x \in Range(NodeAt(b, h).plain) :
                 x \in Id /\ x < b.next /\ b.block[x] \in SealedBlock
           /\ b.next \in Nat
<1>1. /\ b.access \in [Handle -> Access \cup {None}] /\ b.mailbox \in [Id -> MailboxNode \cup {None}]
      /\ b.inode \in [Id -> SealedInode \cup {None}] /\ b.block \in [Id -> SealedBlock \cup {None}]
      /\ b.next \in Nat
      /\ \A x \in Id : ~(x >= b.next) \/ (b.mailbox[x] = None /\ b.inode[x] = None /\ b.block[x] = None)
  BY DEF Between
<1>2. PICK m : m = b.access[h].mailbox
  OBVIOUS
<1>3. b.access[h] \in Access /\ m \in Id
  BY <1>1, <1>2 DEF LoadsAt, OpensAt, Access
<1>4. PICK box : box = b.mailbox[m] /\ box = BoxAt(b, h) /\ box # None
  BY <1>2 DEF BoxAt, LoadsAt, OpensAt
<1>5. box \in MailboxNode /\ box.inode \in Id /\ box.fileKey \in Id
  BY <1>1, <1>3, <1>4 DEF MailboxNode
<1>6. PICK node : node = b.inode[box.inode] /\ node = NodeAt(b, h) /\ node # None
  BY <1>4 DEF NodeAt, LoadsAt, OpensAt, decryptAndVerify
<1>7. node \in SealedInode /\ node.plain \in Seq(Id)
  BY <1>1, <1>5, <1>6 DEF SealedInode
<1>8. \A x \in Range(node.plain) : x \in Id /\ b.block[x] # None
  BY <1>6, <1>7, IdsOfSeq DEF LoadsAt, decryptAndVerify
<1>9. \A x \in Id : ~(x >= b.next) => x < b.next
  BY <1>1 DEF Id
<1>10. m < b.next /\ box.inode < b.next
  BY <1>1, <1>3, <1>4, <1>5, <1>6, <1>9
<1>11. \A x \in Range(node.plain) : x < b.next /\ b.block[x] \in SealedBlock
  BY <1>1, <1>8, <1>9
<1> QED
  BY <1>1, <1>2, <1>3, <1>4, <1>5, <1>6, <1>7, <1>8, <1>10, <1>11

\* A handle that g keeps sees its old file in any mixture of b and g.
LEMMA MixedSees ==
    ASSUME NEW b, Between(b), NEW g, NEW h \in Handle, LoadsAt(b, h), Keeps(b, g, h), Mixed(b, g)'
    PROVE  Sees(b, h)'
<1>1. /\ b.access[h] # None /\ b.access[h].mailbox \in Id /\ BoxAt(b, h).inode \in Id
      /\ \A x \in Range(NodeAt(b, h).plain) : x \in Id
  BY SeenIsOld DEF LoadsAt, OpensAt
<1>2. access'[h] # None /\ access'[h].mailbox = b.access[h].mailbox
  BY <1>1 DEF Mixed, Keeps
<1>3. mailbox'[b.access[h].mailbox] = BoxAt(b, h)
  <2>1. b.mailbox[b.access[h].mailbox] = BoxAt(b, h)
    BY DEF BoxAt
  <2> QED
    BY <1>1, <2>1 DEF Mixed, Keeps
<1>4. inode'[BoxAt(b, h).inode] = NodeAt(b, h)
  <2>1. b.inode[BoxAt(b, h).inode] = NodeAt(b, h)
    BY DEF NodeAt
  <2> QED
    BY <1>1, <2>1 DEF Mixed, Keeps
<1>5. \A x \in Range(NodeAt(b, h).plain) : block'[x] = b.block[x]
  BY <1>1 DEF Mixed, Keeps
<1> QED
  BY <1>2, <1>3, <1>4, <1>5 DEF Sees

\* Then it loads what it loaded.
LEMMA StillLoads ==
    ASSUME NEW b, b = base, Between(b), NEW h \in Handle, LoadsAt(b, h), Sees(b, h)'
    PROVE  /\ LoadFileSucceeds(h)'
           /\ PlainContent(BoxAt(b, h).inode)' = Atomic!PlainContent(BoxAt(b, h).inode)
<1>1. PICK m \in Id, box \in MailboxNode, node \in SealedInode :
          m = b.access[h].mailbox /\ box = BoxAt(b, h) /\ node = NodeAt(b, h)
  BY SeenIsOld
<1>2. /\ access'[h] # None /\ access'[h].mailbox = m /\ mailbox'[m] = box
      /\ inode'[box.inode] = node /\ \A x \in Range(node.plain) : block'[x] = b.block[x]
  BY <1>1 DEF Sees
<1>3. /\ box # None /\ decryptAndVerify(node, box.fileKey)
      /\ \A x \in Range(node.plain) : decryptAndVerify(b.block[x], box.fileKey)
  BY <1>1 DEF LoadsAt, OpensAt
<1>4. LoadFileSucceeds(h)'
  BY <1>2, <1>3 DEF LoadFileSucceeds, Opens, BlocksOpen
<1>5. PICK i : i = box.inode
  OBVIOUS
<1>6. b.inode[i] = node
  BY <1>1, <1>5 DEF NodeAt
<1>7. \A n \in 1 .. Len(node.plain) : node.plain[n] \in Range(node.plain)
  <2>1. node.plain \in Seq(Id)
    BY DEF SealedInode
  <2> QED
    BY <2>1, LenProperties DEF Range
<1>8. \A n \in 1 .. Len(node.plain) : block'[node.plain[n]] = b.block[node.plain[n]]
  BY <1>2, <1>7
<1>9. PlainContent(i)' = [n \in 1 .. Len(node.plain) |->
          IF decryptAndVerify(block'[node.plain[n]], node.key) THEN block'[node.plain[n]].plain ELSE None]
  BY <1>2, <1>5 DEF PlainContent
<1>10. Atomic!PlainContent(i) = [n \in 1 .. Len(node.plain) |->
          IF decryptAndVerify(b.block[node.plain[n]], node.key) THEN b.block[node.plain[n]].plain ELSE None]
  BY <1>6 DEF Atomic!PlainContent, Atomic!decryptAndVerify, decryptAndVerify
<1>11. PlainContent(i)' = Atomic!PlainContent(i)
  BY <1>8, <1>9, <1>10
<1> QED
  BY <1>1, <1>4, <1>5, <1>11

\* The name a call is about, whether or not its user record is saved.
LEMMA NameStays ==
    ASSUME NEW c \in Client, NEW b, Between(b), NEW f \in Filename, NEW g, NameGoal(b, c, f, g),
           session \in {b.session, g.session}, call[c].filename = f
    PROVE  HandleOf(c) = Owned(b, c, f) /\ Owned(b, c, f) \in Handle
<1>1. b.session[c] \in Session
  BY DEF NameGoal, Between
<1>2. session[c].name = b.session[c].name
  BY DEF NameGoal, Between
<1> QED
  BY <1>1, <1>2 DEF HandleOf, Owned, Handle, Session

\* New blocks are none that a handle reads.
LEMMA NewBlocksAside ==
    ASSUME NEW b, Between(b), NEW h \in Handle, LoadsAt(b, h), NEW first, first >= b.next, first \in Nat,
           NEW content, NEW k, NEW g, BlocksGoal(b, first, content, k, g)
    PROVE  \A x \in Range(NodeAt(b, h).plain) : g.block[x] = b.block[x]
<1>1. SUFFICES ASSUME NEW x \in Range(NodeAt(b, h).plain) PROVE g.block[x] = b.block[x]
  OBVIOUS
<1>2. x \in Id /\ x < b.next /\ b.next \in Nat
  BY <1>1, SeenIsOld
<1>3. x \notin first .. first + Len(content) - 1
  BY <1>2 DEF Id
<1> QED
  BY <1>2, <1>3 DEF BlocksGoal

\* StoreFile keeps every handle but the name it writes.
LEMMA StoreKeeps ==
    ASSUME NEW c, NEW f, NEW content, NEW b, Between(b), NEW g, StoreGoal(b, c, f, content, g),
           NEW h \in Handle, LoadsAt(b, h), h # Owned(b, c, f)
    PROVE  Keeps(b, g, h)
<1>1. PICK m \in Id, i \in Id : m = b.access[h].mailbox /\ i = BoxAt(b, h).inode /\ m < b.next /\ i < b.next
  BY SeenIsOld
<1>2. b.next \in Nat
  BY SeenIsOld
<1>3. g.access[h] = b.access[h] /\ b.access[h] # None
  BY DEF StoreGoal, Between, LoadsAt, OpensAt
<1>4. g.mailbox[m] = b.mailbox[m] /\ g.inode[i] = b.inode[i]
  BY <1>1, <1>2 DEF StoreGoal, Between, Id
<1>5. \A x \in Range(NodeAt(b, h).plain) : g.block[x] = b.block[x]
  <2>1. BlocksGoal(b, b.next + 3, content, b.next, g) /\ b.next + 3 >= b.next /\ b.next + 3 \in Nat
    BY <1>2 DEF StoreGoal
  <2> QED
    BY <2>1, NewBlocksAside
<1> QED
  BY <1>1, <1>3, <1>4, <1>5 DEF Keeps, BoxAt, NodeAt

\* AppendToFile rewrites no block that any handle reads.
LEMMA AppendAside ==
    ASSUME NEW c, NEW f, NEW content, NEW b, Between(b), NEW g, AppendGoal(b, c, f, content, g),
           NEW h \in Handle, LoadsAt(b, h)
    PROVE  \A x \in Range(NodeAt(b, h).plain) : g.block[x] = b.block[x]
<1>1. b.next \in Nat
  BY SeenIsOld
<1>2. BlocksGoal(b, b.next, content, BoxAt(b, Owned(b, c, f)).fileKey, g) /\ b.next >= b.next
  BY <1>1 DEF AppendGoal
<1> QED
  BY <1>1, <1>2, NewBlocksAside

\* AppendToFile keeps the handles of every other file.
LEMMA AppendKeeps ==
    ASSUME NEW c, NEW f, NEW content, NEW b, Between(b), NEW g, AppendGoal(b, c, f, content, g),
           NEW h \in Handle, LoadsAt(b, h), BoxAt(b, h).inode # BoxAt(b, Owned(b, c, f)).inode
    PROVE  Keeps(b, g, h)
<1>1. g.access = b.access /\ g.mailbox = b.mailbox
  BY DEF AppendGoal
<1>2. \A x \in Range(NodeAt(b, h).plain) : g.block[x] = b.block[x]
  BY AppendAside
<1>3. BoxAt(b, h).inode \in Id
  BY SeenIsOld
<1>4. g.inode[BoxAt(b, h).inode] = NodeAt(b, h)
  BY <1>3 DEF AppendGoal, NodeAt, Between
<1> QED
  BY <1>1, <1>2, <1>4 DEF Keeps, BoxAt, LoadsAt, OpensAt

\* CreateInvitation, whether or not it has looked its recipient up.
LEMMA CopyKeeps ==
    ASSUME NEW c \in Client, NEW f \in Filename, NEW b, Between(b), NEW g,
           CopyGoal(b, c, f, g) \/ \E r \in User : InviteGoal(b, c, f, r, g),
           NEW h \in Handle, LoadsAt(b, h)
    PROVE  Keeps(b, g, h)
<1>1. PICK m \in Id : m = b.access[h].mailbox /\ m < b.next /\ b.next \in Nat
  BY SeenIsOld
<1>2. g.inode = b.inode /\ g.block = b.block
  BY DEF CopyGoal, InviteGoal
<1>3. g.mailbox[m] = b.mailbox[m]
  <2>1. g.mailbox = [b.mailbox EXCEPT ![b.next] = BoxAt(b, Owned(b, c, f))]
    BY DEF CopyGoal, InviteGoal
  <2> QED
    BY <1>1, <2>1 DEF Between, Id
<1>4. g.access[h] # None /\ g.access[h].mailbox = m
  <2>1. b.access[h] \in Access /\ b.access[h] # None
    BY SeenIsOld DEF LoadsAt, OpensAt
  <2>2. CASE CopyGoal(b, c, f, g)
    BY <1>1, <2>1, <2>2 DEF CopyGoal
  <2>3. ASSUME NEW r \in User, InviteGoal(b, c, f, r, g) PROVE g.access[h] # None /\ g.access[h].mailbox = m
    <3>1. PICK n \in Id : n = b.next
      BY <1>1, <2>3, BoundsAssumption DEF InviteGoal, Id, Between
    <3>2. WithChild(b.access[h], r, n) \in Access /\ WithChild(b.access[h], r, n).mailbox = m
      BY <1>1, <2>1 DEF WithChild, Access, ChildrenMap
    <3>3. b.access \in [Handle -> Access \cup {None}]
      BY DEF Between
    <3>4. g.access[h] = b.access[h] \/ g.access[h] = WithChild(b.access[h], r, n)
      BY <2>3, <3>1, <3>3 DEF InviteGoal
    <3>5. WithChild(b.access[h], r, n) # None
      BY <3>2, NoneAssumption
    <3> QED
      BY <1>1, <2>1, <3>2, <3>4, <3>5
  <2> QED
    BY <2>2, <2>3
<1> QED
  BY <1>1, <1>2, <1>3, <1>4 DEF Keeps, BoxAt, NodeAt

\* AcceptInvitation keeps every handle but the name it writes.
LEMMA AcceptKeeps ==
    ASSUME NEW c, NEW f, NEW s, NEW j, NEW b, Between(b), NEW g, AcceptGoal(b, c, f, s, j, g),
           NEW h \in Handle, LoadsAt(b, h), h # Owned(b, c, f)
    PROVE  Keeps(b, g, h)
<1>1. g.access[h] = b.access[h] /\ b.access[h] # None
  BY DEF AcceptGoal, Between, LoadsAt, OpensAt
<1>2. g.mailbox = b.mailbox /\ g.inode = b.inode /\ g.block = b.block
  BY DEF AcceptGoal
<1> QED
  BY <1>1, <1>2 DEF Keeps, BoxAt, NodeAt

\* RevokeAccess keeps the handles of every other file.
LEMMA RekeyKeeps ==
    ASSUME NEW c \in Client, NEW f \in Filename, NEW r, NEW b, Between(b), NEW g, RekeyGoal(b, c, f, r, g),
           NEW h \in Handle, LoadsAt(b, h), BoxAt(b, h).inode # BoxAt(b, Owned(b, c, f)).inode
    PROVE  Keeps(b, g, h)
<1>1. PICK m \in Id, i \in Id : m = b.access[h].mailbox /\ i = BoxAt(b, h).inode /\ m < b.next /\ i < b.next
  BY SeenIsOld
<1>2. b.next \in Nat /\ b.access[h] # None
  BY SeenIsOld DEF LoadsAt, OpensAt
<1>3. PICK o \in Handle : o = Owned(b, c, f)
  <2>1. b.session[c] \in Session
    BY DEF RekeyGoal, NameGoal, Between
  <2> QED
    BY <2>1 DEF Owned, Handle, Session
<1>4. PICK box : box = BoxAt(b, o)
  OBVIOUS
<1>5. /\ b.access[o] # None /\ box # None /\ NodeAt(b, o) # None /\ box.inode # i /\ h # o
      /\ NodeAt(b, o) = b.inode[box.inode]
  BY <1>1, <1>3, <1>4 DEF RekeyGoal, OpensAt, decryptAndVerify, NodeAt
<1>6. g.access[h] = b.access[h]
  BY SMTT(30), <1>3, <1>5 DEF RekeyGoal, Between
<1>7. box.inode \in Id
  <2>1. b.access[o] \in Access /\ b.access[o].mailbox \in Id
    BY <1>5 DEF Between, Access
  <2> QED
    BY <1>4, <1>5, <2>1 DEF BoxAt, Between, MailboxNode
<1>8. g.inode[i] = b.inode[i]
  BY <1>1, <1>3, <1>4, <1>5 DEF RekeyGoal, Between
<1>9. g.mailbox[m] = b.mailbox[m]
  <2>1. b.mailbox[m].inode = i
    BY <1>1 DEF BoxAt
  <2>2. m # b.next + 1
    BY <1>1, <1>2 DEF Id
  <2>3. m \notin KeptChildren(b.access[o], r)
    <3>1. SUFFICES ASSUME NEW u \in User, b.access[o].children[u] = m PROVE FALSE
      BY DEF KeptChildren
    <3>2. b.access[o].children[u] # None
      BY <1>1, <3>1, NoneAssumption
    <3>3. b.mailbox[m].inode = BoxAt(b, o).inode
      BY <1>5, <3>1, <3>2 DEF Between
    <3> QED
      BY <1>4, <1>5, <2>1, <3>3
  <2> QED
    BY <1>1, <1>3, <2>2, <2>3 DEF RekeyGoal
<1>10. \A x \in Range(NodeAt(b, h).plain) : g.block[x] = b.block[x]
  <2>1. SUFFICES ASSUME NEW x \in Range(NodeAt(b, h).plain) PROVE g.block[x] = b.block[x]
    OBVIOUS
  <2>2. x \in Id
    BY <2>1, SeenIsOld
  <2>3. b.inode[i] = NodeAt(b, h) /\ b.inode[i] # None
    BY <1>1 DEF NodeAt, LoadsAt, OpensAt, decryptAndVerify
  <2>4. x \notin Range(NodeAt(b, o).plain)
    <3>1. Range(b.inode[i].plain) \cap Range(b.inode[box.inode].plain) = {}
      BY <1>1, <1>5, <1>7, <2>3 DEF Between
    <3> QED
      BY <1>5, <2>1, <2>3, <3>1
  <2> QED
    BY <1>3, <2>2, <2>4 DEF RekeyGoal
<1> QED
  BY <1>1, <1>2, <1>6, <1>8, <1>9, <1>10 DEF Keeps, BoxAt, NodeAt

\* A handle that is not at risk from the call under way.
LEMMA OtherKeeps ==
    ASSUME StepTypes, NEW c \in Client, NEW k \in CallRecord, k = call[c], CallShape(k), k.plan # << >>,
           NEW b, b = base, Between(b), NEW g, Aim(b, c, k, g), Toward(b, c, k, g),
           NEW h \in Handle, LoadsAt(b, h), ~AtRisk(c, h), k.op # "AppendToFile"
    PROVE  Keeps(b, g, h)
<1>1. PICK f \in Filename : f = k.filename /\ f = call[c].filename
  BY DEF CallRecord
<1>2. session \in {b.session, g.session}
  BY DEF Toward
<1>3. CASE k.op = "StoreFile" /\ StoreGoal(b, c, f, k.arg, g)
  <2>1. NameGoal(b, c, f, g)
    BY <1>3 DEF StoreGoal
  <2>2. h # Owned(b, c, f)
    BY <1>1, <1>2, <1>3, <2>1, NameStays DEF AtRisk
  <2> QED
    BY <1>3, <2>2, StoreKeeps
<1>4. CASE CopyGoal(b, c, f, g) \/ \E r \in User : InviteGoal(b, c, f, r, g)
  BY <1>4, CopyKeeps
<1>5. ASSUME k.op = "AcceptInvitation", NEW s \in User, NEW j \in Id, AcceptGoal(b, c, f, s, j, g)
      PROVE  Keeps(b, g, h)
  <2>1. NameGoal(b, c, f, g)
    BY <1>5 DEF AcceptGoal
  <2>2. h # Owned(b, c, f)
    BY <1>1, <1>2, <1>5, <2>1, NameStays DEF AtRisk
  <2> QED
    BY <1>5, <2>2, AcceptKeeps
<1>6. CASE k.op = "RevokeAccess" /\ k.box = BoxAt(b, Owned(b, c, f)) /\ RekeyGoal(b, c, f, k.arg, g)
  <2>1. k.box # None
    BY <1>6 DEF CallShape
  <2>2. BoxAt(b, h).inode # k.box.inode
    BY <1>6, <2>1 DEF AtRisk, BoxAt
  <2> QED
    BY <1>6, <2>2, RekeyKeeps
<1> QED
  BY <1>1, <1>3, <1>4, <1>5, <1>6 DEF Aim

\* The file of an AppendToFile that got as far as its inode.
LEMMA AppendedLoads ==
    ASSUME NEW c \in Client, NEW f \in Filename, NEW content \in Content, NEW b, b = base, Between(b),
           NEW g, AppendGoal(b, c, f, content, g), NEW h \in Handle, LoadsAt(b, h),
           BoxAt(b, h).inode = BoxAt(b, Owned(b, c, f)).inode,
           access'[h] = b.access[h], mailbox'[b.access[h].mailbox] = BoxAt(b, h),
           inode'[BoxAt(b, h).inode] = g.inode[BoxAt(b, h).inode], \A x \in Id : block'[x] = g.block[x]
    PROVE  /\ LoadFileSucceeds(h)'
           /\ PlainContent(BoxAt(b, h).inode)' = Atomic!PlainContent(BoxAt(b, h).inode) \o content
<1>0. \A x \in Range(NodeAt(b, h).plain) : g.block[x] = b.block[x]
  BY AppendAside
<1>1. PICK m \in Id, box \in MailboxNode, node \in SealedInode :
          m = b.access[h].mailbox /\ box = BoxAt(b, h) /\ node = NodeAt(b, h)
  BY SeenIsOld
<1>2. PICK i \in Id, k \in Id : i = box.inode /\ k = box.fileKey
  BY DEF MailboxNode
<1>3. /\ b.access[h] # None /\ box # None /\ node # None /\ node.key = k /\ node = b.inode[i]
      /\ \A x \in Range(node.plain) : b.block[x] # None /\ b.block[x].key = k
  BY <1>1, <1>2 DEF LoadsAt, OpensAt, decryptAndVerify, NodeAt
<1>4. BoxAt(b, Owned(b, c, f)).fileKey = k /\ NodeAt(b, Owned(b, c, f)) = node
  <2>1. NodeAt(b, Owned(b, c, f)) = node
    BY <1>1, <1>2, <1>3 DEF NodeAt
  <2> QED
    BY <1>3, <2>1 DEF AppendGoal, OpensAt, decryptAndVerify
<1>5. PICK n \in Nat \ {0} : n = b.next /\ n + Len(content) <= MaxId + 1
  BY DEF AppendGoal, Between
<1>6. content \in Seq(Chunk) /\ Len(content) \in Nat /\ \A x \in 1 .. Len(content) : content[x] \in Chunk
  BY ContentIsSeq
<1>7. PICK old \in Seq(Id), new \in Seq(Id) :
          /\ old = node.plain /\ new = NewBlocks(n, Len(content)) /\ Len(new) = Len(content)
          /\ (\A x \in 1 .. Len(content) : new[x] = n + x - 1)
          /\ Range(new) = n .. n + Len(content) - 1
  BY ZenonT(60), <1>5, <1>6, NewBlocksProperties DEF SealedInode
<1>8. PICK list \in Seq(Id) : /\ list = old \o new /\ Range(list) = Range(old) \cup Range(new)
                              /\ Len(list) = Len(old) + Len(content)
                              /\ \A x \in 1 .. Len(old) + Len(content) :
                                    list[x] = IF x <= Len(old) THEN old[x] ELSE new[x - Len(old)]
  <2>1. old \o new \in Seq(Id) /\ Range(old \o new) = Range(old) \cup Range(new)
    BY IdsOfConcat
  <2>2. /\ Len(old \o new) = Len(old) + Len(new)
        /\ \A x \in 1 .. Len(old) + Len(new) :
              (old \o new)[x] = IF x <= Len(old) THEN old[x] ELSE new[x - Len(old)]
    BY ConcatProperties
  <2> QED
    BY <1>7, <2>1, <2>2
<1>9. inode'[i] = encryptAndMAC(list, k) /\ inode'[i] # None /\ inode'[i].key = k /\ inode'[i].plain = list
  <2>1. g.inode = [b.inode EXCEPT ![i] = encryptAndMAC(node.plain \o NewBlocks(n, Len(content)), k)]
    BY <1>1, <1>2, <1>4, <1>5 DEF AppendGoal
  <2>2. inode'[i] = encryptAndMAC(list, k)
    BY <1>1, <1>2, <1>7, <1>8, <2>1 DEF Between
  <2>3. encryptAndMAC(list, k) # None /\ encryptAndMAC(list, k).key = k
    BY SealedIsStored
  <2>4. encryptAndMAC(list, k).plain = list
    BY DEF encryptAndMAC
  <2> QED
    BY <2>2, <2>3, <2>4
<1>10. \A x \in Range(old) : x \in Id /\ block'[x] = b.block[x] /\ b.block[x] \in SealedBlock
  <2>1. \A x \in Range(old) : x \in Id /\ b.block[x] \in SealedBlock
    BY <1>1, <1>7, SeenIsOld
  <2>2. \A x \in Range(old) : g.block[x] = b.block[x]
    BY <1>0, <1>1, <1>7
  <2> QED
    BY <2>1, <2>2
<1>11. \A x \in 1 .. Len(content) :
          /\ n + x - 1 \in Id /\ block'[n + x - 1] = encryptAndMAC(content[x], k)
          /\ encryptAndMAC(content[x], k) # None
  <2>1. SUFFICES ASSUME NEW x \in 1 .. Len(content)
                 PROVE  /\ n + x - 1 \in Id /\ block'[n + x - 1] = encryptAndMAC(content[x], k)
                        /\ encryptAndMAC(content[x], k) # None
    OBVIOUS
  <2>2. n + x - 1 \in Id /\ n + x - 1 \in n .. n + Len(content) - 1 /\ (n + x - 1) - n + 1 = x
    <3>1. PICK L \in Nat : L = Len(content) /\ x \in 1 .. L /\ n + L <= MaxId + 1
      BY <1>5, <1>6, <2>1
    <3>2. n + x - 1 \in Id /\ n + x - 1 \in n .. n + L - 1 /\ (n + x - 1) - n + 1 = x
      BY <3>1, BoundsAssumption DEF Id
    <3> QED
      BY <3>1, <3>2
  <2>3. g.block[n + x - 1] = encryptAndMAC(content[x], k)
    <3>1. g.block = [y \in Id |-> IF y \in n .. n + Len(content) - 1
                                  THEN encryptAndMAC(content[y - n + 1], k) ELSE b.block[y]]
      BY <1>4, <1>5 DEF AppendGoal, BlocksGoal
    <3> QED
      BY <2>2, <3>1
  <2>4. encryptAndMAC(content[x], k) \in SealedBlock
    BY <1>6, <2>1 DEF encryptAndMAC, SealedBlock
  <2> QED
    BY <2>2, <2>3, <2>4, NoneAssumption
<1>12. \A x \in Range(list) : decryptAndVerify(block'[x], k)
  <2>1. \A x \in Range(old) : decryptAndVerify(block'[x], k)
    BY <1>3, <1>7, <1>10 DEF decryptAndVerify
  <2>2. ASSUME NEW x \in Range(new) PROVE decryptAndVerify(block'[x], k)
    <3>1. x - n + 1 \in 1 .. Len(content) /\ n + (x - n + 1) - 1 = x
      BY <1>6, <1>7, <2>2
    <3>2. PICK y \in 1 .. Len(content) : n + y - 1 = x
      BY <3>1
    <3>3. block'[x] = encryptAndMAC(content[y], k) /\ encryptAndMAC(content[y], k) # None
      BY <1>11, <3>2
    <3>4. encryptAndMAC(content[y], k).key = k
      BY DEF encryptAndMAC
    <3> QED
      BY <3>3, <3>4 DEF decryptAndVerify
  <2> QED
    BY <1>8, <2>1, <2>2
<1>13. LoadFileSucceeds(h)'
  <2>1. access'[h] # None /\ access'[h].mailbox = m /\ mailbox'[m] = box
    BY <1>1, <1>3
  <2>2. box # None /\ decryptAndVerify(inode'[box.inode], box.fileKey)
    BY <1>2, <1>3, <1>9 DEF decryptAndVerify
  <2>3. \A x \in Range(inode'[box.inode].plain) : decryptAndVerify(block'[x], box.fileKey)
    BY <1>2, <1>9, <1>12
  <2> QED
    BY <2>1, <2>2, <2>3 DEF LoadFileSucceeds, Opens, BlocksOpen
<1>14. /\ \A x \in 1 .. Len(old) : old[x] \in Range(old)
       /\ \A x \in 1 .. Len(list) : list[x] \in Range(list)
       /\ Len(old) \in Nat
  BY LenProperties DEF Range
<1>15. PICK was \in Seq(Chunk) : /\ was = Atomic!PlainContent(i) /\ Len(was) = Len(old)
                                 /\ \A x \in 1 .. Len(old) : was[x] = b.block[old[x]].plain
  <2>1. Atomic!PlainContent(i) = [x \in 1 .. Len(old) |->
            IF decryptAndVerify(b.block[old[x]], node.key) THEN b.block[old[x]].plain ELSE None]
    BY <1>3, <1>7 DEF Atomic!PlainContent, Atomic!decryptAndVerify, decryptAndVerify
  <2>2. \A x \in 1 .. Len(old) : /\ decryptAndVerify(b.block[old[x]], node.key)
                                 /\ b.block[old[x]].plain \in Chunk
    BY <1>3, <1>7, <1>10, <1>14 DEF decryptAndVerify, SealedBlock
  <2>3. Atomic!PlainContent(i) = [x \in 1 .. Len(old) |-> b.block[old[x]].plain]
    BY <2>1, <2>2
  <2>4. [x \in 1 .. Len(old) |-> b.block[old[x]].plain] \in [1 .. Len(old) -> Chunk]
    BY <2>2
  <2>5. Atomic!PlainContent(i) \in Seq(Chunk) /\ Len(Atomic!PlainContent(i)) = Len(old)
    BY <1>14, <2>3, <2>4, SeqDef
  <2> QED
    BY <2>3, <2>5
<1>16. /\ was \o content \in Seq(Chunk) /\ Len(was \o content) = Len(old) + Len(content)
       /\ \A x \in 1 .. Len(old) + Len(content) :
             (was \o content)[x] = IF x <= Len(old) THEN was[x] ELSE content[x - Len(old)]
  <2>1. PICK s \in Seq(Chunk) : s = content
    BY <1>6
  <2>2. /\ was \o s \in Seq(Chunk) /\ Len(was \o s) = Len(was) + Len(s)
        /\ \A x \in 1 .. Len(was) + Len(s) :
              (was \o s)[x] = IF x <= Len(was) THEN was[x] ELSE s[x - Len(was)]
    BY ConcatProperties
  <2> QED
    BY <1>15, <2>1, <2>2
<1>17. PlainContent(i)' = [x \in 1 .. Len(old) + Len(content) |->
           IF decryptAndVerify(block'[list[x]], k) THEN block'[list[x]].plain ELSE None]
  BY <1>8, <1>9 DEF PlainContent
<1>18. PlainContent(i)' = [x \in 1 .. Len(old) + Len(content) |-> block'[list[x]].plain]
  BY <1>8, <1>12, <1>14, <1>17
<1>19. ASSUME NEW x \in 1 .. Len(old) + Len(content) PROVE block'[list[x]].plain = (was \o content)[x]
  <2>1. CASE x <= Len(old)
    <3>1. x \in 1 .. Len(old)
      BY <1>14, <2>1
    <3>2. block'[list[x]] = b.block[old[x]]
      BY <1>8, <1>10, <1>14, <2>1, <3>1
    <3> QED
      BY <1>15, <1>16, <2>1, <3>1, <3>2
  <2>2. CASE ~(x <= Len(old))
    <3>1. PICK y \in 1 .. Len(content) : y = x - Len(old)
      <4>1. PICK L \in Nat, o \in Nat : L = Len(content) /\ o = Len(old) /\ x \in 1 .. o + L /\ ~(x <= o)
        BY <1>6, <1>14, <1>19, <2>2
      <4>2. x - o \in 1 .. L
        BY <4>1
      <4> QED
        BY <4>1, <4>2
    <3>2. list[x] = n + y - 1
      BY <1>7, <1>8, <2>2, <3>1
    <3>3. block'[list[x]] = encryptAndMAC(content[y], k)
      BY <1>11, <3>2
    <3>4. block'[list[x]].plain = content[y]
      BY <3>3 DEF encryptAndMAC
    <3> QED
      BY <1>16, <2>2, <3>1, <3>4
  <2> QED
    BY <2>1, <2>2
<1>20. was \o content = [x \in 1 .. Len(old) + Len(content) |-> (was \o content)[x]]
  <2>1. PICK s \in Seq(Chunk) : s = was \o content /\ Len(s) = Len(old) + Len(content)
    BY <1>16
  <2>2. s = [x \in 1 .. Len(s) |-> s[x]]
    BY <2>1, LenProperties
  <2> QED
    BY <2>1, <2>2
<1>21. PlainContent(i)' = was \o content
  BY <1>18, <1>19, <1>20
<1> QED
  BY <1>1, <1>2, <1>13, <1>15, <1>21

\* A call that is cut short does at most its next Set.
LEMMA CutShortStore ==
    ASSUME NEW c \in Client, CutShort(c)
    PROVE  /\ call[c] # None
           /\ UNCHANGED Store \/ (Planned(c, "set") /\ Write(Head(call[c].plan)))
<1>1. CASE Interrupted(c)
  BY <1>1 DEF Interrupted, Store
<1>2. CASE Planned(c, "fetch") /\ Refuse(c)
  BY <1>2 DEF Planned, Refuse, vars, Store
<1> QED
  BY <1>1, <1>2 DEF CutShort

\* The one Set a call may still do when it is cut short keeps it on the way.
LEMMA CutShortNear ==
    ASSUME StepTypes, NEW c \in Client, NEW k \in CallRecord, k = call[c], k.plan # << >>,
           NEW b, NEW g, Toward(b, c, k, g), Planned(c, "set"), Write(Head(k.plan))
    PROVE  StoreNear(b, g, Tail(k.plan))'
<1>1. PICK s \in Seq(Item) : s = k.plan /\ s # << >>
  BY DEF CallRecord
<1>2. PICK p \in Item : p = Head(s) /\ p \in Range(s) /\ p.kind = "set"
  BY <1>1, HeadAndTail DEF Planned
<1>3. Carries(g, p) /\ StoreNear(b, g, s)
  BY <1>1, <1>2 DEF Toward, Leads
<1>4. TypeOK /\ Write(p)
  BY <1>1, <1>2 DEF StepTypes
<1>5. StoreNear(b, g, Tail(s))'
  BY <1>1, <1>2, <1>3, <1>4, WriteNear
<1> QED
  BY <1>1, <1>5

\* A call that is cut short leaves a mixture of b and its goal.
LEMMA CutShortMixed ==
    ASSUME StepTypes, NEW c \in Client, NEW k \in CallRecord, k = call[c], k.plan # << >>,
           NEW b, NEW g, Toward(b, c, k, g), CutShort(c)
    PROVE  Mixed(b, g)'
<1>1. CASE UNCHANGED Store
  <2>1. Mixed(b, g)
    BY NearMixed DEF Toward
  <2> QED
    BY <1>1, <2>1 DEF Mixed, Store
<1>2. CASE Planned(c, "set") /\ Write(Head(call[c].plan))
  <2>1. PICK t : t = Tail(k.plan)
    OBVIOUS
  <2>2. StoreNear(b, g, Tail(k.plan))'
    BY <1>2, CutShortNear
  <2>3. StoreNear(b, g, t)'
    BY <2>1, <2>2
  <2> QED
    BY <2>3 DEF StoreNear, Near, Mixed
<1> QED
  BY <1>1, <1>2, CutShortStore

Landed(g) == \A x \in Id : inode[x] = g.inode[x] /\ block[x] = g.block[x]

\* AppendToFile either has not written its inode, or has written everything.
LEMMA CutShortAppend ==
    ASSUME StepTypes, NEW c \in Client, NEW k \in CallRecord, k = call[c], k.plan # << >>,
           InodeLast(k.plan), NEW b, NEW g, Toward(b, c, k, g), CutShort(c), inode' # inode
    PROVE  Landed(g)'
<1>1. CASE UNCHANGED Store
  BY <1>1 DEF Store
<1>2. CASE Planned(c, "set") /\ Write(Head(call[c].plan))
  <2>1. CASE Head(k.plan).store # "inode"
    BY <1>2, <2>1 DEF Write
  <2>2. CASE Head(k.plan).store = "inode"
    <3>1. Tail(k.plan) = << >>
      BY <2>2, InodeLastTail DEF CallRecord
    <3>2. StoreNear(b, g, << >>)'
      BY <1>2, <3>1, CutShortNear
    <3>3. Range(<< >>) = {}
      BY DEF Range
    <3> QED
      BY <3>2, <3>3 DEF StoreNear, Near, Landed
  <2> QED
    BY <2>1, <2>2
<1> QED
  BY <1>1, <1>2, CutShortStore

\* A handle that loaded and is not at risk still loads when the call is cut short.
LEMMA CutShortIsLocal ==
    ASSUME StepTypes, NEW c \in Client, NEW b, b = base, AloneAt(b), CutShort(c),
           NEW h \in Handle, LoadsAt(b, h), ~AtRisk(c, h), NEW i, i = BoxAt(b, h).inode
    PROVE  /\ LoadFileSucceeds(h)'
           /\ \/ PlainContent(i)' = Atomic!PlainContent(i)
              \/ /\ call[c].op = "AppendToFile"
                 /\ PlainContent(i)' = Atomic!PlainContent(i) \o call[c].arg
<1>1. Between(b) /\ call[c] # None
  BY CutShortStore DEF AloneAt
<1>2. SUFFICES ASSUME ~Sees(b, h)'
               PROVE  /\ call[c].op = "AppendToFile" /\ LoadFileSucceeds(h)'
                      /\ PlainContent(i)' = Atomic!PlainContent(i) \o call[c].arg
  BY <1>1, StillLoads
<1>3. call[c].plan # << >>
  <2>1. SUFFICES ASSUME call[c].plan = << >> PROVE Sees(b, h)'
    BY <1>2
  <2>2. UNCHANGED Store
    BY <2>1, CutShortStore DEF Planned
  <2>3. b = Now
    <3>1. PICK k : k = call[c] /\ (OnlyRead(b, c, k) \/ Working(b, c, k))
      BY <1>1 DEF AloneAt
    <3>2. ~Working(b, c, k)
      BY <2>1, <3>1 DEF Working
    <3> QED
      BY <3>1, <3>2 DEF OnlyRead
  <2>4. b.access = access /\ b.mailbox = mailbox /\ b.inode = inode /\ b.block = block
    BY <2>3 DEF Now
  <2>5. UNCHANGED <<access, mailbox, inode, block>>
    BY <2>2 DEF Store
  <2>6. access'[h] = b.access[h] /\ access'[h] # None
    BY <2>4, <2>5 DEF LoadsAt, OpensAt
  <2>7. mailbox'[b.access[h].mailbox] = BoxAt(b, h)
    BY <2>4, <2>5 DEF BoxAt
  <2>8. inode'[BoxAt(b, h).inode] = NodeAt(b, h)
    BY <2>4, <2>5 DEF NodeAt
  <2>9. \A x \in Range(NodeAt(b, h).plain) : block'[x] = b.block[x]
    BY <2>4, <2>5
  <2> QED
    BY <2>6, <2>7, <2>8, <2>9 DEF Sees
<1>4. PICK k \in CallRecord : /\ k = call[c] /\ k.plan # << >> /\ CallShape(k)
                              /\ \E g : Aim(b, c, k, g) /\ Toward(b, c, k, g)
  BY <1>1, <1>3, WorkingAt
<1>5. PICK g : Aim(b, c, k, g) /\ Toward(b, c, k, g)
  BY <1>4
<1>6. Mixed(b, g)'
  BY <1>4, <1>5, CutShortMixed
<1>7. ~Keeps(b, g, h)
  BY <1>1, <1>2, <1>6, MixedSees
<1>8. k.op = "AppendToFile"
  BY <1>1, <1>4, <1>5, <1>7, OtherKeeps
<1>9. PICK f \in Filename, content \in Content : f = k.filename /\ content = k.arg
  BY <1>4, <1>8 DEF CallRecord, CallShape
<1>10. AppendGoal(b, c, f, content, g) /\ inode = b.inode /\ InodeLast(k.plan)
  BY <1>5, <1>8, <1>9 DEF Aim
<1>11. BoxAt(b, h).inode = BoxAt(b, Owned(b, c, f)).inode
  BY <1>1, <1>7, <1>10, AppendKeeps
<1>12. PICK m \in Id : m = b.access[h].mailbox /\ i \in Id /\ \A x \in Range(NodeAt(b, h).plain) : x \in Id
  BY <1>1, SeenIsOld
<1>13. access'[h] = b.access[h] /\ mailbox'[m] = b.mailbox[m]
  BY <1>6, <1>10, <1>12 DEF Mixed, AppendGoal
<1>14. mailbox'[b.access[h].mailbox] = BoxAt(b, h)
  BY <1>12, <1>13 DEF BoxAt
<1>15. inode' # b.inode
  <2>1. SUFFICES ASSUME inode' = b.inode PROVE Sees(b, h)'
    BY <1>2
  <2>2. \A x \in Range(NodeAt(b, h).plain) : g.block[x] = b.block[x]
    BY <1>1, <1>10, AppendAside
  <2>3. \A x \in Range(NodeAt(b, h).plain) : block'[x] = b.block[x]
    BY <1>6, <1>12, <2>2 DEF Mixed
  <2>4. access'[h] # None
    BY <1>13 DEF LoadsAt, OpensAt
  <2>5. inode'[BoxAt(b, h).inode] = NodeAt(b, h)
    BY <2>1 DEF NodeAt
  <2> QED
    BY <1>13, <1>14, <2>3, <2>4, <2>5 DEF Sees
<1>16. \A x \in Id : inode'[x] = g.inode[x] /\ block'[x] = g.block[x]
  <2>1. inode' # inode
    BY <1>10, <1>15
  <2>2. k = call[c] /\ k.plan # << >> /\ InodeLast(k.plan) /\ Toward(b, c, k, g)
    BY <1>4, <1>5, <1>10
  <2>3. Landed(g)'
    BY <2>1, <2>2, CutShortAppend
  <2> QED
    BY <2>3 DEF Landed
<1>17. inode'[BoxAt(b, h).inode] = g.inode[BoxAt(b, h).inode]
  BY <1>12, <1>16
<1>18. LoadFileSucceeds(h)' /\ PlainContent(i)' = Atomic!PlainContent(i) \o content
  BY <1>1, <1>10, <1>11, <1>13, <1>14, <1>16, <1>17, AppendedLoads
<1> QED
  BY <1>4, <1>8, <1>9, <1>18

\* As long as clients take turns, a call that is cut short harms nothing but the file it
\* was replacing or re-keying, whatever earlier calls that were cut short have left.
THEOREM InterruptionStaysLocal ==
    SerialSpec /\ [][TakeTurns]_<<stepVars, base>> => InterruptionIsLocal
<1>1. ASSUME Alone, StepTypes, NEW c \in Client, CutShort(c), NEW h \in Handle,
             Atomic!LoadFileSucceeds(h), ~AtRisk(c, h)
      PROVE  /\ LoadFileSucceeds(h)'
             /\ \A i \in {base.mailbox[base.access[h].mailbox].inode} :
                   \/ PlainContent(i)' = Atomic!PlainContent(i)
                   \/ /\ call[c].op = "AppendToFile"
                      /\ PlainContent(i)' = Atomic!PlainContent(i) \o call[c].arg
  <2>1. PICK b : b = base /\ AloneAt(b)
    BY <1>1 DEF Alone
  <2>2. LoadsAt(b, h)
    BY <1>1, <2>1, LoadsBefore
  <2>3. PICK i : i = BoxAt(b, h).inode /\ i = base.mailbox[base.access[h].mailbox].inode
    BY <2>1 DEF BoxAt
  <2> QED
    BY <1>1, <2>1, <2>2, <2>3, CutShortIsLocal
<1>2. Alone /\ StepTypes =>
      [\A c \in Client : CutShort(c) =>
          \A h \in Handle : Atomic!LoadFileSucceeds(h) /\ ~AtRisk(c, h) =>
             /\ LoadFileSucceeds(h)'
             /\ \A i \in {base.mailbox[base.access[h].mailbox].inode} :
                   \/ PlainContent(i)' = Atomic!PlainContent(i)
                   \/ /\ call[c].op = "AppendToFile"
                      /\ PlainContent(i)' = Atomic!PlainContent(i) \o call[c].arg
      ]_<<stepVars, base>>
  BY <1>1
<1> QED
  BY <1>2, AloneInvariant, BetweenInvariant, PTL DEF InterruptionIsLocal
\* A Set is late only where one can be.
LEMMA NothingIsLate ==
    ASSUME "late" \notin Fault
    PROVE  SerialSpec => [](\A c \in Client : late[c] = None)
<1>1. SerialInit => \A c \in Client : late[c] = None
  BY DEF SerialInit, StepInit
<1>2. (\A c \in Client : late[c] = None) /\ [SerialNext]_<<stepVars, base>>
      => (\A c \in Client : late[c] = None)'
  <2>1. SUFFICES ASSUME \A c \in Client : late[c] = None, [SerialNext]_<<stepVars, base>>
                 PROVE  late' = late
    OBVIOUS
  <2>2. CASE UNCHANGED <<stepVars, base>>
    BY <2>2 DEF stepVars
  <2>3. CASE StepNext
    <3>1. PICK c \in Client :
              \/ \E u \in User : UserCall(c, u)
              \/ \E f \in Filename : Begin(c, f)
              \/ ReadMailbox(c) \/ ReadInode(c)
              \/ DoSet(c) \/ DoFetch(c) \/ DoLookup(c)
              \/ Interrupted(c) \/ LateEffect(c)
      BY <2>3 DEF StepNext
    <3>2. Refuse(c) => late' = late
      BY DEF Refuse
    <3>3. (\E u \in User : UserCall(c, u)) => late' = late
      BY DEF UserCall
    <3>4. (\E f \in Filename : Begin(c, f)) => late' = late
      BY DEF Begin, BeginStore, BeginAccept, BeginOnAccess
    <3>5. ReadMailbox(c) => late' = late
      BY <3>2 DEF ReadMailbox
    <3>6. ReadInode(c) => late' = late
      BY <3>2 DEF ReadInode
    <3>7. DoSet(c) => late' = late
      BY DEF DoSet
    <3>8. DoFetch(c) => late' = late
      BY <3>2 DEF DoFetch
    <3>9. DoLookup(c) => late' = late
      BY <3>2 DEF DoLookup
    <3>10. Interrupted(c) => late' = late
      BY DEF Interrupted
    <3>11. ~LateEffect(c)
      BY <2>1 DEF LateEffect
    <3> QED
      BY <3>1, <3>3, <3>4, <3>5, <3>6, <3>7, <3>8, <3>9, <3>10, <3>11
  <2> QED
    BY <2>1, <2>2, <2>3 DEF SerialNext
<1> QED
  BY <1>1, <1>2, PTL DEF SerialSpec

\* One client whose Sets are never late takes turns with nobody: whatever fails and
\* whenever its process dies, its calls are the atomic calls of Sharing or are local.
THEOREM OneClientIsSerial ==
    ASSUME \A c, d \in Client : c = d, "late" \notin Fault
    PROVE  SerialSpec => CallsAreAtomic /\ InterruptionIsLocal
<1>1. (\A c \in Client : late[c] = None) => [TakeTurns]_<<stepVars, base>>
  BY DEF TakeTurns, LateEffect
<1> QED
  BY <1>1, NothingIsLate, CallsTakeOneStep, InterruptionStaysLocal, PTL
=============================================================================
