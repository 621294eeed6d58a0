------------------------- MODULE SharingStepsProofs -------------------------
(***************************************************************************)
(* Proofs about the service calls one storage operation at a time, for      *)
(* every number of clients, whatever overlaps, fails, dies or lands late.   *)
(* In turn: types, what blocks and files show, the order in which objects   *)
(* are stored, the sharing tree, and that files share no block.             *)
(***************************************************************************)
EXTENDS SharingSteps, SharingProofs, FiniteSetTheorems

(***************************************************************************)
(* Plans.                                                                   *)
(***************************************************************************)
\* CreateInvitation reads, stores the mailbox it makes, looks its recipient up, and
\* stores the invitation and its access record.
InvitationShape(k) ==
    \/ k.plan = << >> /\ k.arg \in User /\ k.box = None
    \/ /\ k.made \in Id /\ k.arg \in User
       /\ k.plan \in {<<Put("mailbox", k.made, k.box), Lookup(k.arg)>>, <<Lookup(k.arg)>>}
    \/ /\ k.made \in Id /\ k.arg \in Id
       /\ \E p, q \in SetItem : /\ p.store = "invitation" /\ p.at = k.arg
                                /\ k.plan \in {<<p, q>>, <<q>>}

\* How far a call can be.
CallShape(k) ==
    \/ /\ k.op \in {"StoreFile", "AcceptInvitation"}
       /\ k.plan # << >> /\ Range(k.plan) \subseteq SetItem
    \/ /\ k.op = "AppendToFile" /\ k.arg \in Content /\ k.access \in Access
       /\ Range(k.plan) \subseteq SetItem
    \/ /\ k.op = "RevokeAccess" /\ k.arg \in User /\ k.access \in Access
       /\ Range(k.plan) \subseteq SetItem \cup FetchItem
       /\ k.plan # << >> => k.box # None
    \/ k.op = "CreateInvitation" /\ k.access \in Access /\ InvitationShape(k)

\* The inductive strengthening of StepTypeOK.
CallsTyped ==
    /\ call \in [Client -> CallRecord \cup {None}]
    /\ late \in [Client -> SetItem \cup {None}]
    /\ \A c \in Client : call[c] # None => session[c] # None /\ CallShape(call[c])
    /\ issued \subseteq Id
    /\ batch \subseteq SUBSET Id

\* The pointers CreateInvitation returned, or is about to return, lead to invitations.
IssuedStored ==
    /\ \A j \in issued : invitation[j] # None
    /\ \A c \in Client : call[c] # None /\ call[c].op = "CreateInvitation" =>
          \A q \in SetItem : call[c].plan = <<q>> => invitation[call[c].arg] # None

StepTypes == TypeOK /\ CallsTyped

(***************************************************************************)
(* Sequences.                                                               *)
(***************************************************************************)
\* The elements of a concatenation are those of its parts.
LEMMA ElementsOfConcat ==
    ASSUME NEW S, NEW s \in Seq(S), NEW t \in Seq(S)
    PROVE  /\ s \o t \in Seq(S)
           /\ Len(s \o t) = Len(s) + Len(t) /\ Len(s) \in Nat /\ Len(t) \in Nat
           /\ Range(s \o t) = Range(s) \cup Range(t)
<1>1. /\ s \o t \in Seq(S)
      /\ Len(s \o t) = Len(s) + Len(t)
      /\ \A n \in 1 .. Len(s) + Len(t) : (s \o t)[n] =
             IF n <= Len(s) THEN s[n] ELSE t[n - Len(s)]
  BY ConcatProperties
<1>2. /\ Len(s) \in Nat /\ DOMAIN s = 1 .. Len(s)
      /\ Len(t) \in Nat /\ DOMAIN t = 1 .. Len(t)
      /\ DOMAIN (s \o t) = 1 .. Len(s) + Len(t)
  BY <1>1, LenProperties
<1>3. ASSUME NEW n \in DOMAIN s PROVE s[n] \in Range(s \o t)
  BY <1>1, <1>2, (s \o t)[n] = s[n] DEF Range
<1>4. ASSUME NEW n \in DOMAIN t PROVE t[n] \in Range(s \o t)
  <2>1. Len(s) + n \in DOMAIN (s \o t) /\ (s \o t)[Len(s) + n] = t[n]
    BY <1>1, <1>2
  <2> QED
    BY <2>1 DEF Range
<1>5. ASSUME NEW n \in DOMAIN (s \o t) PROVE (s \o t)[n] \in Range(s) \cup Range(t)
  <2>1. CASE n <= Len(s)
    BY <1>1, <1>2, <2>1 DEF Range
  <2>2. CASE ~(n <= Len(s))
    <3>1. n - Len(s) \in DOMAIN t /\ (s \o t)[n] = t[n - Len(s)]
      BY <1>1, <1>2, <2>2
    <3> QED
      BY <3>1 DEF Range
  <2> QED
    BY <2>1, <2>2
<1> QED
  BY <1>1, <1>2, <1>3, <1>4, <1>5 DEF Range

\* Plans put together from two and from three parts.
LEMMA JoinedPlans ==
    ASSUME NEW s \in Seq(Item), NEW t \in Seq(Item), NEW w \in Seq(Item)
    PROVE  /\ s \o t \in Seq(Item) /\ Range(s \o t) = Range(s) \cup Range(t)
           /\ s \o t \o w \in Seq(Item)
           /\ Range(s \o t \o w) = Range(s) \cup Range(t) \cup Range(w)
           /\ s # << >> \/ t # << >> => s \o t # << >>
           /\ s # << >> \/ t # << >> \/ w # << >> => s \o t \o w # << >>
<1>1. PICK v \in Seq(Item) : /\ v = s \o t /\ Range(v) = Range(s) \cup Range(t)
                             /\ Len(v) = Len(s) + Len(t)
  BY ElementsOfConcat
<1>2. PICK z \in Seq(Item) : /\ z = v \o w /\ Range(z) = Range(v) \cup Range(w)
                             /\ Len(z) = Len(v) + Len(w)
  BY ElementsOfConcat
<1>3. \A q \in Seq(Item) : Len(q) \in Nat /\ (q # << >> <=> Len(q) # 0)
  BY LenProperties, EmptySeq
<1>4. s # << >> \/ t # << >> => v # << >>
  BY <1>1, <1>3
<1>5. v # << >> \/ w # << >> => z # << >>
  BY <1>2, <1>3
<1> QED
  BY <1>1, <1>2, <1>4, <1>5

\* The elements of a sequence are in the set it is a sequence over, and the other way.
LEMMA ElementsOfSeq ==
    ASSUME NEW S, NEW s \in Seq(S)
    PROVE  /\ Range(s) \subseteq S
           /\ \A T : Range(s) \subseteq T => s \in Seq(T)
<1>1. Len(s) \in Nat /\ DOMAIN s = 1 .. Len(s) /\ s \in [1 .. Len(s) -> S]
  BY LenProperties
<1>2. Range(s) \subseteq S
  BY <1>1 DEF Range
<1>3. ASSUME NEW T, Range(s) \subseteq T PROVE s \in Seq(T)
  <2>1. s \in [1 .. Len(s) -> T]
    BY <1>1, <1>3 DEF Range
  <2> QED
    BY <1>1, <2>1, SeqDef
<1> QED
  BY <1>2, <1>3

\* The first element of a plan, and what is left after it.
LEMMA HeadAndTail ==
    ASSUME NEW S, NEW s \in Seq(S), s # << >>
    PROVE  /\ Head(s) \in S /\ Head(s) \in Range(s)
           /\ Tail(s) \in Seq(S) /\ Range(Tail(s)) \subseteq Range(s)
<1>1. /\ Head(s) \in S /\ Tail(s) \in Seq(S) /\ Len(Tail(s)) = Len(s) - 1
      /\ \A n \in 1 .. Len(Tail(s)) : Tail(s)[n] = s[n + 1]
  BY HeadTailProperties
<1>2. /\ Len(s) \in Nat \ {0} /\ DOMAIN s = 1 .. Len(s)
      /\ DOMAIN Tail(s) = 1 .. Len(s) - 1
  BY <1>1, LenProperties, EmptySeq
<1>3. Head(s) = s[1]
  OBVIOUS
<1>4. Head(s) \in Range(s)
  BY <1>2, <1>3 DEF Range
<1>5. ASSUME NEW n \in DOMAIN Tail(s) PROVE Tail(s)[n] \in Range(s)
  BY <1>1, <1>2, n + 1 \in DOMAIN s DEF Range
<1> QED
  BY <1>1, <1>4, <1>5 DEF Range

\* Plans of one and of two operations.
LEMMA ShortPlans ==
    ASSUME NEW a \in Item, NEW b \in Item
    PROVE  /\ <<a>> \in Seq(Item) /\ Len(<<a>>) = 1 /\ Range(<<a>>) = {a} /\ <<a>> # << >>
           /\ <<a, b>> \in Seq(Item) /\ Len(<<a, b>>) = 2 /\ Range(<<a, b>>) = {a, b}
           /\ <<a, b>> # << >> /\ Tail(<<a, b>>) = <<b>> /\ Tail(<<a>>) = << >>
<1>1. /\ <<a>> \in Seq(Item) /\ Len(<<a>>) = 1 /\ <<a>>[1] = a /\ DOMAIN <<a>> = 1 .. 1
      /\ <<a, b>> \in Seq(Item) /\ Len(<<a, b>>) = 2 /\ <<a, b>>[1] = a /\ <<a, b>>[2] = b
      /\ DOMAIN <<a, b>> = 1 .. 2
  OBVIOUS
<1>2. Range(<<a>>) = {a}
  BY <1>1 DEF Range
<1>3. Range(<<a, b>>) = {a, b}
  BY <1>1 DEF Range
<1>4. <<a>> # << >> /\ <<a, b>> # << >>
  BY <1>1
<1>5. Tail(<<a, b>>) = <<b>> /\ Tail(<<a>>) = << >>
  OBVIOUS
<1> QED
  BY <1>1, <1>2, <1>3, <1>4, <1>5

(***************************************************************************)
(* The plans are typed.                                                     *)
(***************************************************************************)
LEMMA PutTyped ==
    /\ \A u \in User, v \in UserRecord : Put("user", u, v) \in SetItem
    /\ \A h \in Handle, v \in Access : Put("access", h, v) \in SetItem
    /\ \A m \in Id, v \in MailboxNode : Put("mailbox", m, v) \in SetItem
    /\ \A i \in Id, v \in SealedInode : Put("inode", i, v) \in SetItem
    /\ \A b \in Id, v \in SealedBlock : Put("block", b, v) \in SetItem
    /\ \A j \in Id, v \in Invitation : Put("invitation", j, v) \in SetItem
    /\ \A i \in Id, k \in Id : /\ Fetch("block", i, k) \in FetchItem
                               /\ Fetch("mailbox", i, k) \in FetchItem
  BY DEF Put, Fetch, SetItem, SetsOf, FetchItem

\* The kinds of the operations in a plan.
LEMMA ItemKinds ==
    /\ \A p \in SetItem : p.kind = "set"
    /\ \A p \in FetchItem : p.kind = "fetch" /\ p.store \in {"block", "mailbox"} /\ p.at \in Id /\ p.value \in Id
    /\ \A r \in User : Lookup(r).kind = "lookup"
    /\ SetItem \subseteq Item /\ FetchItem \subseteq Item
    /\ \A r \in User : Lookup(r) \in Item
    /\ \A p \in Item : p.kind \in {"set", "fetch", "lookup"} /\ (p.kind = "set" => p \in SetItem)
  BY DEF SetItem, SetsOf, FetchItem, Lookup, Item

\* What a Set carries, by the kind of object it goes to.
LEMMA SetItemTyped ==
    ASSUME NEW p \in SetItem
    PROVE  /\ PutOK(p)
           /\ p.kind = "set"
           /\ p.store = "user" => p.at \in User /\ p.value \in UserRecord
           /\ p.store = "access" => p.at \in Handle /\ p.value \in Access
           /\ p.store = "mailbox" => p.at \in Id /\ p.value \in MailboxNode
           /\ p.store = "inode" => p.at \in Id /\ p.value \in SealedInode
           /\ p.store = "block" => p.at \in Id /\ p.value \in SealedBlock
           /\ p.store = "invitation" => p.at \in Id /\ p.value \in Invitation
  BY DEF SetItem, SetsOf, PutOK

\* The Sets of new blocks.
LEMMA PutBlocksItems ==
    ASSUME NEW first \in Nat \ {0}, NEW content \in Content, NEW k \in Id,
           first + Len(content) <= MaxId + 1
    PROVE  /\ PutBlocks(first, content, k) \in Seq(Item)
           /\ \A p \in Range(PutBlocks(first, content, k)) :
                 \E x \in 1 .. Len(content) :
                    /\ p = Put("block", first + x - 1, encryptAndMAC(content[x], k))
                    /\ first + x - 1 \in Id /\ p \in SetItem
<1> DEFINE s == PutBlocks(first, content, k)
<1>1. content \in Seq(Chunk) /\ Len(content) \in Nat /\ \A n \in 1 .. Len(content) : content[n] \in Chunk
  BY ContentIsSeq
<1>2. ASSUME NEW x \in 1 .. Len(content)
      PROVE  /\ Put("block", first + x - 1, encryptAndMAC(content[x], k)) \in SetItem
             /\ first + x - 1 \in Id
  <2>1. first + x - 1 \in Id
    BY <1>1, BoundsAssumption DEF Id
  <2>2. encryptAndMAC(content[x], k) \in SealedBlock
    BY <1>1 DEF encryptAndMAC, SealedBlock
  <2> QED
    BY <2>1, <2>2, PutTyped
<1>3. s \in [1 .. Len(content) -> Item]
  BY <1>2, ItemKinds DEF PutBlocks
<1>4. s \in Seq(Item)
  BY <1>1, <1>3, SeqDef
<1>5. ASSUME NEW p \in Range(s)
      PROVE  \E x \in 1 .. Len(content) :
                    /\ p = Put("block", first + x - 1, encryptAndMAC(content[x], k))
                    /\ first + x - 1 \in Id /\ p \in SetItem
  <2>1. PICK x \in 1 .. Len(content) : p = s[x]
    BY <1>3 DEF Range
  <2> QED
    BY <1>2, <2>1 DEF PutBlocks
<1> QED
  BY <1>4, <1>5

\* What StoreFile will write.
LEMMA StorePlanItems ==
    ASSUME TypeOK, NEW c \in Client, session[c] # None, NEW f \in Filename,
           NEW content \in Content, CanDraw(3 + Len(content))
    PROVE  LET h == <<session[c].name, f>>
           IN  /\ h \in Handle /\ next \in Id /\ next + 1 \in Id /\ next + 2 \in Id
               /\ StorePlan(c, f, content) \in Seq(Item) /\ StorePlan(c, f, content) # << >>
               /\ Range(StorePlan(c, f, content)) =
                     {Put("mailbox", next + 2, [fileKey |-> next, inode |-> next + 1]),
                      Put("access", h, NewRecord(h, next + 2)),
                      Put("inode", next + 1,
                          encryptAndMAC(NewBlocks(next + 3, Len(content)), next)),
                      PutUser(c, f)}
                     \cup Range(PutBlocks(next + 3, content, next))
<1> DEFINE h == <<session[c].name, f>>
           pm == Put("mailbox", next + 2, [fileKey |-> next, inode |-> next + 1])
           pa == Put("access", h, NewRecord(h, next + 2))
           pb == PutBlocks(next + 3, content, next)
           pi == Put("inode", next + 1, encryptAndMAC(NewBlocks(next + 3, Len(content)), next))
           pu == PutUser(c, f)
<1>1. next \in Nat \ {0} /\ session[c] \in Session /\ Len(content) \in Nat
  BY Typed, ContentIsSeq
<1>2. /\ next \in Id /\ next + 1 \in Id /\ next + 2 \in Id
      /\ next + 3 \in Nat \ {0} /\ next + 3 + Len(content) <= MaxId + 1
  BY <1>1, BoundsAssumption DEF CanDraw, Id
<1>3. h \in Handle
  BY <1>1 DEF Handle, Session
<1>4. pm \in SetItem
  BY <1>2, PutTyped DEF MailboxNode
<1>5. pa \in SetItem
  BY <1>2, <1>3, PutTyped DEF NewRecord, NoChildren, Access, ChildrenMap
<1>6. pb \in Seq(Item)
  BY <1>2, PutBlocksItems
<1>7. pi \in SetItem
  BY <1>1, <1>2, NewBlocksProperties, PutTyped DEF encryptAndMAC, SealedInode
<1>8. pu \in SetItem
  BY <1>1, PutTyped DEF PutUser, Session, UserRecord
<1> HIDE DEF pm, pa, pb, pi, pu
<1>9. /\ <<pm, pa>> \in Seq(Item) /\ Range(<<pm, pa>>) = {pm, pa} /\ <<pm, pa>> # << >>
      /\ <<pi, pu>> \in Seq(Item) /\ Range(<<pi, pu>>) = {pi, pu}
  BY <1>4, <1>5, <1>7, <1>8, ItemKinds, ShortPlans
<1>10. PICK s \in Seq(Item), t \in Seq(Item), w \in Seq(Item) :
           /\ s = <<pm, pa>> /\ t = pb /\ w = <<pi, pu>> /\ s # << >>
           /\ Range(s) = {pm, pa} /\ Range(w) = {pi, pu}
  BY <1>6, <1>9
<1>11. /\ s \o t \o w \in Seq(Item) /\ s \o t \o w # << >>
       /\ Range(s \o t \o w) = Range(s) \cup Range(t) \cup Range(w)
  <2>1. s # << >>
    BY <1>10
  <2>2. s \o t \o w # << >>
    BY <2>1, JoinedPlans
  <2>3. s \o t \o w \in Seq(Item)
    BY JoinedPlans
  <2>4. Range(s \o t \o w) = Range(s) \cup Range(t) \cup Range(w)
    BY JoinedPlans
  <2> QED
    BY <2>2, <2>3, <2>4
<1>12. StorePlan(c, f, content) = s \o t \o w
  BY <1>10 DEF StorePlan, pm, pa, pb, pi, pu
<1>13. Range(s \o t \o w) = {pm, pa, pi, pu} \cup Range(pb)
  BY <1>10, <1>11
<1> QED
  BY <1>2, <1>3, <1>11, <1>12, <1>13 DEF pm, pa, pb, pi, pu

\* What AppendToFile will write.
LEMMA AppendPlanItems ==
    ASSUME TypeOK, NEW box \in MailboxNode, inode[box.inode] # None,
           NEW content \in Content, CanDraw(Len(content))
    PROVE  LET node == inode[box.inode]
               plan == AppendPlan(box, node, content)
               list == node.plain \o NewBlocks(next, Len(content))
           IN  /\ box.inode \in Id /\ box.fileKey \in Id /\ node \in SealedInode
               /\ plan \in Seq(Item) /\ plan # << >>
               /\ Range(plan) = {Put("inode", box.inode, encryptAndMAC(list, box.fileKey))}
                                \cup Range(PutBlocks(next, content, box.fileKey))
               /\ Put("inode", box.inode, encryptAndMAC(list, box.fileKey)) \in SetItem
               /\ Range(PutBlocks(next, content, box.fileKey)) \subseteq SetItem
<1> DEFINE node == inode[box.inode]
           list == node.plain \o NewBlocks(next, Len(content))
           pb == PutBlocks(next, content, box.fileKey)
           pi == Put("inode", box.inode, encryptAndMAC(list, box.fileKey))
<1>1. next \in Nat \ {0} /\ Len(content) \in Nat /\ next + Len(content) <= MaxId + 1
  BY Typed, ContentIsSeq DEF CanDraw
<1>2. box.inode \in Id /\ box.fileKey \in Id /\ node \in SealedInode
  BY Typed DEF MailboxNode
<1>3. node.plain \in Seq(Id) /\ NewBlocks(next, Len(content)) \in Seq(Id)
  BY <1>1, <1>2, NewBlocksProperties DEF SealedInode
<1>4. list \in Seq(Id)
  <2>1. PICK s \in Seq(Id), t \in Seq(Id) : s = node.plain /\ t = NewBlocks(next, Len(content))
    BY <1>3
  <2> QED
    BY <2>1, IdsOfConcat
<1> HIDE DEF list
<1>5. pi \in SetItem
  BY <1>2, <1>4, PutTyped DEF encryptAndMAC, SealedInode
<1>6. pb \in Seq(Item) /\ Range(pb) \subseteq SetItem
  BY <1>1, <1>2, PutBlocksItems
<1> HIDE DEF pb, pi
<1>7. <<pi>> \in Seq(Item) /\ Range(<<pi>>) = {pi} /\ <<pi>> # << >>
  BY <1>5, ItemKinds, ShortPlans
<1>8. PICK s \in Seq(Item), t \in Seq(Item) : s = pb /\ t = <<pi>> /\ t # << >> /\ Range(t) = {pi}
  BY <1>6, <1>7
<1>9. s \o t \in Seq(Item)
  BY JoinedPlans
<1>10. Range(s \o t) = Range(s) \cup Range(t)
  BY JoinedPlans
<1>11. s \o t # << >>
  BY <1>8, JoinedPlans
<1>12. AppendPlan(box, node, content) = s \o t
  BY <1>8 DEF AppendPlan, pb, pi, list
<1>13. Range(s \o t) = {pi} \cup Range(pb)
  BY <1>8, <1>10
<1> QED
  BY <1>2, <1>5, <1>6, <1>9, <1>11, <1>12, <1>13 DEF pb, pi, list

\* The Gets of RevokeAccess, of the blocks or of the mailboxes at the given UUIDs.
LEMMA FetchItems ==
    ASSUME NEW ids \in Seq(Id), NEW k \in Id, NEW store \in {"block", "mailbox"}
    PROVE  LET s == [x \in DOMAIN ids |-> Fetch(store, ids[x], k)]
           IN  s \in Seq(Item) /\ Range(s) \subseteq FetchItem
<1> DEFINE s == [x \in DOMAIN ids |-> Fetch(store, ids[x], k)]
<1>1. Len(ids) \in Nat /\ DOMAIN ids = 1 .. Len(ids) /\ ids \in [1 .. Len(ids) -> Id]
  BY LenProperties
<1>2. s \in [1 .. Len(ids) -> FetchItem]
  BY <1>1, PutTyped
<1>3. s \in [1 .. Len(ids) -> Item]
  BY <1>2, ItemKinds
<1>4. s \in Seq(Item)
  BY <1>1, <1>3, SeqDef
<1> QED
  BY <1>2, <1>4 DEF Range

\* What RevokeAccess will do.
LEMMA RekeyPlanItems ==
    ASSUME TypeOK, NEW box \in MailboxNode, inode[box.inode] # None, CanDraw(2),
           NEW children \in Seq(Id), NEW pa \in SetItem, NEW pu \in SetItem
    PROVE  LET node == inode[box.inode]
               plan == RekeyPlan(box, node, children, <<pa, pu>>)
               pi == Put("inode", box.inode, encryptAndMAC(node.plain, next))
               pm == Put("mailbox", next + 1, [fileKey |-> next, inode |-> box.inode])
           IN  /\ box.inode \in Id /\ node \in SealedInode /\ next \in Id /\ next + 1 \in Id
               /\ plan \in Seq(Item) /\ plan # << >>
               /\ pi \in SetItem /\ pm \in SetItem
               /\ Range(plan) \subseteq {pi, pm, pa, pu} \cup FetchItem
<1> DEFINE node == inode[box.inode]
           pi == Put("inode", box.inode, encryptAndMAC(node.plain, next))
           pm == Put("mailbox", next + 1, [fileKey |-> next, inode |-> box.inode])
           fb == [x \in DOMAIN node.plain |-> Fetch("block", node.plain[x], next)]
           fm == [x \in DOMAIN children |-> Fetch("mailbox", children[x], next)]
<1>1. next \in Nat \ {0} /\ next \in Id /\ next + 1 \in Id
  BY Typed, BoundsAssumption DEF CanDraw, Id
<1>2. box.inode \in Id /\ node \in SealedInode /\ node.plain \in Seq(Id)
  BY Typed DEF MailboxNode, SealedInode
<1>3. pi \in SetItem
  BY <1>1, <1>2, PutTyped DEF encryptAndMAC, SealedInode
<1>4. pm \in SetItem
  BY <1>1, <1>2, PutTyped DEF MailboxNode
<1>5. fb \in Seq(Item) /\ Range(fb) \subseteq FetchItem
  <2>1. PICK ids \in Seq(Id), k \in Id : ids = node.plain /\ k = next
    BY <1>1, <1>2
  <2> QED
    BY <2>1, FetchItems
<1>6. fm \in Seq(Item) /\ Range(fm) \subseteq FetchItem
  BY <1>1, FetchItems
<1> HIDE DEF pi, pm, fb, fm
<1>7. /\ <<pi, pm>> \in Seq(Item) /\ Range(<<pi, pm>>) = {pi, pm}
      /\ <<pa, pu>> \in Seq(Item) /\ Range(<<pa, pu>>) = {pa, pu} /\ <<pa, pu>> # << >>
  BY <1>3, <1>4, ItemKinds, ShortPlans
<1>8. PICK s \in Seq(Item), t \in Seq(Item), v \in Seq(Item), w \in Seq(Item) :
          /\ s = fb /\ t = <<pi, pm>> /\ v = fm /\ w = <<pa, pu>> /\ w # << >>
          /\ Range(t) = {pi, pm} /\ Range(w) = {pa, pu}
  BY <1>5, <1>6, <1>7
<1>9. s \o t \in Seq(Item)
  BY JoinedPlans
<1>10. Range(s \o t) = Range(s) \cup Range(t)
  BY JoinedPlans
<1>11. PICK z \in Seq(Item) : z = s \o t /\ Range(z) = Range(s) \cup Range(t)
  BY <1>9, <1>10
<1>12. z \o v \o w \in Seq(Item)
  BY JoinedPlans
<1>13. Range(z \o v \o w) = Range(z) \cup Range(v) \cup Range(w)
  BY JoinedPlans
<1>14. z \o v \o w # << >>
  BY <1>8, JoinedPlans
<1>15. RekeyPlan(box, node, children, <<pa, pu>>) = z \o v \o w
  BY <1>8, <1>11 DEF RekeyPlan, fb, fm, pi, pm
<1>16. Range(z \o v \o w) \subseteq {pi, pm, pa, pu} \cup FetchItem
  BY <1>5, <1>6, <1>8, <1>11, <1>13
<1> QED
  BY <1>1, <1>2, <1>3, <1>4, <1>12, <1>14, <1>15, <1>16 DEF pi, pm

(***************************************************************************)
(* Type correctness.                                                        *)
(***************************************************************************)
\* A call with another plan.
LEMMA WithPlan ==
    ASSUME NEW k \in CallRecord, NEW plan \in Seq(Item)
    PROVE  LET on == [k EXCEPT !.plan = plan]
           IN  /\ on \in CallRecord /\ on.plan = plan /\ on.op = k.op /\ on.arg = k.arg
               /\ on.access = k.access /\ on.box = k.box /\ on.made = k.made
               /\ on.filename = k.filename
  BY DEF CallRecord

\* Where only the call of c changes.
LEMMA CallsTypedAfter ==
    ASSUME CallsTyped, NEW c \in Client, NEW k, call' = [call EXCEPT ![c] = k],
           k # None => k \in CallRecord /\ CallShape(k) /\ session'[c] # None,
           \A d \in Client \ {c} : session'[d] = session[d],
           late' \in [Client -> SetItem \cup {None}], issued' \subseteq Id,
           batch' \subseteq SUBSET Id
    PROVE  CallsTyped'
<1>1. call'[c] = k /\ \A d \in Client \ {c} : call'[d] = call[d]
  BY DEF CallsTyped
<1>2. call' \in [Client -> CallRecord \cup {None}]
  BY DEF CallsTyped
<1>3. ASSUME NEW d \in Client, call'[d] # None PROVE session'[d] # None /\ CallShape(call'[d])
  BY <1>1, <1>3 DEF CallsTyped
<1> QED
  BY <1>2, <1>3 DEF CallsTyped

\* Every Set keeps the store typed.
LEMMA WriteTyped ==
    ASSUME TypeOK, NEW p \in SetItem, Write(p)
    PROVE  /\ account' \in [User -> UserRecord \cup {None}]
           /\ access' \in [Handle -> Access \cup {None}]
           /\ mailbox' \in [Id -> MailboxNode \cup {None}]
           /\ inode' \in [Id -> SealedInode \cup {None}]
           /\ block' \in [Id -> SealedBlock \cup {None}]
           /\ invitation' \in [Id -> Invitation \cup {None}]
<1>1. account' \in [User -> UserRecord \cup {None}]
  BY SetItemTyped DEF TypeOK, Write
<1>2. access' \in [Handle -> Access \cup {None}]
  BY SetItemTyped DEF TypeOK, Write
<1>3. mailbox' \in [Id -> MailboxNode \cup {None}]
  BY SetItemTyped DEF TypeOK, Write
<1>4. inode' \in [Id -> SealedInode \cup {None}]
  BY SetItemTyped DEF TypeOK, Write
<1>5. block' \in [Id -> SealedBlock \cup {None}]
  BY SetItemTyped DEF TypeOK, Write
<1>6. invitation' \in [Id -> Invitation \cup {None}]
  BY SetItemTyped DEF TypeOK, Write
<1> QED
  BY <1>1, <1>2, <1>3, <1>4, <1>5, <1>6

\* The store stays typed after the Set of an item.
LEMMA TypeOKAfter ==
    ASSUME TypeOK, UNCHANGED Store \/ \E p \in SetItem : Write(p),
           session' \in [Client -> Session \cup {None}], revoked' \subseteq Id,
           next' \in 1 .. MaxId + 1
    PROVE  TypeOK'
<1>1. CASE UNCHANGED Store
  BY <1>1 DEF TypeOK, Store
<1>2. CASE \E p \in SetItem : Write(p)
  BY <1>2, WriteTyped DEF TypeOK
<1> QED
  BY <1>1, <1>2

\* Keeping the new file list in memory.
LEMMA RememberTyped ==
    ASSUME TypeOK, NEW c \in Client, session[c] # None, NEW p \in SetItem, Remember(c, p)
    PROVE  /\ session' \in [Client -> Session \cup {None}] /\ session'[c] # None
           /\ \A d \in Client \ {c} : session'[d] = session[d]
           /\ session'[c].name = session[c].name
<1>1. session[c] \in Session /\ session \in [Client -> Session \cup {None}]
  BY Typed DEF TypeOK
<1>2. CASE p.store # "user"
  BY <1>1, <1>2 DEF Remember
<1>3. CASE p.store = "user"
  <2>1. p.value.files \in SUBSET Filename
    BY <1>3, SetItemTyped DEF UserRecord
  <2>2. session' = [session EXCEPT ![c].files = p.value.files]
    BY <1>3 DEF Remember
  <2>3. session'[c] \in Session /\ session'[c].name = session[c].name
    BY <1>1, <2>1, <2>2 DEF Session
  <2>4. session'[c] # None
    BY <2>3, NoneAssumption
  <2> QED
    BY <1>1, <2>2, <2>3, <2>4
<1> QED
  BY <1>2, <1>3

\* What is left of a call after a Set.
LEMMA RestShape ==
    ASSUME NEW k \in CallRecord, CallShape(k), k.plan # << >>, Head(k.plan).kind = "set"
    PROVE  /\ Head(k.plan) \in SetItem /\ Head(k.plan) \in Range(k.plan)
           /\ Tail(k.plan) \in Seq(Item) /\ Range(Tail(k.plan)) \subseteq Range(k.plan)
           /\ Tail(k.plan) # << >> => CallShape([k EXCEPT !.plan = Tail(k.plan)])
           /\ k.op = "CreateInvitation" /\ Tail(k.plan) = << >> => k.arg \in Id
           /\ k.op = "RevokeAccess" => k.access \in Access /\ k.arg \in User
<1>1. k.plan \in Seq(Item)
  BY DEF CallRecord
<1>2. PICK s \in Seq(Item) : s = k.plan /\ s # << >>
  BY <1>1
<1>3. PICK t \in Seq(Item) : t = Tail(s) /\ Range(t) \subseteq Range(s)
  BY <1>2, HeadAndTail
<1>4. Head(s) \in Item /\ Head(s) \in Range(s)
  BY <1>2, HeadAndTail
<1>5. Head(s) \in SetItem
  BY <1>2, <1>4, ItemKinds
<1> DEFINE on == [k EXCEPT !.plan = t]
<1>6. /\ on.plan = t /\ on.op = k.op /\ on.arg = k.arg
      /\ on.access = k.access /\ on.box = k.box /\ on.made = k.made
  BY WithPlan
<1> HIDE DEF on
<1>7. ASSUME k.op = "CreateInvitation"
      PROVE  (t # << >> => InvitationShape(on)) /\ (t = << >> => k.arg \in Id)
  <2>1. InvitationShape(k)
    BY <1>7 DEF CallShape
  <2>2. ASSUME k.made \in Id, k.arg \in Id, NEW p \in SetItem, NEW q \in SetItem,
               p.store = "invitation", p.at = k.arg, s \in {<<p, q>>, <<q>>}
        PROVE  t # << >> => InvitationShape(on)
    <3>1. t = << >> \/ t = <<q>>
      <4>1. Tail(<<p, q>>) = <<q>> /\ Tail(<<q>>) = << >>
        OBVIOUS
      <4> QED
        BY <1>3, <2>2, <4>1
    <3> QED
      BY <1>6, <2>2, <3>1 DEF InvitationShape
  <2>3. CASE k.made \in Id /\ k.arg \in User
             /\ s \in {<<Put("mailbox", k.made, k.box), Lookup(k.arg)>>, <<Lookup(k.arg)>>}
    <3>1. s # <<Lookup(k.arg)>>
      BY <1>2, <2>3, ItemKinds, Head(<<Lookup(k.arg)>>) = Lookup(k.arg)
    <3>2. s = <<Put("mailbox", k.made, k.box), Lookup(k.arg)>>
      BY <2>3, <3>1
    <3>3. t = <<Lookup(k.arg)>>
      BY <1>3, <3>2
    <3>4. t # << >>
      BY <3>3
    <3> QED
      BY <1>6, <2>3, <3>3, <3>4 DEF InvitationShape
  <2> QED
    BY <1>2, <2>1, <2>2, <2>3 DEF InvitationShape
<1>8. ASSUME t # << >> PROVE CallShape(on)
  <2>1. CASE k.op = "CreateInvitation"
    BY <1>6, <1>7, <1>8, <2>1 DEF CallShape
  <2>2. CASE k.op # "CreateInvitation"
    BY <1>2, <1>3, <1>6, <1>8, <2>2 DEF CallShape
  <2> QED
    BY <2>1, <2>2
<1>9. k.op = "RevokeAccess" => k.access \in Access /\ k.arg \in User
  BY DEF CallShape
<1> QED
  BY <1>2, <1>3, <1>4, <1>5, <1>7, <1>8, <1>9 DEF on

(***************************************************************************)
(* What a step does to the Sets that are planned or late.                   *)
(***************************************************************************)
Puts ==
    {p \in SetItem : \/ \E c \in Client : call[c] # None /\ p \in Range(call[c].plan)
                     \/ \E c \in Client : late[c] # None /\ p = late[c]}

\* Nothing is written, and the Sets that are new to the plans are among new.
PlansMore(new) ==
    /\ UNCHANGED <<access, mailbox, inode, block, invitation>>
    /\ Puts' \subseteq Puts \cup new

\* A planned or late Set is written; no new one is planned.
Writes(p) == p \in Puts /\ Write(p) /\ Puts' \subseteq Puts /\ UNCHANGED <<next, batch>>

\* The Sets that are planned or late after one call changed.
LEMMA PutsAfter ==
    ASSUME CallsTyped, NEW c \in Client, NEW k, call' = [call EXCEPT ![c] = k],
           NEW new, k # None => \A p \in Range(k.plan) : p \in SetItem => p \in Puts \cup new,
           \A d \in Client : late'[d] # None => late'[d] = late[d] \/ late'[d] \in Puts
    PROVE  Puts' \subseteq Puts \cup new
<1>1. call'[c] = k /\ \A d \in Client \ {c} : call'[d] = call[d]
  BY DEF CallsTyped
<1>2. ASSUME NEW p \in SetItem, NEW d \in Client, call'[d] # None, p \in Range(call'[d].plan)
      PROVE  p \in Puts \cup new
  <2>1. CASE d = c
    BY <1>1, <1>2, <2>1
  <2>2. CASE d # c
    BY <1>1, <1>2, <2>2 DEF Puts
  <2> QED
    BY <2>1, <2>2
<1>3. ASSUME NEW p \in SetItem, NEW d \in Client, late'[d] # None, p = late'[d]
      PROVE  p \in Puts \cup new
  BY <1>3 DEF Puts
<1> QED
  BY <1>2, <1>3 DEF Puts

\* The effect of a step, by its kind.
QuietStep == PlansMore({}) /\ UNCHANGED <<next, batch>>

StoreStep(content) ==
    \E h \in Handle, pu \in SetItem :
       /\ pu.store = "user" /\ next \in Id /\ next + 1 \in Id /\ next + 2 \in Id
       /\ next + 3 + Len(content) <= MaxId + 1 /\ next' = next + 3 + Len(content)
       /\ batch' = batch \cup {Range(NewBlocks(next + 3, Len(content)))}
       /\ PlansMore({Put("mailbox", next + 2, [fileKey |-> next, inode |-> next + 1]),
                     Put("access", h, NewRecord(h, next + 2)),
                     Put("inode", next + 1, encryptAndMAC(NewBlocks(next + 3, Len(content)), next)),
                     pu} \cup Range(PutBlocks(next + 3, content, next)))

AppendStep(box, content) ==
    /\ inode[box.inode] # None
    /\ next + Len(content) <= MaxId + 1 /\ next' = next + Len(content)
    /\ batch' = batch \cup {Range(NewBlocks(next, Len(content)))}
    /\ PlansMore({Put("inode", box.inode,
                      encryptAndMAC(inode[box.inode].plain \o NewBlocks(next, Len(content)),
                                    box.fileKey))}
                 \cup Range(PutBlocks(next, content, box.fileKey)))

RekeyStep(box, pa, pu) ==
    /\ inode[box.inode] # None /\ next \in Id /\ next + 1 \in Id /\ next' = next + 2
    /\ pa.store = "access" /\ pu.store = "user" /\ UNCHANGED batch
    /\ PlansMore({Put("inode", box.inode, encryptAndMAC(inode[box.inode].plain, next)),
                  Put("mailbox", next + 1, [fileKey |-> next, inode |-> box.inode]), pa, pu})

\* The Sets of an access record, an invitation or a user record only.
RecordStep(new) ==
    /\ PlansMore(new) /\ next' >= next /\ UNCHANGED batch
    /\ \A p \in new : p.store \in {"access", "user", "invitation"}

CopyStep(box) ==
    /\ next \in Id /\ next' = next + 1 /\ UNCHANGED batch
    /\ PlansMore({Put("mailbox", next, box)})

BlockBackStep(b, k) ==
    /\ block[b] # None /\ UNCHANGED <<next, batch>>
    /\ PlansMore({Put("block", b, encryptAndMAC(block[b].plain, k))})

MailboxBackStep(m, k) ==
    /\ mailbox[m] # None /\ UNCHANGED <<next, batch>>
    /\ PlansMore({Put("mailbox", m, [mailbox[m] EXCEPT !.fileKey = k])})

StepEffect ==
    \/ QuietStep
    \/ \E p \in SetItem : Writes(p)
    \/ \E content \in Content : StoreStep(content)
    \/ \E box \in MailboxNode, content \in Content : AppendStep(box, content)
    \/ \E box \in MailboxNode, pa \in SetItem, pu \in SetItem : RekeyStep(box, pa, pu)
    \/ \E new \in SUBSET SetItem : RecordStep(new)
    \/ \E box \in MailboxNode : CopyStep(box)
    \/ \E b \in Id, k \in Id : BlockBackStep(b, k) \/ MailboxBackStep(b, k)

(***************************************************************************)
(* Each action keeps the types and has one of these effects.                *)
(***************************************************************************)
LEMMA RefuseStep ==
    ASSUME StepTypes, NEW c \in Client, Refuse(c)
    PROVE  StepTypes' /\ StepEffect
<1>1. /\ call' = [call EXCEPT ![c] = None]
      /\ UNCHANGED <<session, Store, revoked, next, late, issued, batch>>
  BY DEF Refuse, vars, Store
<1>2. CallsTyped'
  <2>1. \A d \in Client \ {c} : session'[d] = session[d]
    BY <1>1
  <2>2. late' \in [Client -> SetItem \cup {None}] /\ issued' \subseteq Id /\ batch' \subseteq SUBSET Id
    BY <1>1 DEF StepTypes, CallsTyped
  <2> QED
    BY <1>1, <2>1, <2>2, CallsTypedAfter DEF StepTypes
<1>3. TypeOK'
  BY <1>1 DEF StepTypes, TypeOK, Store
<1>4. Puts' \subseteq Puts \cup {}
  BY <1>1, PutsAfter DEF StepTypes
<1>5. QuietStep
  BY <1>1, <1>4 DEF QuietStep, PlansMore, Store
<1> QED
  BY <1>2, <1>3, <1>5 DEF StepTypes, StepEffect

LEMMA UserCallStep ==
    ASSUME StepTypes, NEW c \in Client, NEW u \in User, UserCall(c, u)
    PROVE  StepTypes' /\ StepEffect
<1>1. TypeOK'
  <2>1. [Next]_vars
    BY DEF UserCall, Next
  <2> QED
    BY <2>1, TypeStep DEF StepTypes
<1>2. /\ call[c] = None /\ UNCHANGED <<call, late, issued, batch>>
      /\ UNCHANGED <<access, mailbox, inode, block, invitation, revoked, next>>
      /\ \A d \in Client \ {c} : session'[d] = session[d]
  BY DEF UserCall, InitUser, GetUser, StepTypes, TypeOK
<1>3. CallsTyped'
  BY <1>2 DEF StepTypes, CallsTyped
<1>4. Puts' = Puts
  BY <1>2 DEF Puts
<1>5. QuietStep
  BY <1>2, <1>4 DEF QuietStep, PlansMore
<1> QED
  BY <1>1, <1>3, <1>5 DEF StepTypes, StepEffect

\* A call that reads or plans: only it, the numbers drawn and the history change.
LEMMA PlanningStep ==
    ASSUME StepTypes, NEW c \in Client, session[c] # None, NEW k \in CallRecord, CallShape(k),
           call' = [call EXCEPT ![c] = k], UNCHANGED <<session, Store, revoked, late, issued>>,
           next' \in 1 .. MaxId + 1, batch' \subseteq SUBSET Id,
           NEW new, \A p \in Range(k.plan) : p \in SetItem => p \in Puts \cup new
    PROVE  StepTypes' /\ PlansMore(new)
<1>1. CallsTyped'
  <2>1. late' \in [Client -> SetItem \cup {None}] /\ issued' \subseteq Id
    BY DEF StepTypes, CallsTyped
  <2>2. session'[c] # None /\ \A d \in Client \ {c} : session'[d] = session[d]
    OBVIOUS
  <2> QED
    BY <2>1, <2>2, CallsTypedAfter DEF StepTypes
<1>2. TypeOK'
  BY TypeOKAfter DEF StepTypes, TypeOK
<1>3. Puts' \subseteq Puts \cup new
  <2>1. \A d \in Client : late'[d] # None => late'[d] = late[d] \/ late'[d] \in Puts
    OBVIOUS
  <2> QED
    BY <2>1, PutsAfter DEF StepTypes
<1> QED
  BY <1>1, <1>2, <1>3 DEF StepTypes, PlansMore, Store

LEMMA BeginStoreStep ==
    ASSUME StepTypes, NEW c \in Client, NEW f \in Filename, NEW content \in Content,
           BeginStore(c, f, content)
    PROVE  StepTypes' /\ StepEffect
<1>1. /\ TypeOK /\ session[c] # None /\ CanDraw(3 + Len(content))
      /\ next \in Nat \ {0} /\ Len(content) \in Nat
  BY Typed, ContentIsSeq DEF StepTypes, BeginStore, Idle
<1>2. PICK plan \in Seq(Item) : plan = StorePlan(c, f, content) /\ plan # << >>
  BY <1>1, StorePlanItems
<1>3. PICK h \in Handle : h = <<session[c].name, f>>
  BY <1>1, StorePlanItems
<1> DEFINE pm == Put("mailbox", next + 2, [fileKey |-> next, inode |-> next + 1])
           pa == Put("access", h, NewRecord(h, next + 2))
           pi == Put("inode", next + 1, encryptAndMAC(NewBlocks(next + 3, Len(content)), next))
           pu == PutUser(c, f)
           new == {pm, pa, pi, pu} \cup Range(PutBlocks(next + 3, content, next))
<1>4. next \in Id /\ next + 1 \in Id /\ next + 2 \in Id /\ Range(plan) = new
  BY <1>1, <1>2, <1>3, StorePlanItems
<1>5. /\ next + 3 \in Nat \ {0} /\ next + 3 + Len(content) <= MaxId + 1
      /\ next + 3 + Len(content) \in 1 .. MaxId + 1
  BY <1>1, BoundsAssumption DEF CanDraw
<1>6. Range(NewBlocks(next + 3, Len(content))) \subseteq Id
  <2>1. NewBlocks(next + 3, Len(content)) \in Seq(Id)
    BY <1>1, <1>5, NewBlocksProperties
  <2> QED
    BY <2>1, IdsOfSeq
<1>7. new \subseteq SetItem
  <2>1. pm \in SetItem
    BY <1>4, PutTyped DEF MailboxNode
  <2>2. pa \in SetItem
    BY <1>4, PutTyped DEF NewRecord, NoChildren, Access, ChildrenMap
  <2>3. pi \in SetItem
    BY <1>1, <1>4, <1>5, NewBlocksProperties, PutTyped DEF encryptAndMAC, SealedInode
  <2>4. pu \in SetItem
    BY <1>1, Typed, PutTyped DEF PutUser, Session, UserRecord
  <2>5. Range(PutBlocks(next + 3, content, next)) \subseteq SetItem
    BY <1>4, <1>5, PutBlocksItems
  <2> QED
    BY <2>1, <2>2, <2>3, <2>4, <2>5
<1> HIDE DEF new
<1> DEFINE k == [NewCall("StoreFile", f, content, None) EXCEPT !.plan = plan]
<1>8. k \in CallRecord /\ k.op = "StoreFile" /\ k.plan = plan
  BY DEF NewCall, CallRecord, Operation
<1> HIDE DEF k
<1>9. CallShape(k)
  BY <1>2, <1>4, <1>7, <1>8 DEF CallShape
<1>10. /\ call' = [call EXCEPT ![c] = k] /\ UNCHANGED <<session, Store, revoked, late, issued>>
       /\ next' = next + 3 + Len(content)
       /\ batch' = batch \cup {Range(NewBlocks(next + 3, Len(content)))}
  BY <1>2 DEF BeginStore, k
<1>11. batch' \subseteq SUBSET Id /\ next' \in 1 .. MaxId + 1
  BY <1>5, <1>6, <1>10 DEF StepTypes, CallsTyped
<1>12. \A p \in Range(k.plan) : p \in SetItem => p \in Puts \cup new
  BY <1>4, <1>8
<1>13. StepTypes' /\ PlansMore(new)
  BY <1>1, <1>8, <1>9, <1>10, <1>11, <1>12, PlanningStep
<1>14. pu \in SetItem /\ pu.store = "user"
  BY <1>7 DEF new, PutUser, Put
<1>15. StoreStep(content)
  BY <1>4, <1>5, <1>10, <1>13, <1>14 DEF StoreStep, new
<1> QED
  BY <1>13, <1>15 DEF StepEffect

LEMMA BeginAcceptStep ==
    ASSUME StepTypes, NEW c \in Client, NEW s \in User, NEW j \in issued, NEW f \in Filename,
           BeginAccept(c, s, j, f), invitation[j] # None
    PROVE  StepTypes' /\ StepEffect
<1>1. TypeOK /\ session[c] # None /\ session[c] \in Session /\ j \in Id
  BY Typed DEF StepTypes, CallsTyped, BeginAccept, Idle
<1>2. PICK h \in Handle : h = <<session[c].name, f>>
  BY <1>1 DEF Session, Handle
<1> DEFINE pa == Put("access", h, NewRecord(h, invitation[j].mailbox))
           pu == PutUser(c, f)
<1>3. pa \in SetItem /\ pa.store = "access"
  <2>1. invitation[j].mailbox \in Id
    BY <1>1, Typed DEF Invitation
  <2>2. NewRecord(h, invitation[j].mailbox) \in Access
    BY <2>1 DEF NewRecord, NoChildren, Access, ChildrenMap
  <2> QED
    BY <2>2, PutTyped DEF Put
<1>4. pu \in SetItem /\ pu.store = "user"
  BY <1>1, PutTyped DEF PutUser, Session, UserRecord, Put
<1>5. /\ call' = [call EXCEPT ![c] =
            [NewCall("AcceptInvitation", f, j, None) EXCEPT !.plan = <<pa, pu>>]]
      /\ UNCHANGED <<session, Store, revoked, late, issued, next, batch>>
  BY <1>2 DEF BeginAccept, vars, Store
<1> HIDE DEF pa, pu
<1>6. PICK plan \in Seq(Item) : plan = <<pa, pu>> /\ Range(plan) = {pa, pu} /\ plan # << >>
  BY <1>3, <1>4, ItemKinds, ShortPlans
<1> DEFINE k == [NewCall("AcceptInvitation", f, j, None) EXCEPT !.plan = plan]
<1>7. k \in CallRecord /\ k.op = "AcceptInvitation" /\ k.plan = plan
  BY <1>1 DEF NewCall, CallRecord, Operation
<1>8. call' = [call EXCEPT ![c] = k]
  BY <1>5, <1>6
<1> HIDE DEF k
<1>9. CallShape(k)
  BY <1>3, <1>4, <1>6, <1>7 DEF CallShape
<1>10. next' \in 1 .. MaxId + 1 /\ batch' \subseteq SUBSET Id /\ next' >= next
  BY <1>1, <1>5 DEF StepTypes, CallsTyped, TypeOK
<1>11. \A p \in Range(k.plan) : p \in SetItem => p \in Puts \cup {pa, pu}
  BY <1>6, <1>7
<1>12. StepTypes' /\ PlansMore({pa, pu})
  BY <1>1, <1>5, <1>7, <1>8, <1>9, <1>10, <1>11, PlanningStep
<1>13. RecordStep({pa, pu})
  BY <1>3, <1>4, <1>5, <1>10, <1>12 DEF RecordStep
<1> QED
  BY <1>3, <1>4, <1>12, <1>13 DEF StepEffect

LEMMA BeginOnAccessStep ==
    ASSUME StepTypes, NEW c \in Client, NEW o, NEW f \in Filename, NEW x, NEW n,
           BeginOnAccess(c, o, f, x, n),
           \/ o = "AppendToFile" /\ x \in Content
           \/ o \in {"CreateInvitation", "RevokeAccess"} /\ x \in User
    PROVE  StepTypes' /\ StepEffect
<1>1. TypeOK /\ session[c] # None /\ session[c] \in Session
  BY Typed DEF StepTypes, BeginOnAccess, Idle
<1>2. PICK h \in Handle : h = <<session[c].name, f>>
  BY <1>1 DEF Session, Handle
<1>3. access[h] \in Access
  BY <1>1, <1>2, Typed DEF BeginOnAccess
<1> DEFINE k == NewCall(o, f, x, access[h])
<1>4. << >> \in Seq(Item) /\ Range(<< >>) = {}
  BY EmptySeq DEF Range
<1>5. /\ k \in CallRecord /\ k.op = o /\ k.arg = x /\ k.access = access[h]
      /\ k.box = None /\ k.plan = << >>
  BY <1>3, <1>4 DEF NewCall, CallRecord, Operation
<1>6. /\ call' = [call EXCEPT ![c] = k]
      /\ UNCHANGED <<session, Store, revoked, late, issued, next, batch>>
  BY <1>2 DEF BeginOnAccess, vars, Store
<1> HIDE DEF k
<1>7. CallShape(k)
  BY <1>3, <1>4, <1>5 DEF CallShape, InvitationShape
<1>8. next' \in 1 .. MaxId + 1 /\ batch' \subseteq SUBSET Id
  BY <1>1, <1>6 DEF StepTypes, CallsTyped, TypeOK
<1>9. \A p \in Range(k.plan) : p \in SetItem => p \in Puts \cup {}
  BY <1>4, <1>5
<1>10. StepTypes' /\ PlansMore({})
  BY <1>1, <1>5, <1>6, <1>7, <1>8, <1>9, PlanningStep
<1> QED
  BY <1>6, <1>10 DEF StepEffect, QuietStep

\* A call that has no plan yet.
LEMMA ReadingCall ==
    ASSUME StepTypes, NEW c \in Client, Reading(c)
    PROVE  /\ call[c] \in CallRecord /\ session[c] # None /\ call[c].plan = << >>
           /\ call[c].access \in Access
           /\ \/ call[c].op = "AppendToFile" /\ call[c].arg \in Content
              \/ call[c].op = "RevokeAccess" /\ call[c].arg \in User
              \/ call[c].op = "CreateInvitation" /\ call[c].arg \in User /\ call[c].box = None
<1>1. call[c] \in CallRecord /\ session[c] # None /\ call[c].plan = << >> /\ CallShape(call[c])
  BY DEF StepTypes, CallsTyped, Reading
<1>2. \A a, b : <<a, b>> # << >> /\ <<a>> # << >>
  OBVIOUS
<1> QED
  BY <1>1, <1>2 DEF CallShape, InvitationShape

LEMMA ReadMailboxStep ==
    ASSUME StepTypes, NEW c \in Client, ReadMailbox(c)
    PROVE  StepTypes' /\ StepEffect
<1>1. /\ TypeOK /\ Reading(c) /\ next \in Nat \ {0} /\ next <= MaxId + 1
  BY Typed DEF StepTypes, ReadMailbox
<1>2. PICK k \in CallRecord : k = call[c] /\ k.plan = << >> /\ k.access \in Access
  BY <1>1, ReadingCall
<1>3. session[c] # None
  BY <1>1, ReadingCall
<1>4. \/ k.op = "AppendToFile" /\ k.arg \in Content
      \/ k.op = "RevokeAccess" /\ k.arg \in User
      \/ k.op = "CreateInvitation" /\ k.arg \in User
  BY <1>1, <1>2, ReadingCall
<1>5. PICK m \in Id : m = k.access.mailbox
  BY <1>2 DEF Access
<1>6. CASE mailbox[m] = None
  <2>1. Refuse(c)
    BY <1>2, <1>5, <1>6 DEF ReadMailbox
  <2> QED
    BY <2>1, RefuseStep
<1>7. CASE mailbox[m] # None /\ k.op = "CreateInvitation"
  <2>1. PICK box \in MailboxNode : box = mailbox[m]
    BY <1>1, <1>7, Typed
  <2>2. next \in Id /\ next + 1 \in 1 .. MaxId + 1 /\ next' = next + 1
    BY <1>1, <1>2, <1>5, <1>7, BoundsAssumption DEF ReadMailbox, CanDraw, Id
  <2>3. UNCHANGED <<session, Store, revoked, late, issued, batch>>
    BY <1>2, <1>5, <1>7 DEF ReadMailbox
  <2> DEFINE pm == Put("mailbox", next, box)
             pl == Lookup(k.arg)
  <2>4. pm \in SetItem /\ pm \in Item /\ pl \in Item /\ pl \notin SetItem
    <3>1. pl.kind = "lookup"
      BY DEF Lookup
    <3>2. pm \in SetItem
      BY <2>2, PutTyped
    <3>3. pl \in Item
      BY <1>4, <1>7, ItemKinds
    <3> QED
      BY <3>1, <3>2, <3>3, ItemKinds
  <2> HIDE DEF pm, pl
  <2>5. PICK plan \in Seq(Item) : plan = <<pm, pl>> /\ Range(plan) = {pm, pl}
    BY <2>4, ShortPlans
  <2> DEFINE on == [[k EXCEPT !.box = box] EXCEPT !.made = next, !.plan = plan]
  <2>6. /\ on \in CallRecord /\ on.plan = plan /\ on.made = next /\ on.arg = k.arg
        /\ on.op = k.op /\ on.access = k.access /\ on.box = box
    BY <2>2 DEF CallRecord
  <2>7. call' = [call EXCEPT ![c] = on]
    BY <1>2, <1>5, <1>7, <2>1, <2>5 DEF ReadMailbox, pm, pl
  <2> HIDE DEF on
  <2>8. CallShape(on)
    <3>1. on.plan = <<Put("mailbox", on.made, on.box), Lookup(on.arg)>>
      BY <2>5, <2>6 DEF pm, pl
    <3>2. InvitationShape(on)
      BY <1>4, <1>7, <2>2, <2>6, <3>1 DEF InvitationShape
    <3> QED
      BY <1>2, <1>7, <2>6, <3>2 DEF CallShape
  <2>9. batch' \subseteq SUBSET Id /\ next' \in 1 .. MaxId + 1
    BY <2>2, <2>3 DEF StepTypes, CallsTyped
  <2>10. \A p \in Range(on.plan) : p \in SetItem => p \in Puts \cup {pm}
    BY <2>4, <2>5, <2>6
  <2>11. StepTypes' /\ PlansMore({pm})
    BY <1>3, <2>3, <2>6, <2>7, <2>8, <2>9, <2>10, PlanningStep
  <2>12. CopyStep(box)
    BY <2>2, <2>3, <2>11 DEF CopyStep, pm
  <2> QED
    BY <2>11, <2>12 DEF StepEffect
<1>8. CASE mailbox[m] # None /\ k.op # "CreateInvitation"
  <2>1. PICK box \in MailboxNode : box = mailbox[m]
    BY <1>1, <1>8, Typed
  <2> DEFINE on == [k EXCEPT !.box = box]
  <2>2. /\ on \in CallRecord /\ on.plan = << >> /\ on.arg = k.arg
        /\ on.op = k.op /\ on.access = k.access
    BY <1>2 DEF CallRecord
  <2>3. /\ call' = [call EXCEPT ![c] = on]
        /\ UNCHANGED <<session, Store, revoked, late, issued, next, batch>>
    BY <1>2, <1>5, <1>8, <2>1 DEF ReadMailbox
  <2> HIDE DEF on
  <2>4. Range(on.plan) = {}
    BY <2>2 DEF Range
  <2>5. CallShape(on)
    BY <1>2, <1>4, <1>8, <2>2, <2>4 DEF CallShape
  <2>6. batch' \subseteq SUBSET Id /\ next' \in 1 .. MaxId + 1
    BY <1>1, <2>3 DEF StepTypes, CallsTyped, TypeOK
  <2>7. \A p \in Range(on.plan) : p \in SetItem => p \in Puts \cup {}
    BY <2>4
  <2>8. StepTypes' /\ PlansMore({})
    BY <1>3, <2>2, <2>3, <2>5, <2>6, <2>7, PlanningStep
  <2> QED
    BY <2>3, <2>8 DEF StepEffect, QuietStep
<1> QED
  BY <1>6, <1>7, <1>8

\* The children RevokeAccess keeps, in any order.
LEMMA OrdersAreSeqs ==
    ASSUME NEW a \in Access, NEW r \in User, NEW children \in Orders(KeptChildren(a, r))
    PROVE  children \in Seq(Id)
<1> DEFINE S == KeptChildren(a, r)
<1>1. S \in SUBSET Id
  BY DEF KeptChildren, Access, ChildrenMap
<1>2. IsFiniteSet(Id)
  BY BoundsAssumption, FS_Interval DEF Id
<1>3. Cardinality(S) \in Nat
  BY <1>1, <1>2, FS_Subset, FS_CardinalityType
<1>4. children \in [1 .. Cardinality(S) -> S]
  BY DEF Orders
<1> HIDE DEF S
<1>5. PICK n \in Nat : children \in [1 .. n -> S]
  BY <1>3, <1>4
<1>6. children \in [1 .. n -> Id]
  BY <1>1, <1>5
<1> QED
  BY <1>6, SeqDef

LEMMA ReadInodeStep ==
    ASSUME StepTypes, NEW c \in Client, ReadInode(c)
    PROVE  StepTypes' /\ StepEffect
<1>1. /\ TypeOK /\ Reading(c) /\ next \in Nat \ {0} /\ next <= MaxId + 1
  BY Typed DEF StepTypes, ReadInode
<1>2. PICK k \in CallRecord : k = call[c] /\ k.plan = << >> /\ k.access \in Access
  BY <1>1, ReadingCall
<1>3. session[c] # None /\ session[c] \in Session
  BY <1>1, ReadingCall, Typed
<1>4. PICK box \in MailboxNode : box = k.box
  BY <1>2 DEF ReadInode, CallRecord
<1>5. \/ k.op = "AppendToFile" /\ k.arg \in Content
      \/ k.op = "RevokeAccess" /\ k.arg \in User
  BY <1>1, <1>2, ReadingCall DEF ReadInode
<1>6. PICK i \in Id : i = box.inode
  BY DEF MailboxNode
<1>7. CASE ~decryptAndVerify(inode[i], box.fileKey)
  <2>1. Refuse(c)
    BY <1>2, <1>4, <1>6, <1>7 DEF ReadInode
  <2> QED
    BY <2>1, RefuseStep
<1>8. CASE decryptAndVerify(inode[i], box.fileKey) /\ k.op = "AppendToFile"
  <2>1. inode[box.inode] # None
    BY <1>6, <1>8 DEF decryptAndVerify
  <2>2. PICK content \in Content : content = k.arg
    BY <1>5, <1>8
  <2>3. /\ CanDraw(Len(content)) /\ GoOn(c, AppendPlan(box, inode[box.inode], content))
        /\ batch' = batch \cup {Range(NewBlocks(next, Len(content)))}
        /\ next' = next + Len(content)
        /\ UNCHANGED <<session, Store, revoked, late, issued>>
    BY <1>2, <1>4, <1>6, <1>8, <2>2 DEF ReadInode
  <2>4. PICK plan \in Seq(Item) : plan = AppendPlan(box, inode[box.inode], content) /\ plan # << >>
    BY <1>1, <2>1, <2>3, AppendPlanItems
  <2> DEFINE pi == Put("inode", box.inode,
                       encryptAndMAC(inode[box.inode].plain \o NewBlocks(next, Len(content)),
                                     box.fileKey))
             new == {pi} \cup Range(PutBlocks(next, content, box.fileKey))
  <2>5. Range(plan) = new /\ new \subseteq SetItem
    BY <1>1, <2>1, <2>3, <2>4, AppendPlanItems
  <2> HIDE DEF new
  <2> DEFINE on == [k EXCEPT !.plan = plan]
  <2>6. on \in CallRecord /\ on.plan = plan /\ on.op = k.op /\ on.arg = k.arg /\ on.access = k.access
    BY WithPlan
  <2>7. call' = [call EXCEPT ![c] = on]
    BY <1>2, <2>3, <2>4 DEF GoOn
  <2> HIDE DEF on
  <2>8. CallShape(on)
    BY <1>2, <1>5, <1>8, <2>5, <2>6 DEF CallShape
  <2>9. /\ next + Len(content) \in 1 .. MaxId + 1 /\ next + Len(content) <= MaxId + 1
        /\ Len(content) \in Nat
    BY <1>1, <2>3, ContentIsSeq, BoundsAssumption DEF CanDraw
  <2>10. Range(NewBlocks(next, Len(content))) \subseteq Id
    <3>1. NewBlocks(next, Len(content)) \in Seq(Id)
      BY <1>1, <2>9, NewBlocksProperties
    <3> QED
      BY <3>1, IdsOfSeq
  <2>11. batch' \subseteq SUBSET Id /\ next' \in 1 .. MaxId + 1
    BY <2>3, <2>9, <2>10 DEF StepTypes, CallsTyped
  <2>12. \A p \in Range(on.plan) : p \in SetItem => p \in Puts \cup new
    BY <2>5, <2>6
  <2>13. StepTypes' /\ PlansMore(new)
    BY <1>3, <2>3, <2>6, <2>7, <2>8, <2>11, <2>12, PlanningStep
  <2>14. AppendStep(box, content)
    BY <2>1, <2>3, <2>9, <2>13 DEF AppendStep, new
  <2> QED
    BY <2>13, <2>14 DEF StepEffect
<1>9. CASE decryptAndVerify(inode[i], box.fileKey) /\ k.op = "RevokeAccess"
  <2>1. inode[box.inode] # None
    BY <1>6, <1>9 DEF decryptAndVerify
  <2>2. PICK r \in User, a \in Access, h \in Handle :
            r = k.arg /\ a = k.access /\ h = HandleOf(c)
    BY <1>2, <1>3, <1>5, <1>9 DEF HandleOf, Handle, Session, CallRecord
  <2> DEFINE pa == Put("access", h, WithoutChild(a, r, next + 1))
             pu == PutUser(c, k.filename)
  <2>3. PICK children \in Orders(KeptChildren(a, r)) :
            GoOn(c, RekeyPlan(box, inode[box.inode], children, <<pa, pu>>))
    BY <1>2, <1>4, <1>6, <1>9, <2>2 DEF ReadInode
  <2>4. /\ CanDraw(2) /\ next' = next + 2
        /\ UNCHANGED <<session, Store, revoked, late, issued, batch>>
    BY <1>2, <1>4, <1>6, <1>9 DEF ReadInode
  <2>5. next \in Id /\ next + 1 \in Id /\ next + 2 \in 1 .. MaxId + 1
    BY <1>1, <2>4, BoundsAssumption DEF CanDraw, Id
  <2>6. pa \in SetItem /\ pa.store = "access"
    <3>1. WithoutChild(a, r, next + 1) \in Access
      BY <2>5 DEF WithoutChild, Access, ChildrenMap
    <3> QED
      BY <3>1, PutTyped DEF Put
  <2>7. pu \in SetItem /\ pu.store = "user"
    BY <1>3, PutTyped DEF PutUser, Session, UserRecord, Put, CallRecord
  <2> HIDE DEF pa, pu
  <2>8. children \in Seq(Id)
    BY OrdersAreSeqs
  <2> DEFINE pi == Put("inode", box.inode, encryptAndMAC(inode[box.inode].plain, next))
             pm == Put("mailbox", next + 1, [fileKey |-> next, inode |-> box.inode])
             new == {pi, pm, pa, pu}
  <2>9. PICK plan \in Seq(Item) :
            /\ plan = RekeyPlan(box, inode[box.inode], children, <<pa, pu>>) /\ plan # << >>
            /\ Range(plan) \subseteq new \cup FetchItem /\ new \subseteq SetItem
    BY <1>1, <2>1, <2>4, <2>6, <2>7, <2>8, RekeyPlanItems
  <2> HIDE DEF new
  <2> DEFINE on == [k EXCEPT !.plan = plan]
  <2>10. /\ on \in CallRecord /\ on.plan = plan /\ on.op = k.op /\ on.arg = k.arg
         /\ on.access = k.access /\ on.box = k.box
    BY WithPlan
  <2>11. call' = [call EXCEPT ![c] = on]
    BY <1>2, <2>3, <2>9 DEF GoOn
  <2> HIDE DEF on
  <2>12. CallShape(on)
    <3>1. box # None
      BY NoneAssumption
    <3> QED
      BY <1>2, <1>4, <1>5, <1>9, <2>9, <2>10, <3>1 DEF CallShape
  <2>13. batch' \subseteq SUBSET Id /\ next' \in 1 .. MaxId + 1
    BY <2>4, <2>5 DEF StepTypes, CallsTyped
  <2>14. \A p \in Range(on.plan) : p \in SetItem => p \in Puts \cup new
    <3>1. \A p \in FetchItem : p \notin SetItem
      BY ItemKinds
    <3> QED
      BY <2>9, <2>10, <3>1
  <2>15. StepTypes' /\ PlansMore(new)
    BY <1>3, <2>4, <2>10, <2>11, <2>12, <2>13, <2>14, PlanningStep
  <2>16. RekeyStep(box, pa, pu)
    BY <2>1, <2>4, <2>5, <2>6, <2>7, <2>15 DEF RekeyStep, new
  <2> QED
    BY <2>6, <2>7, <2>15, <2>16 DEF StepEffect
<1> QED
  BY <1>5, <1>7, <1>8, <1>9

\* A call whose next storage operation is a Set.
LEMMA PlannedSet ==
    ASSUME StepTypes, NEW c \in Client, Planned(c, "set")
    PROVE  /\ call[c] # None /\ call[c] \in CallRecord /\ CallShape(call[c]) /\ session[c] # None
           /\ call[c].plan # << >>
           /\ Head(call[c].plan) \in SetItem /\ Head(call[c].plan) \in Puts
           /\ Tail(call[c].plan) \in Seq(Item)
           /\ \A p \in Range(Tail(call[c].plan)) : p \in SetItem => p \in Puts
<1>1. /\ call[c] # None /\ call[c] \in CallRecord /\ CallShape(call[c]) /\ session[c] # None
      /\ call[c].plan # << >> /\ Head(call[c].plan).kind = "set"
  BY DEF StepTypes, CallsTyped, Planned
<1>2. /\ Head(call[c].plan) \in SetItem /\ Head(call[c].plan) \in Range(call[c].plan)
      /\ Tail(call[c].plan) \in Seq(Item)
      /\ Range(Tail(call[c].plan)) \subseteq Range(call[c].plan)
  BY <1>1, RestShape
<1> QED
  BY <1>1, <1>2 DEF Puts

LEMMA DoSetStep ==
    ASSUME StepTypes, NEW c \in Client, DoSet(c)
    PROVE  StepTypes' /\ StepEffect
<1>1. TypeOK /\ CallsTyped /\ Planned(c, "set") /\ late \in [Client -> SetItem \cup {None}]
  BY DEF StepTypes, CallsTyped, DoSet
<1>2. PICK k \in CallRecord : k = call[c] /\ k # None /\ CallShape(k) /\ k.plan # << >>
  BY <1>1, PlannedSet
<1>3. session[c] # None
  BY <1>1, PlannedSet
<1>4. PICK p \in SetItem : p = Head(k.plan) /\ p \in Puts
  BY <1>1, <1>2, PlannedSet
<1>5. PICK rest \in Seq(Item) : /\ rest = Tail(k.plan)
                                /\ \A q \in Range(rest) : q \in SetItem => q \in Puts
  BY <1>1, <1>2, PlannedSet
<1>6. /\ Write(p) /\ Remember(c, p) /\ GoOn(c, rest) /\ UNCHANGED <<next, late, batch>>
      /\ revoked' = IF k.op = "RevokeAccess" /\ p.store = "access"
                    THEN revoked \cup ({k.access.children[k.arg]} \ {None}) ELSE revoked
      /\ issued' = IF k.op = "CreateInvitation" /\ rest = << >>
                   THEN issued \cup {k.arg} ELSE issued
  BY <1>2, <1>4, <1>5 DEF DoSet
<1>7. /\ p.kind = "set"
      /\ rest # << >> => CallShape([k EXCEPT !.plan = rest])
      /\ k.op = "CreateInvitation" /\ rest = << >> => k.arg \in Id
      /\ k.op = "RevokeAccess" => k.access \in Access /\ k.arg \in User
  <2>1. p.kind = "set"
    BY SetItemTyped
  <2>2. Head(k.plan).kind = "set"
    BY <1>4, <2>1
  <2> QED
    BY <1>2, <1>5, <2>1, <2>2, RestShape
<1>8. /\ session' \in [Client -> Session \cup {None}] /\ session'[c] # None
      /\ \A d \in Client \ {c} : session'[d] = session[d]
  BY <1>1, <1>3, <1>6, RememberTyped
<1>9. revoked' \subseteq Id
  BY <1>1, <1>6, <1>7 DEF TypeOK, Access, ChildrenMap
<1>10. issued' \subseteq Id
  BY <1>1, <1>6, <1>7 DEF CallsTyped
<1>11. TypeOK'
  <2>1. next' \in 1 .. MaxId + 1
    BY <1>1, <1>6 DEF TypeOK
  <2> QED
    BY <1>1, <1>6, <1>8, <1>9, <2>1, TypeOKAfter
<1> DEFINE on == [k EXCEPT !.plan = rest]
<1>12. on \in CallRecord /\ on.plan = rest
  BY WithPlan
<1>13. (rest # << >> => CallShape(on))
  BY <1>7
<1> HIDE DEF on
<1>14. PICK k1 : call' = [call EXCEPT ![c] = k1] /\ (k1 # None => k1 = on /\ rest # << >>)
  BY <1>2, <1>6 DEF GoOn, on
<1>15. CallsTyped'
  <2>1. k1 # None => k1 \in CallRecord /\ CallShape(k1) /\ session'[c] # None
    BY <1>8, <1>12, <1>13, <1>14
  <2>2. late' \in [Client -> SetItem \cup {None}] /\ batch' \subseteq SUBSET Id
    BY <1>1, <1>6 DEF CallsTyped
  <2> QED
    BY <1>1, <1>8, <1>10, <1>14, <2>1, <2>2, CallsTypedAfter
<1>16. Puts' \subseteq Puts \cup {}
  <2>1. k1 # None => \A q \in Range(k1.plan) : q \in SetItem => q \in Puts \cup {}
    BY <1>5, <1>12, <1>14
  <2>2. \A d \in Client : late'[d] # None => late'[d] = late[d] \/ late'[d] \in Puts
    BY <1>6
  <2> QED
    BY <1>1, <1>14, <2>1, <2>2, PutsAfter
<1>17. Writes(p)
  BY <1>4, <1>6, <1>16 DEF Writes
<1> QED
  BY <1>11, <1>15, <1>17 DEF StepTypes, StepEffect

\* RevokeAccess goes on with the block or mailbox it read, to be put back.
LEMMA PutBackStep ==
    ASSUME StepTypes, NEW c \in Client, NEW k \in CallRecord, k = call[c], k # None,
           CallShape(k), k.op = "RevokeAccess", k.plan # << >>, NEW back \in SetItem,
           GoOn(c, <<back>> \o Tail(k.plan)), UNCHANGED <<vars, late, issued, batch>>
    PROVE  StepTypes' /\ PlansMore({back})
<1>1. PICK s \in Seq(Item) : s = k.plan /\ s # << >>
  BY DEF CallRecord
<1>2. PICK rest \in Seq(Item) : rest = Tail(s) /\ Range(rest) \subseteq Range(s)
  BY <1>1, HeadAndTail
<1>3. PICK b \in Seq(Item) : b = <<back>> /\ Range(b) = {back} /\ b # << >>
  BY ItemKinds, ShortPlans
<1>4. b \o rest \in Seq(Item)
  BY JoinedPlans
<1>5. Range(b \o rest) = Range(b) \cup Range(rest)
  BY JoinedPlans
<1>6. b \o rest # << >>
  BY <1>3, JoinedPlans
<1>7. PICK plan \in Seq(Item) : /\ plan = b \o rest /\ plan # << >>
                                /\ Range(plan) = {back} \cup Range(rest)
  BY <1>3, <1>4, <1>5, <1>6
<1> DEFINE on == [k EXCEPT !.plan = plan]
<1>8. /\ on \in CallRecord /\ on.plan = plan /\ on.op = k.op /\ on.arg = k.arg
      /\ on.access = k.access /\ on.box = k.box
  BY WithPlan
<1>9. call' = [call EXCEPT ![c] = on]
  BY <1>1, <1>2, <1>3, <1>7 DEF GoOn
<1> HIDE DEF on
<1>10. CallShape(on)
  BY <1>1, <1>2, <1>7, <1>8 DEF CallShape
<1>11. /\ UNCHANGED <<session, Store, revoked, late, issued>> /\ session[c] # None
       /\ batch' \subseteq SUBSET Id /\ next' \in 1 .. MaxId + 1
  BY DEF StepTypes, CallsTyped, TypeOK, vars, Store
<1>12. \A p \in Range(on.plan) : p \in SetItem => p \in Puts \cup {back}
  BY <1>1, <1>2, <1>7, <1>8 DEF Puts
<1> QED
  BY <1>8, <1>9, <1>10, <1>11, <1>12, PlanningStep

\* A call whose next storage operation is a Get of RevokeAccess.
LEMMA PlannedFetch ==
    ASSUME StepTypes, NEW c \in Client, Planned(c, "fetch")
    PROVE  /\ call[c] # None /\ call[c] \in CallRecord /\ CallShape(call[c])
           /\ call[c].plan # << >> /\ call[c].op = "RevokeAccess"
           /\ Head(call[c].plan) \in FetchItem
<1>1. CallsTyped
  BY DEF StepTypes
<1>2. PICK k \in CallRecord : /\ k = call[c] /\ k # None /\ CallShape(k) /\ k.plan # << >>
                              /\ Head(k.plan).kind = "fetch"
  BY <1>1 DEF CallsTyped, Planned
<1>3. PICK s \in Seq(Item) : s = k.plan /\ s # << >>
  BY <1>2 DEF CallRecord
<1>4. PICK p \in Item : p = Head(s) /\ p \in Range(s) /\ p.kind = "fetch"
  BY <1>2, <1>3, HeadAndTail
<1>5. p \notin SetItem
  BY <1>4, ItemKinds
<1>6. k.op = "RevokeAccess"
  <2>1. k.op # "CreateInvitation"
    <3>1. SUFFICES ASSUME InvitationShape(k) PROVE FALSE
      BY <1>2 DEF CallShape
    <3>2. CASE s \in {<<Put("mailbox", k.made, k.box), Lookup(k.arg)>>, <<Lookup(k.arg)>>}
      <4>1. p \in {Put("mailbox", k.made, k.box), Lookup(k.arg)}
        BY <1>4, <3>2
      <4> QED
        BY <1>4, <4>1 DEF Put, Lookup
    <3>3. ASSUME NEW x \in SetItem, NEW y \in SetItem, s \in {<<x, y>>, <<y>>} PROVE FALSE
      <4>1. p \in {x, y}
        BY <1>4, <3>3
      <4> QED
        BY <1>5, <4>1
    <3> QED
      BY <1>3, <3>1, <3>2, <3>3 DEF InvitationShape
  <2> QED
    BY <1>2, <1>3, <1>4, <1>5, <2>1 DEF CallShape
<1>7. p \in FetchItem
  BY <1>2, <1>3, <1>4, <1>5, <1>6 DEF CallShape
<1> QED
  BY <1>2, <1>3, <1>4, <1>6, <1>7

LEMMA DoFetchStep ==
    ASSUME StepTypes, NEW c \in Client, DoFetch(c)
    PROVE  StepTypes' /\ StepEffect
<1>1. TypeOK /\ CallsTyped /\ Planned(c, "fetch")
  BY DEF StepTypes, DoFetch
<1>2. PICK k \in CallRecord : /\ k = call[c] /\ k # None /\ CallShape(k) /\ k.plan # << >>
                              /\ k.op = "RevokeAccess"
  BY <1>1, PlannedFetch
<1>3. PICK p \in FetchItem : p = Head(k.plan)
  BY <1>1, <1>2, PlannedFetch
<1>4. PICK x \in Id, v \in Id : x = p.at /\ v = p.value
  BY <1>3, ItemKinds
<1>5. p.store \in {"block", "mailbox"} /\ p = Head(call[c].plan)
  BY <1>2, <1>3, ItemKinds
<1>6. CASE Refuse(c)
  BY <1>6, RefuseStep
<1>7. CASE /\ p.store = "block" /\ decryptAndVerify(block[x], call[c].box.fileKey)
            /\ GoOn(c, <<Put("block", x, encryptAndMAC(block[x].plain, v))>> \o Tail(k.plan))
            /\ UNCHANGED <<vars, late, issued, batch>>
  <2>1. block[x] # None /\ block[x] \in SealedBlock
    BY <1>1, <1>7, Typed DEF decryptAndVerify
  <2>2. PICK back \in SetItem : back = Put("block", x, encryptAndMAC(block[x].plain, v))
    BY <2>1, PutTyped DEF encryptAndMAC, SealedBlock
  <2>3. GoOn(c, <<back>> \o Tail(k.plan)) /\ UNCHANGED <<vars, late, issued, batch>>
    BY <1>7, <2>2
  <2>4. StepTypes' /\ PlansMore({back})
    BY <1>2, <2>3, PutBackStep
  <2>5. BlockBackStep(x, v)
    BY <1>7, <2>1, <2>2, <2>4 DEF BlockBackStep, vars
  <2> QED
    BY <2>4, <2>5 DEF StepEffect
<1>8. CASE /\ p.store = "mailbox" /\ mailbox[x] # None
            /\ GoOn(c, <<Put("mailbox", x, [mailbox[x] EXCEPT !.fileKey = v])>> \o Tail(k.plan))
            /\ UNCHANGED <<vars, late, issued, batch>>
  <2>1. mailbox[x] \in MailboxNode
    BY <1>1, <1>8, Typed
  <2>2. PICK back \in SetItem : back = Put("mailbox", x, [mailbox[x] EXCEPT !.fileKey = v])
    BY <2>1, PutTyped DEF MailboxNode
  <2>3. GoOn(c, <<back>> \o Tail(k.plan)) /\ UNCHANGED <<vars, late, issued, batch>>
    BY <1>8, <2>2
  <2>4. StepTypes' /\ PlansMore({back})
    BY <1>2, <2>3, PutBackStep
  <2>5. MailboxBackStep(x, v)
    BY <1>8, <2>2, <2>4 DEF MailboxBackStep, vars
  <2> QED
    BY <2>4, <2>5 DEF StepEffect
<1>9. \/ Refuse(c)
       \/ /\ p.store = "block" /\ decryptAndVerify(block[x], call[c].box.fileKey)
          /\ GoOn(c, <<Put("block", x, encryptAndMAC(block[x].plain, v))>> \o Tail(k.plan))
          /\ UNCHANGED <<vars, late, issued, batch>>
       \/ /\ p.store = "mailbox" /\ mailbox[x] # None
          /\ GoOn(c, <<Put("mailbox", x, [mailbox[x] EXCEPT !.fileKey = v])>> \o Tail(k.plan))
          /\ UNCHANGED <<vars, late, issued, batch>>
  BY <1>2, <1>4, <1>5 DEF DoFetch
<1> QED
  BY <1>6, <1>7, <1>8, <1>9

LEMMA DoLookupStep ==
    ASSUME StepTypes, NEW c \in Client, DoLookup(c)
    PROVE  StepTypes' /\ StepEffect
<1>1. TypeOK /\ CallsTyped /\ Planned(c, "lookup") /\ next \in Nat \ {0} /\ next <= MaxId + 1
  BY Typed DEF StepTypes, DoLookup
<1>2. PICK k \in CallRecord : /\ k = call[c] /\ k # None /\ CallShape(k) /\ k.plan # << >>
                              /\ Head(k.plan).kind = "lookup"
  BY <1>1 DEF CallsTyped, Planned
<1>3. PICK s \in Seq(Item) : s = k.plan /\ s # << >>
  BY <1>2 DEF CallRecord
<1>4. PICK p \in Item : p = Head(s) /\ p \in Range(s) /\ p.kind = "lookup"
  BY <1>2, <1>3, HeadAndTail
<1>5. p \notin SetItem /\ p \notin FetchItem
  BY <1>4, ItemKinds
<1>6. k.op = "CreateInvitation" /\ k.access \in Access /\ InvitationShape(k)
  BY <1>2, <1>3, <1>4, <1>5 DEF CallShape
<1>7. k.made \in Id /\ k.arg \in User
  <2>1. ASSUME NEW x \in SetItem, NEW y \in SetItem, s \in {<<x, y>>, <<y>>} PROVE FALSE
    <3>1. p \in {x, y}
      BY <1>4, <2>1
    <3> QED
      BY <1>5, <3>1
  <2> QED
    BY <1>3, <1>6, <2>1 DEF InvitationShape
<1>8. CASE Refuse(c)
  BY <1>8, RefuseStep
<1>9. CASE ~Refuse(c)
  <2>1. PICK r \in User, h \in Handle : r = k.arg /\ h = HandleOf(c)
    BY <1>1, <1>2, <1>7, Typed DEF HandleOf, Handle, Session, CallRecord, CallsTyped
  <2> DEFINE pj == Put("invitation", next, SealedInvitation(session[c].name, k.filename, r, k.made))
             pa == Put("access", h, WithChild(k.access, r, k.made))
  <2>2. /\ CanDraw(1) /\ next' = next + 1
        /\ UNCHANGED <<session, Store, revoked, late, issued, batch>>
        /\ call' = [call EXCEPT ![c] = [k EXCEPT !.arg = next, !.plan = <<pj, pa>>]]
    BY <1>2, <1>9, <2>1 DEF DoLookup
  <2>3. next \in Id /\ next + 1 \in 1 .. MaxId + 1
    BY <1>1, <2>2, BoundsAssumption DEF CanDraw, Id
  <2>4. session[c] # None /\ session[c] \in Session
    BY <1>1, <1>2, Typed DEF CallsTyped
  <2>5. pj \in SetItem /\ pj.store = "invitation" /\ pj.at = next
    <3>1. SealedInvitation(session[c].name, k.filename, r, k.made) \in Invitation
      BY <1>7, <2>4 DEF SealedInvitation, Invitation, Session, CallRecord
    <3> QED
      BY <2>3, <3>1, PutTyped DEF Put
  <2>6. pa \in SetItem /\ pa.store = "access"
    <3>1. WithChild(k.access, r, k.made) \in Access
      BY <1>6, <1>7 DEF WithChild, Access, ChildrenMap
    <3> QED
      BY <3>1, PutTyped DEF Put
  <2> HIDE DEF pj, pa
  <2>7. PICK plan \in Seq(Item) : plan = <<pj, pa>> /\ Range(plan) = {pj, pa}
    <3>1. pj \in Item /\ pa \in Item
      BY <2>5, <2>6, ItemKinds
    <3> QED
      BY <3>1, ShortPlans
  <2> DEFINE on == [k EXCEPT !.arg = next, !.plan = plan]
  <2>8. /\ on \in CallRecord /\ on.plan = plan /\ on.op = k.op /\ on.arg = next
        /\ on.access = k.access /\ on.made = k.made
    BY <2>3 DEF CallRecord
  <2>9. call' = [call EXCEPT ![c] = on]
    BY <2>2, <2>7
  <2> HIDE DEF on
  <2>10. CallShape(on)
    <3>1. on.plan \in {<<pj, pa>>, <<pa>>}
      BY <2>7, <2>8
    <3>2. InvitationShape(on)
      BY <1>7, <2>3, <2>5, <2>6, <2>8, <3>1 DEF InvitationShape
    <3> QED
      BY <1>6, <2>8, <3>2 DEF CallShape
  <2>11. batch' \subseteq SUBSET Id /\ next' \in 1 .. MaxId + 1 /\ next' >= next
    BY <1>1, <2>2, <2>3 DEF CallsTyped
  <2>12. \A q \in Range(on.plan) : q \in SetItem => q \in Puts \cup {pj, pa}
    BY <2>7, <2>8
  <2>13. StepTypes' /\ PlansMore({pj, pa})
    BY <2>2, <2>4, <2>8, <2>9, <2>10, <2>11, <2>12, PlanningStep
  <2>14. RecordStep({pj, pa})
    BY <2>2, <2>5, <2>6, <2>11, <2>13 DEF RecordStep
  <2> QED
    BY <2>5, <2>6, <2>13, <2>14 DEF StepEffect
<1> QED
  BY <1>8, <1>9

LEMMA InterruptedStep ==
    ASSUME StepTypes, NEW c \in Client, Interrupted(c)
    PROVE  StepTypes' /\ StepEffect
<1> DEFINE p == Head(call[c].plan)
<1>1. /\ TypeOK /\ CallsTyped /\ call[c] # None /\ session[c] # None
      /\ call' = [call EXCEPT ![c] = None] /\ UNCHANGED <<revoked, next, issued, batch>>
      /\ session \in [Client -> Session \cup {None}]
  BY DEF StepTypes, CallsTyped, Interrupted, TypeOK
<1>2. Planned(c, "set") => p \in SetItem /\ p \in Puts
  BY PlannedSet
<1>3. /\ session' \in [Client -> Session \cup {None}]
      /\ \A d \in Client \ {c} : session'[d] = session[d]
  <2>1. CASE session' = [session EXCEPT ![c] = None]
    BY <1>1, <2>1
  <2>2. CASE Planned(c, "set") /\ Remember(c, p)
    BY <1>1, <1>2, <2>2, RememberTyped
  <2>3. CASE UNCHANGED session
    BY <1>1, <2>3
  <2> QED
    BY <2>1, <2>2, <2>3 DEF Interrupted
<1>4. \/ UNCHANGED <<Store, late>>
      \/ Planned(c, "set") /\ Write(p) /\ UNCHANGED late
      \/ Planned(c, "set") /\ late' = [late EXCEPT ![c] = p] /\ UNCHANGED Store
  BY DEF Interrupted
<1> HIDE DEF p
<1>5. TypeOK'
  <2>1. UNCHANGED Store \/ \E q \in SetItem : Write(q)
    BY <1>2, <1>4
  <2>2. revoked' \subseteq Id /\ next' \in 1 .. MaxId + 1
    BY <1>1 DEF TypeOK
  <2> QED
    BY <1>1, <1>3, <2>1, <2>2, TypeOKAfter
<1>6. /\ late' \in [Client -> SetItem \cup {None}]
      /\ \A d \in Client : late'[d] # None => late'[d] = late[d] \/ late'[d] \in Puts
  BY <1>1, <1>2, <1>4 DEF CallsTyped
<1>7. CallsTyped'
  <2>1. issued' \subseteq Id /\ batch' \subseteq SUBSET Id
    BY <1>1 DEF CallsTyped
  <2> QED
    BY <1>1, <1>3, <1>6, <2>1, CallsTypedAfter
<1>8. Puts' \subseteq Puts \cup {}
  BY <1>1, <1>6, PutsAfter
<1>9. QuietStep \/ Writes(p)
  BY <1>1, <1>2, <1>4, <1>8 DEF QuietStep, Writes, PlansMore, Store
<1> QED
  BY <1>2, <1>4, <1>5, <1>7, <1>9 DEF StepTypes, StepEffect, Writes, Puts

LEMMA LateEffectStep ==
    ASSUME StepTypes, NEW c \in Client, LateEffect(c)
    PROVE  StepTypes' /\ StepEffect
<1>1. PICK p \in SetItem : p = late[c] /\ p # None
  BY DEF LateEffect, StepTypes, CallsTyped
<1>2. /\ p \in Puts /\ Write(p) /\ late' = [late EXCEPT ![c] = None]
      /\ UNCHANGED <<session, revoked, next, call, issued, batch>>
  BY <1>1 DEF LateEffect, Puts
<1>3. TypeOK'
  BY <1>2, TypeOKAfter DEF StepTypes, TypeOK
<1>4. CallsTyped'
  BY <1>2 DEF StepTypes, CallsTyped
<1>5. Puts' \subseteq Puts
  BY <1>2 DEF Puts, StepTypes, CallsTyped
<1> QED
  BY <1>2, <1>3, <1>4, <1>5 DEF StepTypes, StepEffect, Writes

\* What is stored stays stored.
LEMMA StoredStays ==
    ASSUME StepTypes, StepEffect \/ UNCHANGED Store
    PROVE  /\ \A h \in Handle : access[h] # None => access'[h] # None
           /\ \A m \in Id : mailbox[m] # None => mailbox'[m] # None
           /\ \A b \in Id : block[b] # None => block'[b] # None
           /\ \A j \in Id : invitation[j] # None => invitation'[j] # None
<1>1. CASE UNCHANGED <<access, mailbox, inode, block, invitation>>
  BY <1>1
<1>2. ASSUME NEW p \in SetItem, Write(p)
      PROVE  /\ \A h \in Handle : access[h] # None => access'[h] # None
             /\ \A m \in Id : mailbox[m] # None => mailbox'[m] # None
             /\ \A b \in Id : block[b] # None => block'[b] # None
             /\ \A j \in Id : invitation[j] # None => invitation'[j] # None
  <2>1. p.store \in {"access", "mailbox", "block", "invitation"} => p.value # None
    BY SetItemTyped, NoneAssumption
  <2>2. \A h \in Handle : access[h] # None => access'[h] # None
    BY <1>2, <2>1 DEF Write, StepTypes, TypeOK
  <2>3. \A m \in Id : mailbox[m] # None => mailbox'[m] # None
    BY <1>2, <2>1 DEF Write, StepTypes, TypeOK
  <2>4. \A b \in Id : block[b] # None => block'[b] # None
    BY <1>2, <2>1 DEF Write, StepTypes, TypeOK
  <2>5. \A j \in Id : invitation[j] # None => invitation'[j] # None
    BY <1>2, <2>1 DEF Write, StepTypes, TypeOK
  <2> QED
    BY <2>2, <2>3, <2>4, <2>5
<1>3. UNCHANGED <<access, mailbox, inode, block, invitation>> \/ \E p \in SetItem : Write(p)
  BY DEF StepEffect, Store, QuietStep, Writes, StoreStep, AppendStep, RekeyStep, RecordStep,
     CopyStep, BlockBackStep, MailboxBackStep, PlansMore
<1> QED
  BY <1>1, <1>2, <1>3

\* A CreateInvitation with one Set left to do has its pointer as argument.
LEMMA SingleSet ==
    ASSUME NEW k \in CallRecord, CallShape(k), k.op = "CreateInvitation",
           NEW q \in SetItem, k.plan = <<q>>
    PROVE  k.arg \in Id
<1>1. InvitationShape(k)
  BY DEF CallShape
<1>2. <<q>> # << >> /\ \A a, b : <<a, b>> # <<q>>
  OBVIOUS
<1>3. ASSUME k.arg \in User PROVE <<Lookup(k.arg)>> # <<q>>
  BY <1>3, ItemKinds, <<Lookup(k.arg)>>[1] = Lookup(k.arg), <<q>>[1] = q
<1> QED
  BY <1>1, <1>2, <1>3 DEF InvitationShape

\* Each step but the end of a CreateInvitation leaves issued alone, and only the Set of
\* its invitation leaves the Set of its access record as the last one to do.
LEMMA IssuedStep ==
    ASSUME StepTypes, IssuedStored, StepNext, StepEffect, StepTypes'
    PROVE  IssuedStored'
<1>1. TypeOK /\ CallsTyped /\ \A j \in Id : invitation[j] # None => invitation'[j] # None
  BY StoredStays DEF StepTypes
<1>2. ASSUME NEW c \in Client, NEW k, call' = [call EXCEPT ![c] = k], issued' = issued,
             k # None /\ k.op = "CreateInvitation" =>
                \A q \in SetItem : k.plan = <<q>> => invitation'[k.arg] # None
      PROVE  IssuedStored'
  <2>1. call'[c] = k /\ \A d \in Client \ {c} : call'[d] = call[d]
    BY <1>1, <1>2 DEF CallsTyped
  <2>2. \A j \in issued' : invitation'[j] # None
    BY <1>1, <1>2 DEF IssuedStored, CallsTyped
  <2>3. ASSUME NEW d \in Client, NEW q \in SetItem, call'[d] # None,
               call'[d].op = "CreateInvitation", call'[d].plan = <<q>>
        PROVE  invitation'[call'[d].arg] # None
    <3>1. CASE d = c
      BY <1>2, <2>1, <2>3, <3>1
    <3>2. CASE d # c
      <4>1. call'[d] = call[d] /\ call[d] # None
        BY <2>1, <2>3, <3>2
      <4>2. call[d].arg \in Id
        BY <1>1, <2>3, <4>1, SingleSet DEF CallsTyped
      <4> QED
        BY <1>1, <2>3, <4>1, <4>2 DEF IssuedStored
    <3> QED
      BY <3>1, <3>2
  <2> QED
    BY <2>2, <2>3 DEF IssuedStored
<1>3. CASE UNCHANGED <<call, issued>>
  <2>1. \A j \in issued' : invitation'[j] # None
    BY <1>1, <1>3 DEF IssuedStored, CallsTyped
  <2>2. ASSUME NEW d \in Client, NEW q \in SetItem, call[d] # None,
               call[d].op = "CreateInvitation", call[d].plan = <<q>>
        PROVE  invitation'[call[d].arg] # None
    <3>1. call[d].arg \in Id
      BY <1>1, <2>2, SingleSet DEF CallsTyped
    <3> QED
      BY <1>1, <2>2, <3>1 DEF IssuedStored
  <2> QED
    BY <1>3, <2>1, <2>2 DEF IssuedStored
<1>4. \A q, a, b : <<q>> # << >> /\ <<a, b>> # <<q>>
  OBVIOUS
<1>5. ASSUME NEW c \in Client, call' = [call EXCEPT ![c] = None], issued' = issued
      PROVE  IssuedStored'
  BY <1>2, <1>5
<1>6. ASSUME NEW c \in Client, NEW f \in Filename, NEW content \in Content, BeginStore(c, f, content)
      PROVE  IssuedStored'
  <2>1. [NewCall("StoreFile", f, content, None) EXCEPT !.plan = StorePlan(c, f, content)].op = "StoreFile"
    BY DEF NewCall
  <2> QED
    BY <1>2, <1>6, <2>1 DEF BeginStore
<1>7. ASSUME NEW c \in Client, NEW s \in User, NEW j \in issued, NEW f \in Filename,
             BeginAccept(c, s, j, f)
      PROVE  IssuedStored'
  <2>1. PICK plan : call' = [call EXCEPT ![c] =
            [NewCall("AcceptInvitation", f, j, None) EXCEPT !.plan = plan]] /\ issued' = issued
    BY <1>7 DEF BeginAccept
  <2>2. [NewCall("AcceptInvitation", f, j, None) EXCEPT !.plan = plan].op = "AcceptInvitation"
    BY DEF NewCall
  <2> QED
    BY <1>2, <2>1, <2>2
<1>8. ASSUME NEW c \in Client, NEW o, NEW f \in Filename, NEW x, NEW n,
             BeginOnAccess(c, o, f, x, n)
      PROVE  IssuedStored'
  <2>1. PICK got : call' = [call EXCEPT ![c] = NewCall(o, f, x, got)] /\ issued' = issued
    BY <1>8 DEF BeginOnAccess
  <2>2. NewCall(o, f, x, got).plan = << >>
    BY DEF NewCall
  <2> QED
    BY <1>2, <1>4, <2>1, <2>2
<1>9. ASSUME NEW c \in Client, ReadMailbox(c) PROVE IssuedStored'
  <2>1. PICK k \in CallRecord : k = call[c] /\ k.plan = << >>
    BY <1>9, ReadingCall DEF ReadMailbox
  <2>2. CASE Refuse(c)
    BY <1>5, <2>2 DEF Refuse
  <2>3. CASE ~Refuse(c)
    <3>1. issued' = issued
      BY <1>9, <2>3 DEF ReadMailbox
    <3>2. CASE k.op = "CreateInvitation"
      <4> DEFINE box == mailbox[k.access.mailbox]
                 a == Put("mailbox", next, box)
                 b == Lookup(k.arg)
      <4>1. call' = [call EXCEPT ![c] =
                 [[k EXCEPT !.box = box] EXCEPT !.made = next, !.plan = <<a, b>>]]
        BY <1>9, <2>1, <2>3, <3>2 DEF ReadMailbox
      <4> HIDE DEF box, a, b
      <4>2. [[k EXCEPT !.box = box] EXCEPT !.made = next, !.plan = <<a, b>>].plan = <<a, b>>
        BY DEF CallRecord
      <4> QED
        BY <1>2, <1>4, <3>1, <4>1, <4>2
    <3>3. CASE k.op # "CreateInvitation"
      <4>1. PICK box : call' = [call EXCEPT ![c] = [k EXCEPT !.box = box]]
        BY <1>9, <2>1, <2>3, <3>3 DEF ReadMailbox
      <4>2. [k EXCEPT !.box = box].plan = << >>
        BY <2>1 DEF CallRecord
      <4> QED
        BY <1>2, <1>4, <3>1, <4>1, <4>2
    <3> QED
      BY <3>2, <3>3
  <2> QED
    BY <2>2, <2>3
<1>10. ASSUME NEW c \in Client, ReadInode(c) PROVE IssuedStored'
  <2>1. PICK k \in CallRecord : k = call[c]
    BY <1>10, ReadingCall DEF ReadInode
  <2>2. CASE Refuse(c)
    BY <1>5, <2>2 DEF Refuse
  <2>3. CASE ~Refuse(c)
    <3>1. PICK plan : /\ issued' = issued /\ k.op # "CreateInvitation"
                      /\ GoOn(c, plan)
      BY <1>10, <2>1, <2>3 DEF ReadInode
    <3>2. [k EXCEPT !.plan = plan].op # "CreateInvitation"
      BY <3>1 DEF CallRecord
    <3>3. CASE plan = << >>
      BY <1>5, <3>1, <3>3 DEF GoOn
    <3>4. CASE plan # << >>
      BY <1>2, <2>1, <3>1, <3>2, <3>4 DEF GoOn
    <3> QED
      BY <3>3, <3>4
  <2> QED
    BY <2>2, <2>3
<1>11. ASSUME NEW c \in Client, DoFetch(c) PROVE IssuedStored'
  <2>1. PICK k \in CallRecord : k = call[c] /\ k.op = "RevokeAccess"
    BY <1>11, PlannedFetch DEF DoFetch
  <2>2. CASE Refuse(c)
    BY <1>5, <2>2 DEF Refuse
  <2>3. CASE ~Refuse(c)
    <3>1. PICK plan : issued' = issued /\ GoOn(c, plan)
      BY <1>11, <2>1, <2>3 DEF DoFetch
    <3>2. [k EXCEPT !.plan = plan].op # "CreateInvitation"
      BY <2>1 DEF CallRecord
    <3>3. CASE plan = << >>
      BY <1>5, <3>1, <3>3 DEF GoOn
    <3>4. CASE plan # << >>
      BY <1>2, <2>1, <3>1, <3>2, <3>4 DEF GoOn
    <3> QED
      BY <3>3, <3>4
  <2> QED
    BY <2>2, <2>3
<1>12. ASSUME NEW c \in Client, DoLookup(c) PROVE IssuedStored'
  <2>1. PICK k \in CallRecord : k = call[c]
    BY <1>1, <1>12 DEF DoLookup, Planned, CallsTyped
  <2>2. CASE Refuse(c)
    BY <1>5, <2>2 DEF Refuse
  <2>3. CASE ~Refuse(c)
    <3>1. PICK a, b : /\ issued' = issued
                      /\ call' = [call EXCEPT ![c] = [k EXCEPT !.arg = next, !.plan = <<a, b>>]]
      BY <1>12, <2>1, <2>3 DEF DoLookup
    <3>2. [k EXCEPT !.arg = next, !.plan = <<a, b>>].plan = <<a, b>>
      BY DEF CallRecord
    <3> QED
      BY <1>2, <1>4, <3>1, <3>2
  <2> QED
    BY <2>2, <2>3
<1>13. ASSUME NEW c \in Client, DoSet(c) PROVE IssuedStored'
  <2>1. PICK k \in CallRecord : k = call[c] /\ k # None /\ CallShape(k) /\ k.plan # << >>
    BY <1>13, PlannedSet DEF DoSet
  <2>2. PICK p \in SetItem : p = Head(k.plan)
    BY <1>13, <2>1, PlannedSet DEF DoSet
  <2>3. PICK rest \in Seq(Item) : rest = Tail(k.plan)
    BY <1>13, <2>1, PlannedSet DEF DoSet
  <2>4. /\ Write(p) /\ GoOn(c, rest)
        /\ issued' = IF k.op = "CreateInvitation" /\ rest = << >>
                     THEN issued \cup {k.arg} ELSE issued
    BY <1>13, <2>1, <2>2, <2>3 DEF DoSet
  <2> DEFINE on == [k EXCEPT !.plan = rest]
  <2>5. on.op = k.op /\ on.plan = rest /\ on.arg = k.arg
    BY WithPlan
  <2>6. call' = [call EXCEPT ![c] = IF rest = << >> THEN None ELSE on]
    BY <2>1, <2>4 DEF GoOn
  <2> HIDE DEF on
  <2>7. CASE k.op # "CreateInvitation"
    <3>1. issued' = issued
      BY <2>4, <2>7
    <3>2. CASE rest = << >>
      BY <1>5, <2>6, <3>1, <3>2
    <3>3. CASE rest # << >>
      BY <1>2, <2>5, <2>6, <2>7, <3>1, <3>3
    <3> QED
      BY <3>2, <3>3
  <2>8. CASE k.op = "CreateInvitation"
    <3>1. InvitationShape(k)
      BY <2>1, <2>8 DEF CallShape
    <3>2. CASE k.arg \in User /\ k.plan \in {<<Put("mailbox", k.made, k.box), Lookup(k.arg)>>, <<Lookup(k.arg)>>}
      <4>1. Lookup(k.arg) \notin SetItem
        BY <3>2, ItemKinds
      <4>2. k.plan # <<Lookup(k.arg)>>
        BY <2>2, <4>1, Head(<<Lookup(k.arg)>>) = Lookup(k.arg)
      <4>3. rest = <<Lookup(k.arg)>>
        <5>1. k.plan = <<Put("mailbox", k.made, k.box), Lookup(k.arg)>>
          BY <3>2, <4>2
        <5> QED
          BY <2>3, <5>1
      <4>4. rest # << >> /\ \A q \in SetItem : rest # <<q>>
        <5>1. <<Lookup(k.arg)>>[1] = Lookup(k.arg) /\ \A q : <<q>>[1] = q
          OBVIOUS
        <5> QED
          BY <1>4, <4>1, <4>3, <5>1
      <4>5. issued' = issued /\ call' = [call EXCEPT ![c] = on]
        BY <2>4, <2>6, <4>4
      <4> QED
        BY <1>2, <2>5, <4>4, <4>5
    <3>3. ASSUME k.arg \in Id, NEW x \in SetItem, NEW y \in SetItem,
                 x.store = "invitation", x.at = k.arg, k.plan = <<x, y>>
          PROVE  IssuedStored'
      <4>1. p = x /\ rest = <<y>>
        BY <2>2, <2>3, <3>3
      <4>2. issued' = issued /\ call' = [call EXCEPT ![c] = on]
        BY <1>4, <2>4, <2>6, <4>1
      <4>3. x.value # None
        BY <3>3, SetItemTyped, NoneAssumption
      <4>4. invitation' = [invitation EXCEPT ![k.arg] = x.value]
        BY <2>4, <3>3, <4>1 DEF Write
      <4>5. invitation'[k.arg] # None
        BY <1>1, <3>3, <4>3, <4>4 DEF TypeOK
      <4> QED
        BY <1>2, <2>5, <4>2, <4>5
    <3>4. ASSUME k.arg \in Id, NEW y \in SetItem, k.plan = <<y>> PROVE IssuedStored'
      <4>1. rest = << >>
        BY <2>3, <3>4
      <4>2. issued' = issued \cup {k.arg} /\ call' = [call EXCEPT ![c] = None]
        BY <2>4, <2>6, <2>8, <4>1
      <4>3. invitation[k.arg] # None
        BY <2>1, <2>8, <3>4 DEF IssuedStored
      <4>4. \A j \in issued' : invitation'[j] # None
        BY <1>1, <3>4, <4>2, <4>3 DEF IssuedStored, CallsTyped
      <4>5. call'[c] = None /\ \A d \in Client \ {c} : call'[d] = call[d]
        BY <1>1, <4>2 DEF CallsTyped
      <4>6. ASSUME NEW d \in Client, NEW q \in SetItem, call'[d] # None,
                   call'[d].op = "CreateInvitation", call'[d].plan = <<q>>
            PROVE  invitation'[call'[d].arg] # None
        <5>1. call'[d] = call[d]
          BY <4>5, <4>6
        <5>2. call[d].arg \in Id
          BY <1>1, <4>6, <5>1, SingleSet DEF CallsTyped
        <5> QED
          BY <1>1, <4>6, <5>1, <5>2 DEF IssuedStored
      <4> QED
        BY <4>4, <4>6 DEF IssuedStored
    <3> QED
      BY <2>1, <3>1, <3>2, <3>3, <3>4 DEF InvitationShape
  <2> QED
    BY <2>7, <2>8
<1>14. ASSUME NEW c \in Client, \E u \in User : UserCall(c, u) PROVE IssuedStored'
  BY <1>3, <1>14 DEF UserCall
<1>15. ASSUME NEW c \in Client, LateEffect(c) PROVE IssuedStored'
  BY <1>3, <1>15 DEF LateEffect
<1>16. ASSUME NEW c \in Client, Interrupted(c) PROVE IssuedStored'
  BY <1>5, <1>16 DEF Interrupted
<1> QED
  BY <1>6, <1>7, <1>8, <1>9, <1>10, <1>11, <1>12, <1>13, <1>14, <1>15, <1>16 DEF StepNext, Begin

\* Every step keeps the types and has one of the effects.
LEMMA StepTyped ==
    ASSUME StepTypes, IssuedStored, StepNext
    PROVE  StepTypes' /\ IssuedStored' /\ StepEffect
<1>1. ASSUME NEW c \in Client, NEW f \in Filename, Begin(c, f) PROVE StepTypes' /\ StepEffect
  <2>1. ASSUME NEW content \in Content,
               BeginStore(c, f, content) \/ BeginOnAccess(c, "AppendToFile", f, content, Len(content))
        PROVE  StepTypes' /\ StepEffect
    BY <2>1, BeginStoreStep, BeginOnAccessStep
  <2>2. ASSUME NEW r \in User, \/ BeginOnAccess(c, "CreateInvitation", f, r, 2)
                               \/ BeginOnAccess(c, "RevokeAccess", f, r, 2)
        PROVE  StepTypes' /\ StepEffect
    BY <2>2, BeginOnAccessStep
  <2>3. ASSUME NEW s \in User, NEW j \in issued, BeginAccept(c, s, j, f)
        PROVE  StepTypes' /\ StepEffect
    BY <2>3, BeginAcceptStep DEF IssuedStored
  <2> QED
    BY <1>1, <2>1, <2>2, <2>3 DEF Begin
<1>2. StepTypes' /\ StepEffect
  BY <1>1, UserCallStep, ReadMailboxStep, ReadInodeStep, DoSetStep, DoFetchStep, DoLookupStep,
     InterruptedStep, LateEffectStep DEF StepNext
<1> QED
  BY <1>2, IssuedStep

\* The types, and where the pointers lead, hold always.
LEMMA StepTypesInvariant == StepSpec => [](StepTypes /\ IssuedStored)
<1>1. StepInit => StepTypes /\ IssuedStored
  <2>1. Init => TypeOK
    BY TreeInit
  <2> QED
    BY <2>1 DEF StepInit, StepTypes, CallsTyped, IssuedStored
<1>2. StepTypes /\ IssuedStored /\ [StepNext]_stepVars => StepTypes' /\ IssuedStored'
  <2>1. CASE UNCHANGED stepVars
    BY <2>1 DEF stepVars, vars, StepTypes, TypeOK, CallsTyped, IssuedStored
  <2> QED
    BY <2>1, StepTyped
<1> QED
  BY <1>1, <1>2, PTL DEF StepSpec

\* Whatever overlaps, fails, dies or lands late, the store and the calls under way are
\* typed: no call works on a record, mailbox or inode that it has not read, and no Set
\* carries anything but an object of the kind its UUID stands for.
THEOREM CallTypes == StepSpec => []StepTypeOK
<1>1. StepTypes => StepTypeOK
  <2>1. SUFFICES ASSUME StepTypes PROVE StepTypeOK
    OBVIOUS
  <2>2. ASSUME NEW c \in Client, call[c] # None
        PROVE  /\ call[c].op \in Operation /\ call[c].filename \in Filename
               /\ call[c].access \in Access \cup {None}
               /\ call[c].box \in MailboxNode \cup {None}
               /\ \A x \in DOMAIN call[c].plan : call[c].plan[x].kind = "set" => PutOK(call[c].plan[x])
    <3>1. PICK k \in CallRecord : k = call[c]
      BY <2>1, <2>2 DEF StepTypes, CallsTyped
    <3>2. /\ k.op \in Operation /\ k.filename \in Filename /\ k.access \in Access \cup {None}
          /\ k.box \in MailboxNode \cup {None} /\ k.plan \in Seq(Item)
      BY DEF CallRecord
    <3>3. ASSUME NEW x \in DOMAIN k.plan, k.plan[x].kind = "set" PROVE PutOK(k.plan[x])
      <4>1. k.plan[x] \in Item
        BY <3>2, LenProperties, ElementOfSeq
      <4>2. k.plan[x] \in SetItem
        BY <3>3, <4>1, ItemKinds
      <4> QED
        BY <4>2, SetItemTyped
    <3> QED
      BY <3>1, <3>2, <3>3
  <2>3. \A c \in Client : late[c] # None => PutOK(late[c])
    BY <2>1, SetItemTyped DEF StepTypes, CallsTyped
  <2> QED
    BY <2>1, <2>2, <2>3 DEF StepTypeOK, StepTypes, CallsTyped
<1> QED
  BY <1>1, StepTypesInvariant, PTL

(***************************************************************************)
(* Blocks keep their plaintext.                                             *)
(***************************************************************************)
\* The chunks that block b holds, or that a planned or late Set will put there.
Plains(b) ==
    {p.value.plain : p \in {q \in Puts : q.store = "block" /\ q.at = b}}
    \cup {e.plain : e \in {block[b]} \ {None}}

\* There is at most one, and none for a number that was not drawn.
OnePlain ==
    \A b \in Id : /\ b >= next => Plains(b) = {}
                  /\ \A v, w \in Plains(b) : v = w

\* New Sets of blocks go to new blocks, one each, or carry the chunk that is there.
LEMMA NewPlains ==
    ASSUME StepTypes, OnePlain, NEW new, PlansMore(new), next' \in Nat, next' >= next,
           \A p \in new : p.store = "block" =>
              \/ next <= p.at /\ p.at < next'
              \/ p.value.plain \in Plains(p.at),
           \A p, q \in new : p.store = "block" /\ q.store = "block" /\ p.at = q.at =>
              p.value.plain = q.value.plain
    PROVE  OnePlain'
<1>1. next \in Nat
  BY Typed DEF StepTypes
<1>2. ASSUME NEW b \in Id
      PROVE  /\ b >= next' => Plains(b)' = {}
             /\ \A v, w \in Plains(b)' : v = w
  <2>1. ASSUME NEW v \in Plains(b)'
        PROVE  \/ v \in Plains(b)
               \/ \E p \in new : /\ p.store = "block" /\ p.at = b /\ v = p.value.plain
                                 /\ next <= b /\ b < next'
    <3>1. CASE \E p \in Puts' : p.store = "block" /\ p.at = b /\ v = p.value.plain
      <4>1. PICK p \in Puts' : p.store = "block" /\ p.at = b /\ v = p.value.plain
        BY <3>1
      <4>2. CASE p \in Puts
        BY <4>1, <4>2 DEF Plains
      <4>3. CASE p \in new
        BY <4>1, <4>3
      <4> QED
        BY <4>2, <4>3 DEF PlansMore
    <3>2. CASE v \in {e.plain : e \in {block'[b]} \ {None}}
      BY <3>2 DEF PlansMore, Plains
    <3> QED
      BY <2>1, <3>1, <3>2 DEF Plains
  <2>2. b >= next => Plains(b) = {}
    BY DEF OnePlain
  <2>3. ASSUME b >= next' PROVE Plains(b)' = {}
    BY <1>1, <2>1, <2>2, <2>3 DEF Id
  <2>4. ASSUME NEW v \in Plains(b)', NEW w \in Plains(b)' PROVE v = w
    <3>1. CASE b >= next
      BY <2>1, <2>2, <2>4, <3>1
    <3>2. CASE ~(b >= next)
      <4>1. v \in Plains(b) /\ w \in Plains(b)
        BY <1>1, <2>1, <2>4, <3>2 DEF Id
      <4> QED
        BY <4>1 DEF OnePlain
    <3> QED
      BY <3>1, <3>2
  <2> QED
    BY <2>3, <2>4
<1> QED
  BY <1>2 DEF OnePlain

\* The Sets of new blocks, one each.
LEMMA NewBlockPuts ==
    ASSUME StepTypes, NEW first \in Nat \ {0}, NEW content \in Content, NEW k \in Id,
           first + Len(content) <= MaxId + 1,
           NEW p \in Range(PutBlocks(first, content, k))
    PROVE  /\ p.store = "block" /\ first <= p.at /\ p.at < first + Len(content)
           /\ p.value.plain = content[p.at - first + 1]
<1>1. Len(content) \in Nat
  BY ContentIsSeq
<1>2. PICK x \in 1 .. Len(content) : p = Put("block", first + x - 1, encryptAndMAC(content[x], k))
  BY PutBlocksItems
<1>3. p.store = "block" /\ p.at = first + x - 1 /\ p.value.plain = content[x]
  BY <1>2 DEF Put, encryptAndMAC
<1>4. p.at - first + 1 = x
  BY <1>1, <1>3
<1> QED
  BY <1>1, <1>3, <1>4

\* What LoadsSeeOneContent says of one step.
BlocksKept == \A b \in Id : block[b] # None => block'[b] # None /\ block'[b].plain = block[b].plain

\* Writing a Set leaves each block with a chunk it could have.
LEMMA WritePlains ==
    ASSUME StepTypes, OnePlain, NEW p \in SetItem, Writes(p)
    PROVE  OnePlain' /\ BlocksKept
<1>1. /\ p \in Puts /\ Puts' \subseteq Puts /\ next' = next
      /\ block' = IF p.store = "block" THEN [block EXCEPT ![p.at] = p.value] ELSE block
  BY DEF Writes, Write
<1>2. block \in [Id -> SealedBlock \cup {None}]
  BY DEF StepTypes, TypeOK
<1>3. ASSUME NEW b \in Id PROVE block'[b] = block[b] \/ (p.store = "block" /\ p.at = b /\ block'[b] = p.value)
  BY <1>1, <1>2
<1>4. ASSUME NEW b \in Id PROVE Plains(b)' \subseteq Plains(b)
  <2>1. p.store = "block" /\ p.at = b => p.value.plain \in Plains(b)
    BY <1>1 DEF Plains
  <2> QED
    BY <1>1, <1>3, <2>1 DEF Plains
<1>5. OnePlain'
  BY <1>1, <1>4 DEF OnePlain
<1>6. ASSUME NEW b \in Id, block[b] # None
      PROVE  block'[b] # None /\ block'[b].plain = block[b].plain
  <2>1. block[b].plain \in Plains(b)
    BY <1>6 DEF Plains
  <2>2. CASE block'[b] = block[b]
    BY <1>6, <2>2
  <2>3. CASE p.store = "block" /\ p.at = b /\ block'[b] = p.value
    <3>1. p.value \in SealedBlock
      BY <2>3, SetItemTyped
    <3>2. p.value.plain \in Plains(b)
      BY <1>1, <2>3 DEF Plains
    <3> QED
      BY <2>1, <2>3, <3>1, <3>2, NoneAssumption DEF OnePlain
  <2> QED
    BY <1>3, <2>2, <2>3
<1> QED
  BY <1>5, <1>6 DEF BlocksKept

\* A block has one chunk from the time its Set is planned, so it keeps the chunk it has.
LEMMA BlocksStep ==
    ASSUME StepTypes, OnePlain, StepTypes', StepEffect
    PROVE  OnePlain' /\ BlocksKept
<1>1. next \in Nat \ {0} /\ next' \in Nat
  BY DEF StepTypes, TypeOK
<1>2. \A store, at, value : Put(store, at, value).store = store /\ Put(store, at, value).at = at
                            /\ Put(store, at, value).value = value
  BY DEF Put
<1>3. ASSUME NEW new, PlansMore(new) PROVE BlocksKept
  BY <1>3 DEF PlansMore, BlocksKept
<1>4. ASSUME NEW new, PlansMore(new), next' >= next, \A q \in new : q.store # "block"
      PROVE  OnePlain'
  BY <1>1, <1>4, NewPlains
<1>5. CASE QuietStep
  <2>1. next' >= next
    BY <1>1, <1>5 DEF QuietStep
  <2> QED
    BY <1>3, <1>4, <1>5, <2>1 DEF QuietStep
<1>6. ASSUME NEW p \in SetItem, Writes(p) PROVE OnePlain' /\ BlocksKept
  BY <1>6, WritePlains
<1>7. ASSUME NEW content \in Content, NEW first \in Nat \ {0}, NEW k \in Id, NEW others,
             first >= next, next' = first + Len(content), first + Len(content) <= MaxId + 1,
             \A q \in others : q.store # "block",
             PlansMore(others \cup Range(PutBlocks(first, content, k)))
      PROVE  OnePlain'
  <2> DEFINE new == others \cup Range(PutBlocks(first, content, k))
  <2>1. Len(content) \in Nat
    BY ContentIsSeq
  <2>2. next' >= next
    BY <1>1, <1>7, <2>1
  <2>3. ASSUME NEW q \in new, q.store = "block"
        PROVE  first <= q.at /\ q.at < next' /\ q.value.plain = content[q.at - first + 1]
    BY <1>7, <2>3, NewBlockPuts
  <2>4. ASSUME NEW q \in new, q.store = "block" PROVE next <= q.at /\ q.at < next'
    <3>1. q \in Range(PutBlocks(first, content, k))
      BY <1>7, <2>4
    <3>2. PICK x \in 1 .. Len(content) : q.at = first + x - 1
      BY <1>2, <1>7, <3>1, PutBlocksItems
    <3> QED
      BY <1>1, <1>7, <2>1, <3>2
  <2>5. PlansMore(new)
    BY <1>7
  <2> HIDE DEF new
  <2> QED
    BY <1>1, <2>2, <2>3, <2>4, <2>5, NewPlains
<1>8. ASSUME NEW content \in Content, StoreStep(content) PROVE OnePlain' /\ BlocksKept
  <2>1. PICK h \in Handle, pu \in SetItem :
       /\ pu.store = "user" /\ next \in Id /\ next + 1 \in Id /\ next + 2 \in Id
       /\ next + 3 + Len(content) <= MaxId + 1 /\ next' = next + 3 + Len(content)
       /\ PlansMore({Put("mailbox", next + 2, [fileKey |-> next, inode |-> next + 1]),
                     Put("access", h, NewRecord(h, next + 2)),
                     Put("inode", next + 1, encryptAndMAC(NewBlocks(next + 3, Len(content)), next)),
                     pu} \cup Range(PutBlocks(next + 3, content, next)))
    BY <1>8 DEF StoreStep
  <2>2. next + 3 \in Nat \ {0} /\ next + 3 >= next
    BY <1>1
  <2>3. \A q \in {Put("mailbox", next + 2, [fileKey |-> next, inode |-> next + 1]),
                  Put("access", h, NewRecord(h, next + 2)),
                  Put("inode", next + 1, encryptAndMAC(NewBlocks(next + 3, Len(content)), next)),
                  pu} : q.store # "block"
    BY <1>2, <2>1
  <2> QED
    BY <1>3, <1>7, <2>1, <2>2, <2>3
<1>9. ASSUME NEW box \in MailboxNode, NEW content \in Content, AppendStep(box, content)
      PROVE  OnePlain' /\ BlocksKept
  <2> DEFINE pi == Put("inode", box.inode,
                       encryptAndMAC(inode[box.inode].plain \o NewBlocks(next, Len(content)),
                                     box.fileKey))
  <2>1. /\ next + Len(content) <= MaxId + 1 /\ next' = next + Len(content)
        /\ PlansMore({pi} \cup Range(PutBlocks(next, content, box.fileKey)))
    BY <1>9 DEF AppendStep
  <2>2. \A q \in {pi} : q.store # "block"
    BY <1>2
  <2>3. box.fileKey \in Id /\ next >= next
    BY <1>1 DEF MailboxNode
  <2> HIDE DEF pi
  <2> QED
    BY <1>1, <1>3, <1>7, <2>1, <2>2, <2>3
<1>10. ASSUME NEW box \in MailboxNode, NEW pa \in SetItem, NEW pu \in SetItem, RekeyStep(box, pa, pu)
       PROVE  OnePlain' /\ BlocksKept
  <2> DEFINE new == {Put("inode", box.inode, encryptAndMAC(inode[box.inode].plain, next)),
                     Put("mailbox", next + 1, [fileKey |-> next, inode |-> box.inode]), pa, pu}
  <2>1. next' >= next /\ PlansMore(new)
    BY <1>1, <1>10 DEF RekeyStep
  <2>2. \A q \in new : q.store # "block"
    BY <1>2, <1>10 DEF RekeyStep
  <2> QED
    BY <1>3, <1>4, <2>1, <2>2
<1>11. ASSUME NEW new \in SUBSET SetItem, RecordStep(new) PROVE OnePlain' /\ BlocksKept
  <2>1. \A q \in new : q.store # "block"
    BY <1>11 DEF RecordStep
  <2> QED
    BY <1>3, <1>4, <1>11, <2>1 DEF RecordStep
<1>12. ASSUME NEW box \in MailboxNode, CopyStep(box) PROVE OnePlain' /\ BlocksKept
  <2>1. next' >= next /\ PlansMore({Put("mailbox", next, box)})
    BY <1>1, <1>12 DEF CopyStep
  <2>2. \A q \in {Put("mailbox", next, box)} : q.store # "block"
    BY <1>2
  <2> QED
    BY <1>3, <1>4, <2>1, <2>2
<1>13. ASSUME NEW b \in Id, NEW k \in Id, BlockBackStep(b, k) PROVE OnePlain' /\ BlocksKept
  <2> DEFINE back == Put("block", b, encryptAndMAC(block[b].plain, k))
  <2>1. block[b] # None /\ PlansMore({back}) /\ next' >= next
    BY <1>1, <1>13 DEF BlockBackStep
  <2>2. back.at = b /\ back.value.plain \in Plains(b)
    BY <1>2, <2>1 DEF Plains, encryptAndMAC
  <2> HIDE DEF back
  <2>3. OnePlain'
    BY <1>1, <2>1, <2>2, NewPlains
  <2> QED
    BY <1>3, <2>1, <2>3
<1>14. ASSUME NEW m \in Id, NEW k \in Id, MailboxBackStep(m, k) PROVE OnePlain' /\ BlocksKept
  <2> DEFINE back == Put("mailbox", m, [mailbox[m] EXCEPT !.fileKey = k])
  <2>1. PlansMore({back}) /\ next' >= next
    BY <1>1, <1>14 DEF MailboxBackStep
  <2>2. \A q \in {back} : q.store # "block"
    BY <1>2
  <2> QED
    BY <1>3, <1>4, <2>1, <2>2
<1> QED
  BY <1>5, <1>6, <1>8, <1>9, <1>10, <1>11, <1>12, <1>13, <1>14 DEF StepEffect

\* Nothing is planned at the start.
LEMMA PlansInit == StepInit => Puts = {} /\ StepTypes /\ IssuedStored
<1>1. Init => TypeOK
  BY TreeInit
<1> QED
  BY <1>1 DEF StepInit, Puts, StepTypes, CallsTyped, IssuedStored

\* A stutter plans nothing.
LEMMA PlansStutter == UNCHANGED stepVars => QuietStep
<1>1. UNCHANGED stepVars => Puts' = Puts
  BY DEF stepVars, Puts
<1> QED
  BY <1>1 DEF stepVars, vars, QuietStep, PlansMore

\* A step of the specification has one of the effects, between states of these types.
LEMMA EffectsInvariant ==
    StepSpec => [][StepTypes /\ StepTypes' /\ StepEffect]_stepVars
<1>1. StepTypes /\ IssuedStored /\ [StepNext]_stepVars =>
          [StepTypes /\ StepTypes' /\ StepEffect]_stepVars
  BY StepTyped
<1> QED
  BY <1>1, StepTypesInvariant, PTL DEF StepSpec

\* A load that overlaps any calls returns the content its inode stood for.
\* OnePlain is inductive where the property is not: a Set that was planned long ago, or
\* failed and lands late, must carry the chunk that is in the block by then.
THEOREM LoadsAreConsistent == StepSpec => LoadsSeeOneContent
<1>1. StepInit => OnePlain
  <2>1. SUFFICES ASSUME StepInit PROVE OnePlain
    OBVIOUS
  <2>2. Puts = {} /\ \A b \in Id : block[b] = None
    BY <2>1, PlansInit DEF StepInit, Init
  <2> QED
    BY <2>2 DEF OnePlain, Plains
<1>2. OnePlain /\ [StepTypes /\ StepTypes' /\ StepEffect]_stepVars => OnePlain' /\ [BlocksKept]_stepVars
  <2>1. CASE UNCHANGED stepVars
    <3>1. Puts' = Puts /\ block' = block /\ next' = next
      BY <2>1 DEF stepVars, vars, Puts
    <3>2. \A b \in Id : Plains(b)' = Plains(b)
      BY <3>1 DEF Plains
    <3> QED
      BY <2>1, <3>1, <3>2 DEF OnePlain
  <2> QED
    BY <2>1, BlocksStep
<1>3. StepSpec => [][BlocksKept]_stepVars
  BY <1>1, <1>2, EffectsInvariant, PTL DEF StepSpec
<1> QED
  BY <1>3 DEF LoadsSeeOneContent, BlocksKept

(***************************************************************************)
(* Files show whole appends.                                                *)
(***************************************************************************)
\* The sets of blocks that a stored inode lists, or that a planned or late Set will list.
Listed ==
    {Range(p.value.plain) : p \in {q \in Puts : q.store = "inode"}}
    \cup {Range(e.plain) : e \in {inode[i] : i \in Id} \ {None}}

\* Each holds all or none of the blocks of a call, and only numbers that were drawn.
WholeLists ==
    /\ \A B \in batch : \A b \in B : b < next
    /\ \A L \in Listed : \A b \in L : b < next
    /\ \A L \in Listed, B \in batch : L \cap B \in {{}, B}

\* A new list is an old one, or empty, followed by the blocks of a new call.
LEMMA NewLists ==
    ASSUME StepTypes, StepTypes', WholeLists, NEW N \in SUBSET Nat, NEW new, PlansMore(new),
           next' >= next, batch' \subseteq batch \cup {N},
           \A b \in N : next <= b /\ b < next',
           \A p \in new : p.store = "inode" =>
              \E L \in Listed \cup {{}} : Range(p.value.plain) = L \cup N
    PROVE  WholeLists'
<1>1. next \in Nat /\ next' \in Nat /\ \A B \in batch : B \subseteq Nat
  BY DEF StepTypes, TypeOK, CallsTyped, Id
<1>2. ASSUME NEW L \in Listed'
      PROVE  L \in Listed \/ \E K \in Listed \cup {{}} : L = K \cup N
  <2>1. CASE \E p \in Puts' : p.store = "inode" /\ L = Range(p.value.plain)
    <3>1. PICK p \in Puts' : p.store = "inode" /\ L = Range(p.value.plain)
      BY <2>1
    <3>2. CASE p \in Puts
      BY <3>1, <3>2 DEF Listed
    <3>3. CASE p \in new
      BY <3>1, <3>3
    <3> QED
      BY <3>2, <3>3 DEF PlansMore
  <2>2. CASE L \in {Range(e.plain) : e \in {inode'[i] : i \in Id} \ {None}}
    BY <2>2 DEF PlansMore, Listed
  <2> QED
    BY <1>2, <2>1, <2>2 DEF Listed
<1>3. ASSUME NEW L \in Listed \cup {{}} PROVE L \subseteq Nat /\ \A b \in L : b < next
  <2>1. ASSUME NEW q \in SetItem, q.store = "inode" PROVE Range(q.value.plain) \subseteq Id
    BY <2>1, SetItemTyped, IdsOfSeq DEF SealedInode
  <2>2. ASSUME NEW i \in Id, inode[i] # None PROVE Range(inode[i].plain) \subseteq Id
    BY <2>2, Typed, IdsOfSeq DEF StepTypes, SealedInode
  <2>3. Puts \subseteq SetItem
    BY DEF Puts
  <2>4. L \subseteq Id
    BY <2>1, <2>2, <2>3 DEF Listed
  <2>5. \A b \in L : b < next
    BY DEF WholeLists
  <2> QED
    BY <2>4, <2>5 DEF Id
<1>4. ASSUME NEW B \in batch', NEW b \in B PROVE b < next'
  <2>1. CASE B \in batch
    <3>1. b \in Nat /\ b < next
      BY <1>1, <2>1 DEF WholeLists
    <3> QED
      BY <1>1, <3>1
  <2> QED
    BY <2>1
<1>5. ASSUME NEW L \in Listed', NEW b \in L PROVE b < next'
  <2>1. PICK K \in Listed \cup {{}} : L = K \/ L = K \cup N
    BY <1>2
  <2>2. CASE b \in K
    <3>1. b \in Nat /\ b < next
      BY <1>3, <2>2
    <3> QED
      BY <1>1, <3>1
  <2> QED
    BY <2>1, <2>2
<1>6. ASSUME NEW L \in Listed', NEW B \in batch' PROVE L \cap B \in {{}, B}
  <2>1. PICK K \in Listed \cup {{}} : L = K \/ L = K \cup N
    BY <1>2
  <2>2. K \cap N = {}
    BY <1>1, <1>3
  <2>3. CASE B = N
    BY <2>1, <2>2, <2>3
  <2>4. CASE B \in batch
    <3>1. B \cap N = {}
      BY <1>1, <2>4 DEF WholeLists
    <3>2. K \cap B \in {{}, B}
      BY <2>4 DEF WholeLists
    <3> QED
      BY <2>1, <3>1, <3>2
  <2> QED
    BY <2>3, <2>4
<1> QED
  BY <1>4, <1>5, <1>6 DEF WholeLists

\* Writing a Set lists nothing that was not planned.
LEMMA WriteLists ==
    ASSUME StepTypes, WholeLists, NEW p \in SetItem, Writes(p)
    PROVE  WholeLists'
<1>1. /\ p \in Puts /\ Puts' \subseteq Puts /\ next' = next /\ batch' = batch
      /\ inode' = IF p.store = "inode" THEN [inode EXCEPT ![p.at] = p.value] ELSE inode
  BY DEF Writes, Write
<1>2. inode \in [Id -> SealedInode \cup {None}]
  BY DEF StepTypes, TypeOK
<1>3. ASSUME NEW i \in Id
      PROVE  inode'[i] = inode[i] \/ (p.store = "inode" /\ inode'[i] = p.value)
  BY <1>1, <1>2
<1>4. Listed' \subseteq Listed
  <2>1. p.store = "inode" => Range(p.value.plain) \in Listed
    BY <1>1 DEF Listed
  <2>2. ASSUME NEW q \in Puts', q.store = "inode" PROVE Range(q.value.plain) \in Listed
    BY <1>1, <2>2 DEF Listed
  <2>3. ASSUME NEW i \in Id, inode'[i] # None PROVE Range(inode'[i].plain) \in Listed
    <3>1. CASE inode'[i] = inode[i]
      BY <2>3, <3>1 DEF Listed
    <3> QED
      BY <1>3, <2>1, <3>1
  <2> QED
    BY <2>2, <2>3 DEF Listed
<1> QED
  BY <1>1, <1>4 DEF WholeLists

\* Every step keeps the lists whole.
LEMMA ListsStep ==
    ASSUME StepTypes, StepTypes', WholeLists, StepEffect
    PROVE  WholeLists'
<1>1. next \in Nat \ {0} /\ next' \in Nat
  BY DEF StepTypes, TypeOK
<1>2. \A store, at, value : Put(store, at, value).store = store /\ Put(store, at, value).at = at
                            /\ Put(store, at, value).value = value
  BY DEF Put
<1>3. ASSUME NEW new, PlansMore(new), next' >= next, batch' = batch,
             \A q \in new : q.store = "inode" => Range(q.value.plain) \in Listed
      PROVE  WholeLists'
  <2>1. {} \in SUBSET Nat /\ \A L : L \cup {} = L
    OBVIOUS
  <2>2. \A q \in new : q.store = "inode" =>
           \E L \in Listed \cup {{}} : Range(q.value.plain) = L \cup {}
    BY <1>3, <2>1
  <2> QED
    BY <1>3, <2>1, <2>2, NewLists
<1>4. ASSUME NEW first \in Nat \ {0}, NEW content \in Content, NEW k \in Id, NEW pi, NEW others,
             NEW L \in Listed \cup {{}},
             Range(pi.value.plain) = L \cup Range(NewBlocks(first, Len(content))),
             first >= next, next' = first + Len(content), first + Len(content) <= MaxId + 1,
             batch' = batch \cup {Range(NewBlocks(first, Len(content)))},
             \A q \in others : q.store # "inode",
             PlansMore(({pi} \cup others) \cup Range(PutBlocks(first, content, k)))
      PROVE  WholeLists'
  <2> DEFINE new == ({pi} \cup others) \cup Range(PutBlocks(first, content, k))
             N == Range(NewBlocks(first, Len(content)))
  <2>1. Len(content) \in Nat
    BY ContentIsSeq
  <2>2. N = first .. first + Len(content) - 1
    BY <1>4, <2>1, NewBlocksProperties
  <2>3. N \in SUBSET Nat /\ \A b \in N : next <= b /\ b < next'
    BY <1>1, <1>4, <2>1, <2>2
  <2>4. ASSUME NEW q \in Range(PutBlocks(first, content, k)) PROVE q.store # "inode"
    <3>1. PICK x \in 1 .. Len(content) : q = Put("block", first + x - 1, encryptAndMAC(content[x], k))
      BY <1>4, PutBlocksItems
    <3> QED
      BY <1>2, <3>1
  <2>5. \A q \in new : q.store = "inode" => \E K \in Listed \cup {{}} : Range(q.value.plain) = K \cup N
    BY <1>4, <2>4
  <2>6. PlansMore(new) /\ next' >= next /\ batch' \subseteq batch \cup {N}
    BY <1>1, <1>4, <2>1
  <2> HIDE DEF new, N
  <2> QED
    BY <2>3, <2>5, <2>6, NewLists
<1>5. CASE QuietStep
  BY <1>1, <1>3, <1>5 DEF QuietStep
<1>6. ASSUME NEW content \in Content, StoreStep(content) PROVE WholeLists'
  <2>1. PICK h \in Handle, pu \in SetItem :
       /\ pu.store = "user" /\ next \in Id /\ next + 1 \in Id /\ next + 2 \in Id
       /\ next + 3 + Len(content) <= MaxId + 1 /\ next' = next + 3 + Len(content)
       /\ batch' = batch \cup {Range(NewBlocks(next + 3, Len(content)))}
       /\ PlansMore({Put("mailbox", next + 2, [fileKey |-> next, inode |-> next + 1]),
                     Put("access", h, NewRecord(h, next + 2)),
                     Put("inode", next + 1, encryptAndMAC(NewBlocks(next + 3, Len(content)), next)),
                     pu} \cup Range(PutBlocks(next + 3, content, next)))
    BY <1>6 DEF StoreStep
  <2> DEFINE pm == Put("mailbox", next + 2, [fileKey |-> next, inode |-> next + 1])
             pa == Put("access", h, NewRecord(h, next + 2))
             pi == Put("inode", next + 1, encryptAndMAC(NewBlocks(next + 3, Len(content)), next))
  <2>2. next + 3 \in Nat \ {0} /\ next + 3 >= next
    BY <1>1
  <2>3. \A q \in {pm, pa, pu} : q.store # "inode"
    BY <1>2, <2>1
  <2>4. Range(pi.value.plain) = {} \cup Range(NewBlocks(next + 3, Len(content)))
    BY <1>2 DEF encryptAndMAC
  <2>5. PlansMore(({pi} \cup {pm, pa, pu}) \cup Range(PutBlocks(next + 3, content, next)))
    <3>1. {pm, pa, pi, pu} = {pi} \cup {pm, pa, pu}
      OBVIOUS
    <3> QED
      BY <2>1, <3>1
  <2> HIDE DEF pm, pa, pi
  <2> QED
    BY <1>4, <2>1, <2>2, <2>3, <2>4, <2>5, ZenonT(60)
<1>7. ASSUME NEW box \in MailboxNode, NEW content \in Content, AppendStep(box, content)
      PROVE  WholeLists'
  <2> DEFINE old == inode[box.inode].plain
             pi == Put("inode", box.inode,
                       encryptAndMAC(old \o NewBlocks(next, Len(content)), box.fileKey))
  <2>1. /\ inode[box.inode] # None
        /\ next + Len(content) <= MaxId + 1 /\ next' = next + Len(content)
        /\ batch' = batch \cup {Range(NewBlocks(next, Len(content)))}
        /\ PlansMore({pi} \cup Range(PutBlocks(next, content, box.fileKey)))
    BY <1>7 DEF AppendStep
  <2>2. box.fileKey \in Id /\ box.inode \in Id /\ next >= next
    BY <1>1 DEF MailboxNode
  <2>3. old \in Seq(Id)
    BY <2>1, <2>2, Typed DEF StepTypes, SealedInode
  <2>4. NewBlocks(next, Len(content)) \in Seq(Id)
    BY <1>1, <2>1, ContentIsSeq, NewBlocksProperties
  <2>5. Range(pi.value.plain) = Range(old) \cup Range(NewBlocks(next, Len(content)))
    <3>1. pi.value.plain = old \o NewBlocks(next, Len(content))
      BY DEF Put, encryptAndMAC
    <3> HIDE DEF pi, old
    <3> QED
      BY <2>3, <2>4, <3>1, IdsOfConcat
  <2>6. Range(old) \in Listed
    BY <2>1, <2>2 DEF Listed
  <2>7. PICK L \in Listed \cup {{}} :
           Range(pi.value.plain) = L \cup Range(NewBlocks(next, Len(content)))
    BY <2>5, <2>6
  <2> DEFINE none == {}
  <2>8. none = {} /\ \A q \in none : q.store # "inode"
    OBVIOUS
  <2>9. PlansMore(({pi} \cup none) \cup Range(PutBlocks(next, content, box.fileKey)))
    BY <2>1, <2>8 DEF PlansMore
  <2> HIDE DEF pi, old, none
  <2> QED
    BY <1>1, <1>4, <2>1, <2>2, <2>7, <2>8, <2>9
<1>8. ASSUME NEW box \in MailboxNode, NEW pa \in SetItem, NEW pu \in SetItem, RekeyStep(box, pa, pu)
      PROVE  WholeLists'
  <2> DEFINE pi == Put("inode", box.inode, encryptAndMAC(inode[box.inode].plain, next))
             pm == Put("mailbox", next + 1, [fileKey |-> next, inode |-> box.inode])
  <2>1. /\ next' = next + 2 /\ PlansMore({pi, pm, pa, pu}) /\ batch' = batch
        /\ inode[box.inode] # None /\ pa.store = "access" /\ pu.store = "user"
    BY <1>8 DEF RekeyStep
  <2>2. pi.value.plain = inode[box.inode].plain /\ pm.store = "mailbox"
    BY <1>2 DEF encryptAndMAC
  <2>3. Range(inode[box.inode].plain) \in Listed
    BY <2>1 DEF Listed, MailboxNode
  <2>4. next' >= next
    BY <1>1, <2>1
  <2> HIDE DEF pi, pm
  <2> QED
    BY <1>3, <2>1, <2>2, <2>3, <2>4
<1>9. ASSUME NEW new \in SUBSET SetItem, RecordStep(new) PROVE WholeLists'
  BY <1>3, <1>9 DEF RecordStep
<1>10. ASSUME NEW box \in MailboxNode, CopyStep(box) PROVE WholeLists'
  <2>1. next' >= next /\ PlansMore({Put("mailbox", next, box)}) /\ batch' = batch
    BY <1>1, <1>10 DEF CopyStep
  <2> QED
    BY <1>2, <1>3, <2>1
<1>11. ASSUME NEW b \in Id, NEW k \in Id, BlockBackStep(b, k) PROVE WholeLists'
  <2>1. next' >= next /\ PlansMore({Put("block", b, encryptAndMAC(block[b].plain, k))}) /\ batch' = batch
    BY <1>1, <1>11 DEF BlockBackStep
  <2> QED
    BY <1>2, <1>3, <2>1
<1>12. ASSUME NEW m \in Id, NEW k \in Id, MailboxBackStep(m, k) PROVE WholeLists'
  <2>1. next' >= next /\ PlansMore({Put("mailbox", m, [mailbox[m] EXCEPT !.fileKey = k])}) /\ batch' = batch
    BY <1>1, <1>12 DEF MailboxBackStep
  <2> QED
    BY <1>2, <1>3, <2>1
<1> QED
  BY <1>5, <1>6, <1>7, <1>8, <1>9, <1>10, <1>11, <1>12, WriteLists DEF StepEffect

\* However appends, re-keyings and failures interleave, an inode lists all the blocks of a
\* StoreFile or AppendToFile or none.  An overlapping append may drop another's blocks, all
\* of them; the list that was planned before the other's and lands after it is as whole.
THEOREM FilesShowWholeAppends == StepSpec => []AppendsWhole
<1>1. StepInit => WholeLists
  <2>1. SUFFICES ASSUME StepInit PROVE WholeLists
    OBVIOUS
  <2>2. Puts = {} /\ batch = {} /\ \A i \in Id : inode[i] = None
    BY <2>1, PlansInit DEF StepInit, Init
  <2> QED
    BY <2>2 DEF WholeLists, Listed
<1>2. WholeLists /\ [StepTypes /\ StepTypes' /\ StepEffect]_stepVars => WholeLists'
  <2>1. CASE UNCHANGED stepVars
    <3>1. Puts' = Puts /\ inode' = inode /\ next' = next /\ batch' = batch
      BY <2>1 DEF stepVars, vars, Puts
    <3>2. Listed' = Listed
      BY <3>1 DEF Listed
    <3> QED
      BY <3>1, <3>2 DEF WholeLists
  <2> QED
    BY <2>1, ListsStep
<1>3. WholeLists => AppendsWhole
  <2>1. \A i \in Id : inode[i] # None => Range(inode[i].plain) \in Listed
    BY DEF Listed
  <2> QED
    BY <2>1 DEF WholeLists, AppendsWhole
<1> QED
  BY <1>1, <1>2, <1>3, EffectsInvariant, PTL DEF StepSpec

(***************************************************************************)
(* References and the order of plans.                                       *)
(***************************************************************************)
\* The object that the Set p stores.
RefOf(p) == <<p.store, p.at>>

\* The mailboxes an access record refers to.
Boxes(a) == {<<"mailbox", m>> : m \in ({a.mailbox} \cup {a.children[u] : u \in User}) \ {None}}

\* The objects that must be stored before the Set p; an inode may come after its mailbox.
Needs(p) ==
    CASE p.store = "access" -> Boxes(p.value)
      [] p.store = "invitation" -> {<<"mailbox", p.value.mailbox>>}
      [] p.store = "inode" -> {<<"block", b>> : b \in Range(p.value.plain)}
      [] p.store = "user" -> {<<"access", <<p.at, f>>>> : f \in p.value.files}
      [] OTHER -> {}

\* What is stored.
Has ==
    {<<"user", u>> : u \in {v \in User : account[v] # None}}
    \cup {<<"access", h>> : h \in {g \in Handle : access[g] # None}}
    \cup {<<"mailbox", m>> : m \in {n \in Id : mailbox[n] # None}}
    \cup {<<"inode", i>> : i \in {n \in Id : inode[n] # None}}
    \cup {<<"block", b>> : b \in {n \in Id : block[n] # None}}
    \cup {<<"invitation", j>> : j \in {n \in Id : invitation[n] # None}}

\* What each Set of the plan s needs is in have, or is stored by an earlier one.
InOrder(s, have) ==
    \A i \in DOMAIN s : s[i].kind = "set" =>
        \A r \in Needs(s[i]) :
            r \in have \/ \E j \in DOMAIN s : j < i /\ s[j].kind = "set" /\ RefOf(s[j]) = r

\* A call of the user name: what its plan, its access record and, once it is stored, the
\* mailbox it made lead to.
CallInOrder(k, name, have) ==
    /\ InOrder(k.plan, have)
    /\ \A p \in Range(k.plan) : p.kind = "set" /\ p.store = "user" => p.at = name
    /\ k.access # None => Boxes(k.access) \subseteq have
    /\ \A r \in User : k.plan = <<Lookup(r)>> => <<"mailbox", k.made>> \in have

\* The files of a user record have access records.
FilesIn(name, files, have) == \A f \in files : <<"access", <<name, f>>>> \in have

\* What stored objects refer to is stored.
StoredInOrder ==
    /\ \A h \in Handle : access[h] # None => Boxes(access[h]) \subseteq Has
    /\ \A j \in Id : invitation[j] # None => <<"mailbox", invitation[j].mailbox>> \in Has
    /\ \A i \in Id : inode[i] # None =>
          \A b \in Range(inode[i].plain) : <<"block", b>> \in Has
    /\ \A u \in User : account[u] # None => FilesIn(u, account[u].files, Has)

\* The inductive strengthening of PointeesFirst.
OrderInv ==
    /\ StoredInOrder
    /\ \A c \in Client : session[c] # None => FilesIn(session[c].name, session[c].files, Has)
    /\ \A c \in Client : late[c] # None => Needs(late[c]) \subseteq Has
    /\ \A c \in Client : call[c] # None => CallInOrder(call[c], session[c].name, Has)

Written(s) == {RefOf(p) : p \in {q \in Range(s) : q.kind = "set"}}

\* With more in the store, a plan stays in order.
LEMMA OrderMore ==
    ASSUME NEW s, NEW have, NEW more, have \subseteq more, InOrder(s, have)
    PROVE  InOrder(s, more)
  BY DEF InOrder

\* A plan whose Sets need nothing but what is there.
LEMMA OrderFree ==
    ASSUME NEW s, NEW have, \A p \in Range(s) : p.kind = "set" => Needs(p) \subseteq have
    PROVE  InOrder(s, have)
<1>1. \A i \in DOMAIN s : s[i] \in Range(s)
  BY DEF Range
<1> QED
  BY <1>1 DEF InOrder

\* The second of two Sets may need the first.
LEMMA OrderPair ==
    ASSUME NEW a \in Item, NEW b \in Item, a.kind = "set", NEW have, Needs(a) \subseteq have,
           Needs(b) \subseteq have \cup {RefOf(a)}
    PROVE  InOrder(<<a, b>>, have)
<1>1. DOMAIN <<a, b>> = {1, 2} /\ <<a, b>>[1] = a /\ <<a, b>>[2] = b
  OBVIOUS
<1>2. PICK s : s = <<a, b>>
  OBVIOUS
<1>3. DOMAIN s = {1, 2} /\ s[1] = a /\ s[2] = b
  BY <1>1, <1>2
<1>4. InOrder(s, have)
  BY <1>3 DEF InOrder
<1> QED
  BY <1>2, <1>4

\* A plan that goes on after another one.
LEMMA OrderConcat ==
    ASSUME NEW s \in Seq(Item), NEW t \in Seq(Item), NEW have, InOrder(s, have),
           InOrder(t, have \cup Written(s))
    PROVE  InOrder(s \o t, have)
<1>1. /\ s \o t \in Seq(Item)
      /\ Len(s \o t) = Len(s) + Len(t)
      /\ \A n \in 1 .. Len(s) + Len(t) : (s \o t)[n] =
             IF n <= Len(s) THEN s[n] ELSE t[n - Len(s)]
  BY ConcatProperties
<1>2. /\ Len(s) \in Nat /\ DOMAIN s = 1 .. Len(s)
      /\ Len(t) \in Nat /\ DOMAIN t = 1 .. Len(t)
      /\ DOMAIN (s \o t) = 1 .. Len(s) + Len(t)
  BY <1>1, LenProperties
<1>3. PICK w : w = s \o t
  OBVIOUS
<1>4. /\ DOMAIN w = 1 .. Len(s) + Len(t)
      /\ \A n \in 1 .. Len(s) : w[n] = s[n]
      /\ \A n \in 1 .. Len(t) : w[Len(s) + n] = t[n]
  BY <1>1, <1>2, <1>3
<1>5. ASSUME NEW i \in DOMAIN w, w[i].kind = "set", NEW r \in Needs(w[i])
      PROVE  r \in have \/ \E j \in DOMAIN w : j < i /\ w[j].kind = "set" /\ RefOf(w[j]) = r
  <2>1. CASE i \in 1 .. Len(s)
    <3>1. w[i] = s[i]
      BY <1>4, <2>1
    <3>2. r \in have \/ \E j \in DOMAIN s : j < i /\ s[j].kind = "set" /\ RefOf(s[j]) = r
      BY <1>2, <1>5, <2>1, <3>1 DEF InOrder
    <3> QED
      BY <1>2, <1>4, <3>2
  <2>2. CASE i \notin 1 .. Len(s)
    <3>1. PICK n \in 1 .. Len(t) : i = Len(s) + n
      BY <1>2, <1>4, <2>2, i - Len(s) \in 1 .. Len(t)
    <3>2. w[i] = t[n]
      BY <1>4, <3>1
    <3>3. \/ r \in have \/ r \in Written(s)
          \/ \E j \in DOMAIN t : j < n /\ t[j].kind = "set" /\ RefOf(t[j]) = r
      BY <1>2, <1>5, <3>1, <3>2 DEF InOrder
    <3>4. CASE r \in Written(s)
      <4>1. PICK j \in DOMAIN s : s[j].kind = "set" /\ RefOf(s[j]) = r
        BY <3>4 DEF Written, Range
      <4>2. j \in DOMAIN w /\ j < i /\ w[j] = s[j]
        BY <1>2, <1>4, <3>1
      <4> QED
        BY <4>1, <4>2
    <3>5. ASSUME NEW j \in DOMAIN t, j < n, t[j].kind = "set", RefOf(t[j]) = r
          PROVE  \E x \in DOMAIN w : x < i /\ w[x].kind = "set" /\ RefOf(w[x]) = r
      <4>1. Len(s) + j \in DOMAIN w /\ Len(s) + j < i /\ w[Len(s) + j] = t[j]
        BY <1>2, <1>4, <3>1, <3>5
      <4> QED
        BY <3>5, <4>1
    <3> QED
      BY <3>3, <3>4, <3>5
  <2> QED
    BY <2>1, <2>2
<1>6. InOrder(w, have)
  BY <1>5 DEF InOrder
<1> QED
  BY <1>3, <1>6

\* What is left of a plan after its first operation.
LEMMA OrderTail ==
    ASSUME NEW s \in Seq(Item), s # << >>, NEW have, InOrder(s, have)
    PROVE  /\ Head(s).kind = "set" =>
                /\ Needs(Head(s)) \subseteq have
                /\ InOrder(Tail(s), have \cup {RefOf(Head(s))})
           /\ Head(s).kind # "set" => InOrder(Tail(s), have)
<1>1. /\ Tail(s) \in Seq(Item) /\ Len(Tail(s)) = Len(s) - 1
      /\ \A n \in 1 .. Len(Tail(s)) : Tail(s)[n] = s[n + 1]
  BY HeadTailProperties
<1>2. /\ Len(s) \in Nat \ {0} /\ DOMAIN s = 1 .. Len(s)
      /\ DOMAIN Tail(s) = 1 .. Len(s) - 1
  BY <1>1, LenProperties, EmptySeq
<1>3. PICK h, w : h = Head(s) /\ w = Tail(s)
  OBVIOUS
<1>4. /\ h = s[1] /\ DOMAIN w = 1 .. Len(s) - 1
      /\ \A n \in 1 .. Len(s) - 1 : w[n] = s[n + 1]
  BY <1>1, <1>2, <1>3
<1>5. ASSUME h.kind = "set" PROVE Needs(h) \subseteq have
  <2>1. ~ \E j \in DOMAIN s : j < 1
    BY <1>2
  <2> QED
    BY <1>2, <1>4, <1>5, <2>1 DEF InOrder
<1>6. ASSUME NEW i \in DOMAIN w, w[i].kind = "set", NEW r \in Needs(w[i])
      PROVE  \/ r \in have
             \/ h.kind = "set" /\ r = RefOf(h)
             \/ \E j \in DOMAIN w : j < i /\ w[j].kind = "set" /\ RefOf(w[j]) = r
  <2>1. i + 1 \in DOMAIN s /\ w[i] = s[i + 1]
    BY <1>2, <1>4
  <2>2. r \in have \/ \E j \in DOMAIN s : j < i + 1 /\ s[j].kind = "set" /\ RefOf(s[j]) = r
    BY <1>6, <2>1 DEF InOrder
  <2>3. ASSUME NEW j \in DOMAIN s, j < i + 1, s[j].kind = "set", RefOf(s[j]) = r
        PROVE  \/ h.kind = "set" /\ r = RefOf(h)
               \/ \E x \in DOMAIN w : x < i /\ w[x].kind = "set" /\ RefOf(w[x]) = r
    <3>1. CASE j = 1
      BY <1>4, <2>3, <3>1
    <3>2. CASE j # 1
      <4>1. j - 1 \in DOMAIN w /\ j - 1 < i /\ w[j - 1] = s[j]
        BY <1>2, <1>4, <2>3, <3>2
      <4> QED
        BY <2>3, <4>1
    <3> QED
      BY <3>1, <3>2
  <2> QED
    BY <2>2, <2>3
<1>7. h.kind = "set" => InOrder(w, have \cup {RefOf(h)})
  BY <1>6 DEF InOrder
<1>8. h.kind # "set" => InOrder(w, have)
  BY <1>6 DEF InOrder
<1> QED
  BY <1>3, <1>5, <1>7, <1>8

(***************************************************************************)
(* The store.                                                               *)
(***************************************************************************)
\* What is stored stays stored, and a Set stores its object.
LEMMA WriteHas ==
    ASSUME StepTypes, NEW p \in SetItem, Write(p)
    PROVE  Has \subseteq Has' /\ RefOf(p) \in Has'
<1>1. /\ p.store \in {"user", "access", "mailbox", "inode", "block", "invitation"}
      /\ p.value # None
  BY SetItemTyped, NoneAssumption DEF PutOK
<1>2. TypeOK
  BY DEF StepTypes
<1>3. CASE p.store = "user"
  BY <1>1, <1>2, <1>3, SetItemTyped DEF Write, TypeOK, Has, RefOf
<1>4. CASE p.store = "access"
  BY <1>1, <1>2, <1>4, SetItemTyped DEF Write, TypeOK, Has, RefOf
<1>5. CASE p.store = "mailbox"
  BY <1>1, <1>2, <1>5, SetItemTyped DEF Write, TypeOK, Has, RefOf
<1>6. CASE p.store = "inode"
  BY <1>1, <1>2, <1>6, SetItemTyped DEF Write, TypeOK, Has, RefOf
<1>7. CASE p.store = "block"
  BY <1>1, <1>2, <1>7, SetItemTyped DEF Write, TypeOK, Has, RefOf
<1>8. CASE p.store = "invitation"
  BY <1>1, <1>2, <1>8, SetItemTyped DEF Write, TypeOK, Has, RefOf
<1> QED
  BY <1>1, <1>3, <1>4, <1>5, <1>6, <1>7, <1>8

\* Without a Set the same is stored.
LEMMA SameHas ==
    ASSUME UNCHANGED Store
    PROVE  Has' = Has /\ (StoredInOrder => StoredInOrder')
<1>1. UNCHANGED <<account, access, mailbox, inode, block, invitation>>
  BY DEF Store
<1>2. Has' = Has
  BY <1>1 DEF Has
<1> QED
  BY <1>1, <1>2 DEF StoredInOrder, FilesIn

\* What a Set needs, by the kind of object it goes to.
LEMMA NeedsOf ==
    ASSUME NEW p
    PROVE  /\ p.store = "access" => Needs(p) = Boxes(p.value)
           /\ p.store = "invitation" => Needs(p) = {<<"mailbox", p.value.mailbox>>}
           /\ p.store = "inode" => Needs(p) = {<<"block", b>> : b \in Range(p.value.plain)}
           /\ p.store = "user" => Needs(p) = {<<"access", <<p.at, f>>>> : f \in p.value.files}
           /\ p.store \in {"mailbox", "block"} => Needs(p) = {}
  BY DEF Needs

\* A Set whose needs are stored leaves no dangling reference.
LEMMA WriteInOrder ==
    ASSUME StepTypes, StoredInOrder, NEW p \in SetItem, Write(p), Needs(p) \subseteq Has
    PROVE  StoredInOrder'
<1>1. Has \subseteq Has'
  BY WriteHas
<1>2. TypeOK
  BY DEF StepTypes
<1>3. ASSUME NEW h \in Handle, access'[h] # None PROVE Boxes(access'[h]) \subseteq Has
  <2>1. CASE access'[h] = access[h]
    BY <1>3, <2>1 DEF StoredInOrder
  <2>2. CASE p.store = "access" /\ access'[h] = p.value
    BY <2>2, NeedsOf
  <2> QED
    BY <1>2, <2>1, <2>2 DEF Write, TypeOK
<1>4. ASSUME NEW j \in Id, invitation'[j] # None PROVE <<"mailbox", invitation'[j].mailbox>> \in Has
  <2>1. CASE invitation'[j] = invitation[j]
    BY <1>4, <2>1 DEF StoredInOrder
  <2>2. CASE p.store = "invitation" /\ invitation'[j] = p.value
    BY <2>2, NeedsOf
  <2> QED
    BY <1>2, <2>1, <2>2 DEF Write, TypeOK
<1>5. ASSUME NEW i \in Id, inode'[i] # None, NEW b \in Range(inode'[i].plain)
      PROVE  <<"block", b>> \in Has
  <2>1. CASE inode'[i] = inode[i]
    BY <1>5, <2>1 DEF StoredInOrder
  <2>2. CASE p.store = "inode" /\ inode'[i] = p.value
    BY <1>5, <2>2, NeedsOf
  <2> QED
    BY <1>2, <2>1, <2>2 DEF Write, TypeOK
<1>6. ASSUME NEW u \in User, account'[u] # None PROVE FilesIn(u, account'[u].files, Has)
  <2>1. CASE account'[u] = account[u]
    BY <1>6, <2>1 DEF StoredInOrder
  <2>2. CASE p.store = "user" /\ p.at = u /\ account'[u] = p.value
    BY <1>6, <2>2, NeedsOf DEF FilesIn
  <2> QED
    BY <1>2, <2>1, <2>2 DEF Write, TypeOK
<1> QED
  BY <1>1, <1>3, <1>4, <1>5, <1>6 DEF StoredInOrder, FilesIn

\* With more in the store, a call stays in order.
LEMMA CallOrderMore ==
    ASSUME NEW k, NEW name, NEW have, NEW more, have \subseteq more, CallInOrder(k, name, have)
    PROVE  CallInOrder(k, name, more)
  BY OrderMore DEF CallInOrder

\* A step of one client: the others go on with what they had.
LEMMA OrderAfter ==
    ASSUME StepTypes, OrderInv, StoredInOrder', Has \subseteq Has', NEW c \in Client,
           NEW k, call' = [call EXCEPT ![c] = k],
           \A d \in Client \ {c} : session'[d] = session[d],
           session'[c] # None => FilesIn(session'[c].name, session'[c].files, Has'),
           k # None => CallInOrder(k, session'[c].name, Has'),
           \A d \in Client : late'[d] # None => late'[d] = late[d] \/ Needs(late'[d]) \subseteq Has'
    PROVE  OrderInv'
<1>1. call'[c] = k /\ \A d \in Client \ {c} : call'[d] = call[d]
  BY DEF StepTypes, CallsTyped
<1>2. ASSUME NEW d \in Client, session'[d] # None
      PROVE  FilesIn(session'[d].name, session'[d].files, Has')
  <2>1. CASE d = c
    BY <1>2, <2>1
  <2>2. CASE d # c
    BY <1>2, <2>2 DEF OrderInv, FilesIn
  <2> QED
    BY <2>1, <2>2
<1>3. ASSUME NEW d \in Client, late'[d] # None PROVE Needs(late'[d]) \subseteq Has'
  BY <1>3 DEF OrderInv
<1>4. ASSUME NEW d \in Client, call'[d] # None PROVE CallInOrder(call'[d], session'[d].name, Has')
  <2>1. CASE d = c
    BY <1>1, <1>4, <2>1
  <2>2. CASE d # c
    <3>1. CallInOrder(call[d], session[d].name, Has) /\ session'[d] = session[d]
      BY <1>1, <1>4, <2>2 DEF OrderInv
    <3>2. CallInOrder(call[d], session[d].name, Has')
      BY <3>1, CallOrderMore
    <3> QED
      BY <1>1, <2>2, <3>1, <3>2
  <2> QED
    BY <2>1, <2>2
<1> QED
  BY <1>2, <1>3, <1>4 DEF OrderInv

\* A call that reads or plans writes nothing yet.
LEMMA PlanningOrder ==
    ASSUME StepTypes, OrderInv, NEW c \in Client, NEW k, call' = [call EXCEPT ![c] = k],
           UNCHANGED <<session, Store, late>>,
           k # None => CallInOrder(k, session[c].name, Has)
    PROVE  OrderInv'
<1>1. /\ Has' = Has /\ StoredInOrder'
  BY SameHas DEF OrderInv
<1>2. session'[c] # None => FilesIn(session'[c].name, session'[c].files, Has')
  BY <1>1 DEF OrderInv
<1>3. k # None => CallInOrder(k, session'[c].name, Has')
  BY <1>1
<1> QED
  BY <1>1, <1>2, <1>3, OrderAfter

\* A call that returns an error.
LEMMA RefuseOrder ==
    ASSUME StepTypes, OrderInv, NEW c \in Client, Refuse(c)
    PROVE  OrderInv'
<1>1. call' = [call EXCEPT ![c] = None] /\ UNCHANGED <<session, Store, late>>
  BY DEF Refuse, vars, Store
<1> QED
  BY <1>1, PlanningOrder

\* InitUser and GetUser.
LEMMA UserCallOrder ==
    ASSUME StepTypes, OrderInv, NEW c \in Client, NEW u \in User, UserCall(c, u)
    PROVE  OrderInv'
<1>1. /\ call[c] = None /\ UNCHANGED <<call, late, access, mailbox, inode, block, invitation>>
      /\ session \in [Client -> Session \cup {None}]
      /\ account \in [User -> UserRecord \cup {None}]
      /\ call \in [Client -> CallRecord \cup {None}]
  BY DEF UserCall, InitUser, GetUser, StepTypes, TypeOK, CallsTyped
<1>2. \/ /\ account[u] = None
         /\ account' = [account EXCEPT ![u] = [files |-> {}]]
         /\ session' = [session EXCEPT ![c] = [name |-> u, files |-> {}]]
      \/ /\ account[u] # None /\ account' = account
         /\ session' = [session EXCEPT ![c] = [name |-> u, files |-> account[u].files]]
  BY DEF UserCall, InitUser, GetUser
<1>3. \A v \in User : account[v] # None => account'[v] # None
  BY <1>1, <1>2
<1>4. Has \subseteq Has'
  BY <1>1, <1>3 DEF Has
<1>5. StoredInOrder'
  <2>1. \A v \in User : account'[v] # None => FilesIn(v, account'[v].files, Has)
    BY <1>1, <1>2 DEF OrderInv, StoredInOrder, FilesIn
  <2> QED
    BY <1>1, <1>4, <2>1 DEF OrderInv, StoredInOrder, FilesIn
<1>6. session'[c] # None => FilesIn(session'[c].name, session'[c].files, Has')
  BY <1>1, <1>2, <1>4 DEF OrderInv, StoredInOrder, FilesIn
<1>7. call' = [call EXCEPT ![c] = None] /\ \A d \in Client \ {c} : session'[d] = session[d]
  BY <1>1, <1>2
<1> QED
  BY <1>1, <1>4, <1>5, <1>6, <1>7, OrderAfter

(***************************************************************************)
(* Each action keeps the order.                                             *)
(***************************************************************************)
\* The Set a call does next: what it needs is stored, and its user is the caller.
LEMMA HeadInOrder ==
    ASSUME StepTypes, OrderInv, NEW c \in Client, Planned(c, "set"),
           NEW p \in SetItem, p = Head(call[c].plan)
    PROVE  /\ Needs(p) \subseteq Has
           /\ p.store = "user" => p.at = session[c].name
           /\ InOrder(Tail(call[c].plan), Has \cup {RefOf(p)})
<1>1. /\ call[c] # None /\ call[c] \in CallRecord /\ call[c].plan # << >>
  BY PlannedSet
<1>2. PICK s \in Seq(Item) : s = call[c].plan /\ s # << >>
  BY <1>1 DEF CallRecord
<1>3. InOrder(s, Has) /\ \A q \in Range(s) : q.kind = "set" /\ q.store = "user" => q.at = session[c].name
  BY <1>1, <1>2 DEF OrderInv, CallInOrder
<1>4. p = Head(s) /\ p \in Range(s) /\ p.kind = "set"
  BY <1>2, HeadAndTail, SetItemTyped
<1>5. Needs(p) \subseteq Has /\ InOrder(Tail(s), Has \cup {RefOf(p)})
  BY <1>2, <1>3, <1>4, OrderTail
<1> QED
  BY <1>2, <1>3, <1>4, <1>5

\* The user record in memory after a Set was tried.
LEMMA RememberOrder ==
    ASSUME StepTypes, OrderInv, NEW c \in Client, session[c] # None, NEW p \in SetItem,
           Needs(p) \subseteq Has, p.store = "user" => p.at = session[c].name, Remember(c, p)
    PROVE  /\ FilesIn(session'[c].name, session'[c].files, Has)
           /\ session'[c].name = session[c].name
           /\ \A d \in Client \ {c} : session'[d] = session[d]
<1>1. session \in [Client -> Session \cup {None}] /\ session[c] \in Session
  BY Typed DEF StepTypes, TypeOK
<1>2. CASE p.store = "user"
  <2>1. session' = [session EXCEPT ![c].files = p.value.files]
    BY <1>2 DEF Remember
  <2>2. /\ session'[c].name = session[c].name /\ session'[c].files = p.value.files
        /\ \A d \in Client \ {c} : session'[d] = session[d]
    BY <1>1, <2>1 DEF Session
  <2>3. FilesIn(p.at, p.value.files, Has)
    BY <1>2, NeedsOf DEF FilesIn
  <2> QED
    BY <1>2, <2>2, <2>3
<1>3. CASE p.store # "user"
  BY <1>3 DEF Remember, OrderInv
<1> QED
  BY <1>2, <1>3

\* A Set succeeds.
LEMMA DoSetOrder ==
    ASSUME StepTypes, OrderInv, NEW c \in Client, DoSet(c)
    PROVE  OrderInv'
<1>1. Planned(c, "set")
  BY DEF DoSet
<1>2. PICK k \in CallRecord : /\ k = call[c] /\ k # None /\ CallShape(k) /\ k.plan # << >>
                              /\ session[c] # None
  BY <1>1, PlannedSet
<1>3. PICK p \in SetItem : p = Head(k.plan)
  BY <1>1, <1>2, PlannedSet
<1>4. PICK rest \in Seq(Item) : rest = Tail(k.plan)
  BY <1>1, <1>2, PlannedSet
<1>5. Write(p) /\ Remember(c, p) /\ GoOn(c, rest) /\ UNCHANGED late
  BY <1>2, <1>3, <1>4 DEF DoSet
<1>6. /\ Needs(p) \subseteq Has
      /\ p.store = "user" => p.at = session[c].name
      /\ InOrder(rest, Has \cup {RefOf(p)})
  BY <1>1, <1>2, <1>3, <1>4, HeadInOrder
<1>7. Has \subseteq Has' /\ RefOf(p) \in Has'
  BY <1>5, WriteHas
<1>8. StoredInOrder'
  BY <1>5, <1>6, WriteInOrder DEF OrderInv
<1>9. /\ FilesIn(session'[c].name, session'[c].files, Has)
      /\ session'[c].name = session[c].name
      /\ \A d \in Client \ {c} : session'[d] = session[d]
  BY <1>2, <1>5, <1>6, RememberOrder
<1>10. FilesIn(session'[c].name, session'[c].files, Has')
  BY <1>7, <1>9 DEF FilesIn
<1> DEFINE on == [k EXCEPT !.plan = rest]
<1>11. /\ on \in CallRecord /\ on.plan = rest /\ on.op = k.op /\ on.access = k.access
       /\ on.made = k.made
  BY DEF CallRecord
<1> HIDE DEF on
<1>12. PICK k1 : call' = [call EXCEPT ![c] = k1] /\ (k1 # None => k1 = on)
  BY <1>2, <1>5 DEF GoOn, on
<1>13. CallInOrder(k, session[c].name, Has)
  BY <1>2 DEF OrderInv
<1>14. CallInOrder(on, session'[c].name, Has')
  <2>1. InOrder(rest, Has')
    BY <1>6, <1>7, OrderMore
  <2>2. Range(rest) \subseteq Range(k.plan)
    BY <1>2, <1>4, HeadAndTail DEF CallRecord
  <2>3. \A q \in Range(rest) : q.kind = "set" /\ q.store = "user" => q.at = session'[c].name
    BY <1>9, <1>13, <2>2 DEF CallInOrder
  <2>4. k.access # None => Boxes(k.access) \subseteq Has'
    BY <1>7, <1>13 DEF CallInOrder
  <2>5. ASSUME NEW r \in User, rest = <<Lookup(r)>> PROVE <<"mailbox", k.made>> \in Has'
    <3>1. k.plan = <<Put("mailbox", k.made, k.box), Lookup(k.arg)>>
      <4>1. Lookup(r) \in Range(rest) /\ Lookup(r) \notin SetItem /\ Lookup(r) \notin FetchItem
        <5>1. Lookup(r) \in Range(rest)
          BY <2>5, ItemKinds, ShortPlans
        <5> QED
          BY <5>1, ItemKinds
      <4>2. k.op = "CreateInvitation" /\ InvitationShape(k)
        BY <1>2, <2>2, <4>1 DEF CallShape
      <4>3. k.plan # <<Lookup(k.arg)>>
        <5>1. rest # << >>
          BY <2>5
        <5>2. \A x : Tail(<<x>>) = << >>
          OBVIOUS
        <5> QED
          BY <1>4, <5>1, <5>2
      <4>4. ASSUME NEW x \in SetItem, NEW y \in SetItem, k.plan \in {<<x, y>>, <<y>>} PROVE FALSE
        <5>1. Range(<<x, y>>) = {x, y} /\ Range(<<y>>) = {y}
          BY ItemKinds, ShortPlans
        <5> QED
          BY <2>2, <4>1, <4>4, <5>1
      <4> QED
        BY <1>2, <4>2, <4>3, <4>4 DEF InvitationShape
    <3>2. p = Put("mailbox", k.made, k.box)
      BY <1>3, <3>1
    <3>3. RefOf(p) = <<"mailbox", k.made>>
      BY <3>2 DEF RefOf, Put
    <3> QED
      BY <1>7, <3>3
  <2> QED
    BY <1>11, <2>1, <2>3, <2>4, <2>5 DEF CallInOrder
<1>15. \A d \in Client : late'[d] # None => late'[d] = late[d] \/ Needs(late'[d]) \subseteq Has'
  BY <1>5
<1> QED
  BY <1>7, <1>8, <1>9, <1>10, <1>12, <1>14, <1>15, OrderAfter

\* A call fails or its process dies; the Set it was at may have landed or still land.
LEMMA InterruptedOrder ==
    ASSUME StepTypes, OrderInv, NEW c \in Client, Interrupted(c)
    PROVE  OrderInv'
<1> DEFINE p == Head(call[c].plan)
<1>1. /\ call[c] # None /\ session[c] # None /\ call' = [call EXCEPT ![c] = None]
      /\ session \in [Client -> Session \cup {None}]
      /\ late \in [Client -> SetItem \cup {None}]
  BY DEF StepTypes, CallsTyped, Interrupted, TypeOK
<1>2. ASSUME Planned(c, "set")
      PROVE  /\ p \in SetItem /\ Needs(p) \subseteq Has
             /\ p.store = "user" => p.at = session[c].name
  BY <1>2, PlannedSet, HeadInOrder
<1>3. /\ \A d \in Client \ {c} : session'[d] = session[d]
      /\ session'[c] # None => FilesIn(session'[c].name, session'[c].files, Has)
  <2>1. CASE session' = [session EXCEPT ![c] = None]
    BY <1>1, <2>1
  <2>2. CASE Planned(c, "set") /\ Remember(c, p)
    <3>1. PICK q \in SetItem : /\ q = p /\ Needs(q) \subseteq Has
                               /\ q.store = "user" => q.at = session[c].name
      BY <1>2, <2>2
    <3> QED
      BY <1>1, <2>2, <3>1, RememberOrder
  <2>3. CASE UNCHANGED session
    BY <1>1, <2>3 DEF OrderInv
  <2> QED
    BY <2>1, <2>2, <2>3 DEF Interrupted
<1>4. \/ UNCHANGED <<Store, late>>
      \/ Planned(c, "set") /\ Write(p) /\ UNCHANGED late
      \/ Planned(c, "set") /\ late' = [late EXCEPT ![c] = p] /\ UNCHANGED Store
  BY DEF Interrupted
<1> HIDE DEF p
<1>5. Has \subseteq Has' /\ StoredInOrder'
  <2>1. CASE UNCHANGED Store
    BY <2>1, SameHas DEF OrderInv
  <2>2. CASE Planned(c, "set") /\ Write(p)
    BY <1>2, <2>2, WriteHas, WriteInOrder DEF OrderInv
  <2> QED
    BY <1>4, <2>1, <2>2
<1>6. \A d \in Client : late'[d] # None => late'[d] = late[d] \/ Needs(late'[d]) \subseteq Has'
  BY <1>1, <1>2, <1>4, <1>5
<1>7. session'[c] # None => FilesIn(session'[c].name, session'[c].files, Has')
  BY <1>3, <1>5 DEF FilesIn
<1> QED
  BY <1>1, <1>3, <1>5, <1>6, <1>7, OrderAfter

\* A Set lands after its call returned.
LEMMA LateEffectOrder ==
    ASSUME StepTypes, OrderInv, NEW c \in Client, LateEffect(c)
    PROVE  OrderInv'
<1>1. PICK p \in SetItem : p = late[c] /\ p # None
  BY DEF LateEffect, StepTypes, CallsTyped
<1>2. /\ Write(p) /\ late' = [late EXCEPT ![c] = None] /\ UNCHANGED <<session, call>>
      /\ Needs(p) \subseteq Has
  BY <1>1 DEF LateEffect, OrderInv
<1>3. Has \subseteq Has' /\ StoredInOrder'
  BY <1>2, WriteHas, WriteInOrder DEF OrderInv
<1>4. \A d \in Client : late'[d] # None => late'[d] = late[d]
  BY <1>2 DEF StepTypes, CallsTyped
<1>5. PICK k : k = call[c]
  OBVIOUS
<1>6. call' = [call EXCEPT ![c] = k] /\ session' = session
  BY <1>2, <1>5 DEF StepTypes, CallsTyped
<1>7. session[c] # None => FilesIn(session[c].name, session[c].files, Has')
  BY <1>3 DEF OrderInv, FilesIn
<1>8. k # None => CallInOrder(k, session[c].name, Has')
  BY <1>3, <1>5, CallOrderMore DEF OrderInv
<1> QED
  BY <1>3, <1>4, <1>6, <1>7, <1>8, OrderAfter

\* The fields of a Set.
LEMMA PutFields ==
    ASSUME NEW store, NEW at, NEW value
    PROVE  /\ Put(store, at, value).kind = "set" /\ Put(store, at, value).store = store
           /\ Put(store, at, value).at = at /\ Put(store, at, value).value = value
           /\ RefOf(Put(store, at, value)) = <<store, at>>
  BY DEF Put, RefOf

\* A plan of Sets and Gets is not that of a CreateInvitation that looks its recipient up.
LEMMA NotLookup ==
    ASSUME NEW s \in Seq(Item), Range(s) \subseteq SetItem \cup FetchItem, NEW r \in User
    PROVE  s # <<Lookup(r)>>
<1>1. Range(<<Lookup(r)>>) = {Lookup(r)}
  BY ItemKinds, ShortPlans
<1>2. Lookup(r) \notin SetItem \cup FetchItem
  BY ItemKinds
<1> QED
  BY <1>1, <1>2

\* What saveUser needs, when the access record of f will be stored by then.
LEMMA PutUserNeeds ==
    ASSUME StepTypes, OrderInv, NEW c \in Client, session[c] # None, NEW f \in Filename
    PROVE  /\ PutUser(c, f) \in SetItem /\ PutUser(c, f).kind = "set"
           /\ PutUser(c, f).store = "user" /\ PutUser(c, f).at = session[c].name
           /\ Needs(PutUser(c, f)) \subseteq Has \cup {<<"access", <<session[c].name, f>>>>}
           /\ <<session[c].name, f>> \in Handle
<1>1. session[c] \in Session
  BY Typed DEF StepTypes
<1>2. PutUser(c, f) \in SetItem /\ <<session[c].name, f>> \in Handle
  BY <1>1, PutTyped DEF PutUser, Session, UserRecord, Handle
<1>3. /\ PutUser(c, f).kind = "set" /\ PutUser(c, f).store = "user"
      /\ PutUser(c, f).at = session[c].name
      /\ PutUser(c, f).value.files = session[c].files \cup {f}
  BY DEF PutUser, Put
<1>4. \A g \in session[c].files : <<"access", <<session[c].name, g>>>> \in Has
  BY DEF OrderInv, FilesIn
<1>5. Needs(PutUser(c, f)) = {<<"access", <<session[c].name, g>>>> : g \in session[c].files \cup {f}}
  BY <1>3, NeedsOf
<1> QED
  BY <1>2, <1>3, <1>4, <1>5

\* What a new access record needs.
LEMMA NewRecordNeeds ==
    ASSUME NEW h \in Handle, NEW m \in Id
    PROVE  /\ Put("access", h, NewRecord(h, m)) \in SetItem
           /\ Needs(Put("access", h, NewRecord(h, m))) = {<<"mailbox", m>>}
<1>1. NewRecord(h, m) \in Access
  BY DEF NewRecord, NoChildren, Access, ChildrenMap
<1>2. Boxes(NewRecord(h, m)) = {<<"mailbox", m>>}
  BY NoneAssumption DEF Boxes, NewRecord, NoChildren
<1> QED
  BY <1>1, <1>2, PutTyped, PutFields, NeedsOf

\* The Sets of new blocks need nothing, and store them all.
LEMMA PutBlocksOrder ==
    ASSUME NEW first \in Nat \ {0}, NEW content \in Content, NEW k \in Id,
           first + Len(content) <= MaxId + 1, NEW have
    PROVE  /\ InOrder(PutBlocks(first, content, k), have)
           /\ \A b \in Range(NewBlocks(first, Len(content))) :
                 <<"block", b>> \in Written(PutBlocks(first, content, k))
           /\ Range(PutBlocks(first, content, k)) \subseteq SetItem
           /\ \A p \in Range(PutBlocks(first, content, k)) : p.store = "block"
<1> DEFINE s == PutBlocks(first, content, k)
<1>1. Len(content) \in Nat
  BY ContentIsSeq
<1>2. ASSUME NEW p \in Range(s) PROVE p \in SetItem /\ p.store = "block" /\ Needs(p) = {}
  <2>1. PICK x \in 1 .. Len(content) :
            p = Put("block", first + x - 1, encryptAndMAC(content[x], k)) /\ p \in SetItem
    BY PutBlocksItems
  <2> QED
    BY <2>1, PutFields, NeedsOf
<1>3. InOrder(s, have)
  BY <1>2, OrderFree
<1>4. ASSUME NEW b \in Range(NewBlocks(first, Len(content))) PROVE <<"block", b>> \in Written(s)
  <2>1. b \in first .. first + Len(content) - 1
    BY <1>1, NewBlocksProperties
  <2>2. PICK x \in 1 .. Len(content) : b = first + x - 1
    BY <1>1, <2>1, b - first + 1 \in 1 .. Len(content)
  <2>3. PICK p : p = Put("block", b, encryptAndMAC(content[x], k))
    OBVIOUS
  <2>4. s[x] = p /\ x \in DOMAIN s
    BY <2>2, <2>3 DEF PutBlocks
  <2>5. p \in Range(s) /\ p.kind = "set" /\ RefOf(p) = <<"block", b>>
    BY <2>3, <2>4, PutFields DEF Range
  <2> QED
    BY <2>5 DEF Written
<1> QED
  BY <1>2, <1>3, <1>4

\* AcceptInvitation: an invitation that can be read leads to a mailbox.
LEMMA BeginAcceptOrder ==
    ASSUME StepTypes, OrderInv, NEW c \in Client, NEW s \in User, NEW j \in issued,
           NEW f \in Filename, BeginAccept(c, s, j, f), invitation[j] # None
    PROVE  OrderInv'
<1>1. session[c] # None /\ j \in Id /\ invitation[j] \in Invitation
  BY Typed DEF StepTypes, CallsTyped, BeginAccept, Idle
<1>2. PICK m \in Id : m = invitation[j].mailbox /\ <<"mailbox", m>> \in Has
  BY <1>1 DEF Invitation, OrderInv, StoredInOrder
<1>3. PICK h \in Handle : h = <<session[c].name, f>>
  BY <1>1, PutUserNeeds
<1>4. PICK pa \in SetItem : pa = Put("access", h, NewRecord(h, m)) /\ Needs(pa) = {<<"mailbox", m>>}
  BY NewRecordNeeds
<1>5. pa.kind = "set" /\ pa.store = "access" /\ RefOf(pa) = <<"access", h>>
  BY <1>4, PutFields
<1>6. PICK pu \in SetItem : /\ pu = PutUser(c, f) /\ pu.at = session[c].name /\ pu.kind = "set"
                            /\ Needs(pu) \subseteq Has \cup {<<"access", h>>}
  BY <1>1, <1>3, PutUserNeeds
<1>7. PICK plan \in Seq(Item) : plan = <<pa, pu>> /\ Range(plan) = {pa, pu}
  BY ItemKinds, ShortPlans, ZenonT(60)
<1>8. InOrder(plan, Has)
  BY <1>2, <1>4, <1>5, <1>6, <1>7, ItemKinds, OrderPair
<1> DEFINE k == [NewCall("AcceptInvitation", f, j, None) EXCEPT !.plan = plan]
<1>9. k.access = None /\ k.plan = plan
  BY DEF NewCall
<1>10. call' = [call EXCEPT ![c] = k] /\ UNCHANGED <<session, Store, late>>
  BY <1>2, <1>3, <1>4, <1>6, <1>7 DEF BeginAccept, vars, Store
<1> HIDE DEF k
<1>11. \A r \in User : plan # <<Lookup(r)>>
  BY <1>7, NotLookup
<1>12. CallInOrder(k, session[c].name, Has)
  BY <1>5, <1>6, <1>7, <1>8, <1>9, <1>11 DEF CallInOrder
<1> QED
  BY <1>10, <1>12, PlanningOrder

\* The calls that start with an access record.
LEMMA BeginOnAccessOrder ==
    ASSUME StepTypes, OrderInv, NEW c \in Client, NEW o, NEW f \in Filename, NEW x, NEW n,
           BeginOnAccess(c, o, f, x, n)
    PROVE  OrderInv'
<1>1. session[c] # None
  BY DEF BeginOnAccess, Idle
<1>2. PICK h \in Handle : h = <<session[c].name, f>>
  BY <1>1, PutUserNeeds
<1>3. access[h] # None /\ Boxes(access[h]) \subseteq Has
  BY <1>2 DEF BeginOnAccess, OrderInv, StoredInOrder
<1> DEFINE k == NewCall(o, f, x, access[h])
<1>4. k.access = access[h] /\ k.plan = << >>
  BY DEF NewCall
<1>5. call' = [call EXCEPT ![c] = k] /\ UNCHANGED <<session, Store, late>>
  BY <1>2 DEF BeginOnAccess, vars, Store
<1> HIDE DEF k
<1>6. Range(<< >>) = {} /\ \A r : << >> # <<Lookup(r)>>
  BY DEF Range
<1>7. CallInOrder(k, session[c].name, Has)
  BY <1>3, <1>4, <1>6, OrderFree DEF CallInOrder
<1> QED
  BY <1>5, <1>7, PlanningOrder

\* What two plans store one after the other.
LEMMA WrittenConcat ==
    ASSUME NEW s \in Seq(Item), NEW t \in Seq(Item)
    PROVE  Written(s \o t) = Written(s) \cup Written(t)
<1>1. Range(s \o t) = Range(s) \cup Range(t)
  BY JoinedPlans
<1> QED
  BY <1>1 DEF Written

\* StoreFile: the mailbox before the access record, the blocks before the inode, and the
\* access record before the user record.
LEMMA BeginStoreOrder ==
    ASSUME StepTypes, OrderInv, NEW c \in Client, NEW f \in Filename, NEW content \in Content,
           BeginStore(c, f, content)
    PROVE  OrderInv'
<1>1. session[c] # None /\ TypeOK /\ CanDraw(3 + Len(content))
  BY DEF StepTypes, BeginStore, Idle
<1>2. next \in Nat \ {0} /\ Len(content) \in Nat
  BY <1>1, Typed, ContentIsSeq
<1>3. /\ next \in Id /\ next + 1 \in Id /\ next + 2 \in Id
      /\ next + 3 \in Nat \ {0} /\ next + 3 + Len(content) <= MaxId + 1
  BY <1>1, <1>2, BoundsAssumption DEF CanDraw, Id
<1>4. PICK h \in Handle : h = <<session[c].name, f>>
  BY <1>1, PutUserNeeds
<1>5. PICK pm \in SetItem : pm = Put("mailbox", next + 2, [fileKey |-> next, inode |-> next + 1])
  BY <1>3, PutTyped DEF MailboxNode
<1>6. pm.kind = "set" /\ pm.store = "mailbox" /\ RefOf(pm) = <<"mailbox", next + 2>> /\ Needs(pm) = {}
  BY <1>5, PutFields, NeedsOf
<1>7. PICK pa \in SetItem : pa = Put("access", h, NewRecord(h, next + 2)) /\ Needs(pa) = {<<"mailbox", next + 2>>}
  BY <1>3, NewRecordNeeds
<1>8. pa.kind = "set" /\ pa.store = "access" /\ RefOf(pa) = <<"access", h>>
  BY <1>7, PutFields
<1>9. PICK pi \in SetItem :
         pi = Put("inode", next + 1, encryptAndMAC(NewBlocks(next + 3, Len(content)), next))
  BY <1>2, <1>3, NewBlocksProperties, PutTyped DEF encryptAndMAC, SealedInode
<1>10. /\ pi.kind = "set" /\ pi.store = "inode"
       /\ Needs(pi) = {<<"block", b>> : b \in Range(NewBlocks(next + 3, Len(content)))}
  <2>1. pi.store = "inode" /\ pi.kind = "set"
        /\ pi.value = encryptAndMAC(NewBlocks(next + 3, Len(content)), next)
    BY <1>9, PutFields
  <2>2. pi.value.plain = NewBlocks(next + 3, Len(content))
    BY <2>1 DEF encryptAndMAC
  <2> QED
    BY <2>1, <2>2, NeedsOf
<1>11. PICK pu \in SetItem : /\ pu = PutUser(c, f) /\ pu.at = session[c].name /\ pu.kind = "set"
                             /\ Needs(pu) \subseteq Has \cup {<<"access", h>>}
  BY <1>1, <1>4, PutUserNeeds
<1>12. PICK s \in Seq(Item) : s = <<pm, pa>> /\ Range(s) = {pm, pa}
  <2>1. pm \in Item /\ pa \in Item
    BY ItemKinds
  <2> QED
    BY <2>1, ShortPlans
<1>13. PICK w \in Seq(Item) : w = <<pi, pu>> /\ Range(w) = {pi, pu}
  <2>1. pi \in Item /\ pu \in Item
    BY ItemKinds
  <2> QED
    BY <2>1, ShortPlans, ZenonT(60)
<1>14. PICK t \in Seq(Item) : t = PutBlocks(next + 3, content, next)
  BY <1>3, PutBlocksItems
<1>15. /\ InOrder(t, Has \cup Written(s))
       /\ \A b \in Range(NewBlocks(next + 3, Len(content))) : <<"block", b>> \in Written(t)
       /\ Range(t) \subseteq SetItem /\ \A p \in Range(t) : p.store = "block"
  BY <1>3, <1>14, PutBlocksOrder
<1>16. InOrder(s, Has)
  BY <1>6, <1>7, <1>12, ItemKinds, OrderPair
<1>17. <<"access", h>> \in Written(s)
  BY <1>8, <1>12 DEF Written
<1>18. PICK v \in Seq(Item) : /\ v = s \o t /\ Range(v) = Range(s) \cup Range(t)
                              /\ Written(v) = Written(s) \cup Written(t) /\ InOrder(v, Has)
  <2>1. s \o t \in Seq(Item) /\ Range(s \o t) = Range(s) \cup Range(t)
    BY JoinedPlans
  <2>2. InOrder(s \o t, Has)
    BY <1>15, <1>16, OrderConcat
  <2>3. Written(s \o t) = Written(s) \cup Written(t)
    BY WrittenConcat
  <2> QED
    BY <2>1, <2>2, <2>3
<1>19. InOrder(w, Has \cup Written(v))
  <2>1. \A p \in Range(w) : p.kind = "set" => Needs(p) \subseteq Has \cup Written(v)
    BY <1>10, <1>11, <1>13, <1>15, <1>17, <1>18
  <2> QED
    BY <2>1, OrderFree
<1>20. PICK plan \in Seq(Item) : /\ plan = v \o w /\ InOrder(plan, Has)
                                 /\ Range(plan) = {pm, pa, pi, pu} \cup Range(t)
  <2>1. v \o w \in Seq(Item) /\ Range(v \o w) = Range(v) \cup Range(w)
    BY JoinedPlans
  <2>2. InOrder(v \o w, Has)
    BY <1>18, <1>19, OrderConcat
  <2> QED
    BY <1>12, <1>13, <1>18, <2>1, <2>2
<1>21. StorePlan(c, f, content) = plan
  BY <1>4, <1>5, <1>7, <1>9, <1>11, <1>12, <1>13, <1>14, <1>18, <1>20 DEF StorePlan
<1> DEFINE k == [NewCall("StoreFile", f, content, None) EXCEPT !.plan = plan]
<1>22. k.access = None /\ k.plan = plan
  BY DEF NewCall
<1>23. call' = [call EXCEPT ![c] = k] /\ UNCHANGED <<session, Store, late>>
  BY <1>21 DEF BeginStore
<1> HIDE DEF k
<1>24. Range(plan) \subseteq SetItem \cup FetchItem
  BY <1>15, <1>20
<1>25. \A r \in User : plan # <<Lookup(r)>>
  BY <1>24, NotLookup
<1>26. \A p \in Range(plan) : p.kind = "set" /\ p.store = "user" => p.at = session[c].name
  BY <1>6, <1>8, <1>10, <1>11, <1>15, <1>20
<1>27. CallInOrder(k, session[c].name, Has)
  BY <1>20, <1>22, <1>25, <1>26 DEF CallInOrder
<1> QED
  BY <1>23, <1>27, PlanningOrder

\* What a call has read, or will do next, when nothing is planned yet.
LEMMA ReadMailboxOrder ==
    ASSUME StepTypes, OrderInv, NEW c \in Client, ReadMailbox(c)
    PROVE  OrderInv'
<1>1. TypeOK /\ Reading(c) /\ next \in Nat \ {0} /\ next <= MaxId + 1
  BY Typed DEF StepTypes, ReadMailbox
<1>2. PICK k \in CallRecord : k = call[c] /\ k.plan = << >> /\ k.access \in Access
  BY <1>1, ReadingCall
<1>3. CallInOrder(k, session[c].name, Has)
  BY <1>1, <1>2 DEF Reading, OrderInv
<1>4. PICK m \in Id : m = k.access.mailbox
  BY <1>2 DEF Access
<1>5. CASE mailbox[m] = None
  <2>1. Refuse(c)
    BY <1>2, <1>4, <1>5 DEF ReadMailbox
  <2> QED
    BY <2>1, RefuseOrder
<1>6. CASE mailbox[m] # None /\ k.op = "CreateInvitation"
  <2>1. PICK box \in MailboxNode : box = mailbox[m]
    BY <1>1, <1>6, Typed
  <2>2. next \in Id /\ k.arg \in User
    BY <1>1, <1>2, <1>4, <1>6, ReadingCall, BoundsAssumption DEF ReadMailbox, CanDraw, Id
  <2>3. PICK pm \in SetItem : pm = Put("mailbox", next, box)
    BY <2>2, PutTyped
  <2>4. pm.kind = "set" /\ pm.store = "mailbox" /\ Needs(pm) = {}
    BY <2>3, PutFields, NeedsOf
  <2>5. PICK pl \in Item : pl = Lookup(k.arg) /\ pl.kind = "lookup"
    BY <2>2, ItemKinds
  <2>6. PICK plan \in Seq(Item) : plan = <<pm, pl>> /\ Range(plan) = {pm, pl} /\ Len(plan) = 2
    <3>1. pm \in Item
      BY ItemKinds
    <3> QED
      BY <3>1, ShortPlans
  <2> DEFINE on == [[k EXCEPT !.box = box] EXCEPT !.made = next, !.plan = plan]
  <2>7. on.plan = plan /\ on.access = k.access
    BY DEF CallRecord
  <2>8. call' = [call EXCEPT ![c] = on] /\ UNCHANGED <<session, Store, late>>
    BY <1>2, <1>4, <1>6, <2>1, <2>3, <2>5, <2>6 DEF ReadMailbox
  <2> HIDE DEF on
  <2>9. InOrder(plan, Has)
    BY <2>4, <2>5, <2>6, OrderFree
  <2>10. \A r \in User : plan # <<Lookup(r)>>
    BY <2>6
  <2>11. CallInOrder(on, session[c].name, Has)
    BY <1>3, <2>4, <2>5, <2>6, <2>7, <2>9, <2>10 DEF CallInOrder
  <2> QED
    BY <2>8, <2>11, PlanningOrder
<1>7. CASE mailbox[m] # None /\ k.op # "CreateInvitation"
  <2>1. PICK box : box = mailbox[m]
    OBVIOUS
  <2> DEFINE on == [k EXCEPT !.box = box]
  <2>2. on.plan = << >> /\ on.access = k.access
    BY <1>2 DEF CallRecord
  <2>3. call' = [call EXCEPT ![c] = on] /\ UNCHANGED <<session, Store, late>>
    BY <1>2, <1>4, <1>7, <2>1 DEF ReadMailbox
  <2> HIDE DEF on
  <2>4. Range(<< >>) = {} /\ \A r : << >> # <<Lookup(r)>>
    BY DEF Range
  <2>5. CallInOrder(on, session[c].name, Has)
    BY <1>3, <2>2, <2>4, OrderFree DEF CallInOrder
  <2> QED
    BY <2>3, <2>5, PlanningOrder
<1> QED
  BY <1>5, <1>6, <1>7

\* The blocks of a readable inode are stored, and those of an append before its inode.
LEMMA AppendPlanOrder ==
    ASSUME StepTypes, OrderInv, NEW box \in MailboxNode, inode[box.inode] # None,
           NEW content \in Content, CanDraw(Len(content))
    PROVE  InOrder(AppendPlan(box, inode[box.inode], content), Has)
<1>1. TypeOK /\ next \in Nat \ {0} /\ Len(content) \in Nat /\ next + Len(content) <= MaxId + 1
  BY Typed, ContentIsSeq DEF CanDraw, StepTypes
<1>2. PICK i \in Id, key \in Id : i = box.inode /\ key = box.fileKey
  BY DEF MailboxNode
<1>3. PICK old \in Seq(Id) : old = inode[i].plain
  BY <1>1, <1>2, Typed DEF SealedInode
<1>4. PICK new \in Seq(Id) : new = NewBlocks(next, Len(content))
  BY <1>1, NewBlocksProperties
<1>5. PICK list \in Seq(Id) : list = old \o new /\ Range(list) = Range(old) \cup Range(new)
  BY IdsOfConcat
<1>6. PICK pi \in SetItem : pi = Put("inode", i, encryptAndMAC(list, key))
  BY PutTyped DEF encryptAndMAC, SealedInode
<1>7. Needs(pi) = {<<"block", b>> : b \in Range(list)}
  <2>1. pi.store = "inode" /\ pi.value = encryptAndMAC(list, key)
    BY <1>6, PutFields
  <2>2. pi.value.plain = list
    BY <2>1 DEF encryptAndMAC
  <2> QED
    BY <2>1, <2>2, NeedsOf
<1>8. PICK t \in Seq(Item) : t = PutBlocks(next, content, key)
  BY <1>1, PutBlocksItems
<1>9. /\ InOrder(t, Has)
      /\ \A b \in Range(new) : <<"block", b>> \in Written(t)
  BY <1>1, <1>4, <1>8, PutBlocksOrder
<1>10. PICK w \in Seq(Item) : w = <<pi>> /\ Range(w) = {pi}
  <2>1. pi \in Item
    BY ItemKinds
  <2> QED
    BY <2>1, ShortPlans
<1>11. \A b \in Range(old) : <<"block", b>> \in Has
  BY <1>2, <1>3 DEF OrderInv, StoredInOrder
<1>12. InOrder(w, Has \cup Written(t))
  <2>1. \A p \in Range(w) : p.kind = "set" => Needs(p) \subseteq Has \cup Written(t)
    BY <1>5, <1>7, <1>9, <1>10, <1>11
  <2> QED
    BY <2>1, OrderFree
<1>13. InOrder(t \o w, Has)
  BY <1>9, <1>12, OrderConcat
<1>14. AppendPlan(box, inode[box.inode], content) = t \o w
  BY <1>2, <1>3, <1>4, <1>5, <1>6, <1>8, <1>10 DEF AppendPlan
<1> QED
  BY <1>13, <1>14

\* RevokeAccess: the new mailbox before the access record that refers to it.
LEMMA RekeyPlanOrder ==
    ASSUME StepTypes, OrderInv, NEW box \in MailboxNode, inode[box.inode] # None, CanDraw(2),
           NEW children \in Seq(Id), NEW pa \in SetItem, NEW pu \in SetItem,
           Needs(pa) \subseteq Has \cup {<<"mailbox", next + 1>>},
           Needs(pu) \subseteq Has \cup {RefOf(pa)}
    PROVE  InOrder(RekeyPlan(box, inode[box.inode], children, <<pa, pu>>), Has)
<1>1. TypeOK /\ next \in Nat \ {0} /\ next \in Id /\ next + 1 \in Id
  BY Typed, BoundsAssumption DEF CanDraw, Id, StepTypes
<1>2. PICK i \in Id : i = box.inode
  BY DEF MailboxNode
<1>3. PICK list \in Seq(Id) : list = inode[i].plain
  BY <1>1, <1>2, Typed DEF SealedInode
<1>4. PICK pi \in SetItem : pi = Put("inode", i, encryptAndMAC(list, next))
  BY <1>1, PutTyped DEF encryptAndMAC, SealedInode
<1>5. Needs(pi) \subseteq Has
  <2>1. pi.store = "inode" /\ pi.value = encryptAndMAC(list, next)
    BY <1>4, PutFields
  <2>2. pi.value.plain = list
    BY <2>1 DEF encryptAndMAC
  <2>3. \A b \in Range(list) : <<"block", b>> \in Has
    BY <1>2, <1>3 DEF OrderInv, StoredInOrder
  <2> QED
    BY <2>1, <2>2, <2>3, NeedsOf
<1>6. PICK pm \in SetItem : pm = Put("mailbox", next + 1, [fileKey |-> next, inode |-> i])
  BY <1>1, PutTyped DEF MailboxNode
<1>7. pm.kind = "set" /\ RefOf(pm) = <<"mailbox", next + 1>> /\ Needs(pm) = {}
  BY <1>6, PutFields, NeedsOf
<1>8. PICK s \in Seq(Item) : /\ s = [x \in DOMAIN list |-> Fetch("block", list[x], next)]
                             /\ Range(s) \subseteq FetchItem
  BY <1>1, FetchItems
<1>9. PICK v \in Seq(Item) : /\ v = [x \in DOMAIN children |-> Fetch("mailbox", children[x], next)]
                             /\ Range(v) \subseteq FetchItem
  BY <1>1, FetchItems
<1>10. \A have : InOrder(s, have) /\ InOrder(v, have)
  BY <1>8, <1>9, ItemKinds, OrderFree
<1>11. PICK t \in Seq(Item) : t = <<pi, pm>> /\ Range(t) = {pi, pm}
  <2>1. pi \in Item /\ pm \in Item
    BY ItemKinds
  <2>2. <<pi, pm>> \in Seq(Item) /\ Range(<<pi, pm>>) = {pi, pm}
    BY <2>1, ShortPlans
  <2> QED
    BY <2>2
<1>12. PICK w \in Seq(Item) : w = <<pa, pu>>
  <2>1. pa \in Item /\ pu \in Item
    BY ItemKinds
  <2> QED
    BY <2>1, ShortPlans
<1>13. \A have : Has \subseteq have => InOrder(t, have)
  BY <1>5, <1>7, <1>11, OrderFree
<1>14. PICK z \in Seq(Item) : z = s \o t /\ Written(z) = Written(s) \cup Written(t) /\ InOrder(z, Has)
  <2>1. s \o t \in Seq(Item)
    BY JoinedPlans
  <2>2. InOrder(s \o t, Has)
    <3>1. InOrder(s, Has) /\ InOrder(t, Has \cup Written(s))
      BY <1>10, <1>13
    <3> QED
      BY <3>1, OrderConcat
  <2>3. Written(s \o t) = Written(s) \cup Written(t)
    BY WrittenConcat
  <2> QED
    BY <2>1, <2>2, <2>3
<1>15. PICK y \in Seq(Item) : y = z \o v /\ Written(y) = Written(z) \cup Written(v) /\ InOrder(y, Has)
  <2>1. z \o v \in Seq(Item)
    BY JoinedPlans
  <2>2. InOrder(z \o v, Has)
    BY <1>10, <1>14, OrderConcat
  <2>3. Written(z \o v) = Written(z) \cup Written(v)
    BY WrittenConcat
  <2> QED
    BY <2>1, <2>2, <2>3
<1>16. <<"mailbox", next + 1>> \in Written(t)
  BY <1>7, <1>11 DEF Written
<1>17. InOrder(w, Has \cup Written(y))
  <2>1. <<"mailbox", next + 1>> \in Written(y)
    BY <1>14, <1>15, <1>16
  <2>2. PICK have : have = Has \cup Written(y)
    OBVIOUS
  <2>3. Needs(pa) \subseteq have /\ Needs(pu) \subseteq have \cup {RefOf(pa)}
    BY <2>1, <2>2
  <2>4. pa \in Item /\ pu \in Item /\ pa.kind = "set"
    BY ItemKinds
  <2>5. InOrder(<<pa, pu>>, have)
    BY <2>3, <2>4, OrderPair
  <2> QED
    BY <1>12, <2>2, <2>5
<1>18. InOrder(y \o w, Has)
  BY <1>15, <1>17, OrderConcat
<1>19. RekeyPlan(box, inode[box.inode], children, <<pa, pu>>) = y \o w
  BY <1>2, <1>3, <1>4, <1>6, <1>8, <1>9, <1>11, <1>12, <1>14, <1>15 DEF RekeyPlan
<1> QED
  BY <1>18, <1>19

\* AppendToFile and RevokeAccess fix their plans once they have read the inode.
LEMMA ReadInodeOrder ==
    ASSUME StepTypes, OrderInv, NEW c \in Client, ReadInode(c)
    PROVE  OrderInv'
<1>1. TypeOK /\ Reading(c)
  BY DEF StepTypes, ReadInode
<1>2. PICK k \in CallRecord : k = call[c] /\ k.plan = << >> /\ k.access \in Access
  BY <1>1, ReadingCall
<1>3. session[c] # None /\ CallInOrder(k, session[c].name, Has)
  BY <1>1, <1>2, ReadingCall DEF Reading, OrderInv
<1>4. PICK box \in MailboxNode : box = k.box
  BY <1>2 DEF ReadInode, CallRecord
<1>5. \/ k.op = "AppendToFile" /\ k.arg \in Content
      \/ k.op = "RevokeAccess" /\ k.arg \in User
  BY <1>1, <1>2, ReadingCall DEF ReadInode
<1>6. PICK i \in Id : i = box.inode
  BY DEF MailboxNode
<1>7. CASE ~decryptAndVerify(inode[i], box.fileKey)
  <2>1. Refuse(c)
    BY <1>2, <1>4, <1>6, <1>7 DEF ReadInode
  <2> QED
    BY <2>1, RefuseOrder
<1>8. ASSUME NEW plan \in Seq(Item), plan # << >>, GoOn(c, plan), UNCHANGED <<session, Store, late>>,
             InOrder(plan, Has), Range(plan) \subseteq SetItem \cup FetchItem,
             \A p \in Range(plan) : p.kind = "set" /\ p.store = "user" => p.at = session[c].name
      PROVE  OrderInv'
  <2> DEFINE on == [k EXCEPT !.plan = plan]
  <2>1. on.plan = plan /\ on.access = k.access
    BY WithPlan
  <2>2. call' = [call EXCEPT ![c] = on]
    BY <1>2, <1>8 DEF GoOn
  <2> HIDE DEF on
  <2>3. \A r \in User : plan # <<Lookup(r)>>
    BY <1>8, NotLookup
  <2>4. CallInOrder(on, session[c].name, Has)
    BY <1>3, <1>8, <2>1, <2>3 DEF CallInOrder
  <2> QED
    BY <1>8, <2>2, <2>4, PlanningOrder
<1>9. CASE decryptAndVerify(inode[i], box.fileKey) /\ k.op = "AppendToFile"
  <2>1. inode[box.inode] # None
    BY <1>6, <1>9 DEF decryptAndVerify
  <2>2. PICK content \in Content : content = k.arg
    BY <1>5, <1>9
  <2>3. /\ CanDraw(Len(content)) /\ GoOn(c, AppendPlan(box, inode[box.inode], content))
        /\ UNCHANGED <<session, Store, late>>
    BY <1>2, <1>4, <1>6, <1>9, <2>2 DEF ReadInode
  <2> DEFINE pi == Put("inode", box.inode,
                       encryptAndMAC(inode[box.inode].plain \o NewBlocks(next, Len(content)),
                                     box.fileKey))
             pb == PutBlocks(next, content, box.fileKey)
  <2>4. PICK plan \in Seq(Item) : plan = AppendPlan(box, inode[box.inode], content) /\ plan # << >>
    BY <1>1, <2>1, <2>3, AppendPlanItems
  <2>5. Range(plan) = {pi} \cup Range(pb) /\ Range(plan) \subseteq SetItem
    BY <1>1, <2>1, <2>3, <2>4, AppendPlanItems
  <2>6. InOrder(plan, Has)
    BY <2>1, <2>3, <2>4, AppendPlanOrder
  <2>7. pi.store = "inode"
    BY PutFields
  <2>8. \A p \in Range(pb) : p.store = "block"
    <3>1. next \in Nat \ {0} /\ next + Len(content) <= MaxId + 1 /\ box.fileKey \in Id
      BY <1>1, <2>3, Typed DEF CanDraw, MailboxNode
    <3> QED
      BY <3>1, PutBlocksOrder
  <2> HIDE DEF pi, pb
  <2>9. \A p \in Range(plan) : p.store # "user"
    BY <2>5, <2>7, <2>8
  <2> QED
    BY <1>8, <2>3, <2>4, <2>5, <2>6, <2>9
<1>10. CASE decryptAndVerify(inode[i], box.fileKey) /\ k.op = "RevokeAccess"
  <2>1. inode[box.inode] # None
    BY <1>6, <1>10 DEF decryptAndVerify
  <2>2. PICK r \in User, a \in Access, f \in Filename : r = k.arg /\ a = k.access /\ f = k.filename
    BY <1>2, <1>5, <1>10 DEF CallRecord
  <2>3. PICK h \in Handle : h = HandleOf(c) /\ h = <<session[c].name, f>>
    BY <1>2, <1>3, <2>2, PutUserNeeds DEF HandleOf
  <2>4. /\ CanDraw(2) /\ UNCHANGED <<session, Store, late>>
    BY <1>2, <1>4, <1>6, <1>10 DEF ReadInode
  <2>5. PICK m \in Id : m = next + 1
    BY <1>1, <2>4, Typed, BoundsAssumption DEF CanDraw, Id
  <2>6. PICK pa \in SetItem : pa = Put("access", h, WithoutChild(a, r, m))
    BY PutTyped DEF WithoutChild, Access, ChildrenMap
  <2>7. /\ pa.store = "access" /\ RefOf(pa) = <<"access", h>>
        /\ Needs(pa) \subseteq Has \cup {<<"mailbox", m>>}
    <3>1. Needs(pa) = Boxes(WithoutChild(a, r, m)) /\ pa.store = "access" /\ RefOf(pa) = <<"access", h>>
      BY <2>6, PutFields, NeedsOf
    <3>2. Boxes(a) \subseteq Has
      BY <1>3, <2>2, NoneAssumption DEF CallInOrder
    <3>3. Boxes(WithoutChild(a, r, m)) \subseteq Boxes(a) \cup {<<"mailbox", m>>}
      BY DEF Boxes, WithoutChild, Access, ChildrenMap
    <3> QED
      BY <3>1, <3>2, <3>3
  <2>8. PICK pu \in SetItem : /\ pu = PutUser(c, f) /\ pu.at = session[c].name
                              /\ Needs(pu) \subseteq Has \cup {<<"access", h>>}
    BY <1>3, <2>3, PutUserNeeds
  <2>9. PICK children \in Orders(KeptChildren(a, r)) :
            GoOn(c, RekeyPlan(box, inode[box.inode], children, <<pa, pu>>))
    BY <1>2, <1>4, <1>6, <1>10, <2>2, <2>3, <2>5, <2>6, <2>8 DEF ReadInode
  <2>10. children \in Seq(Id)
    BY OrdersAreSeqs
  <2> DEFINE pi == Put("inode", box.inode, encryptAndMAC(inode[box.inode].plain, next))
             pm == Put("mailbox", next + 1, [fileKey |-> next, inode |-> box.inode])
  <2>11. PICK plan \in Seq(Item) :
            /\ plan = RekeyPlan(box, inode[box.inode], children, <<pa, pu>>) /\ plan # << >>
            /\ Range(plan) \subseteq {pi, pm, pa, pu} \cup FetchItem
            /\ pi \in SetItem /\ pm \in SetItem
    BY <1>1, <2>1, <2>4, <2>10, RekeyPlanItems
  <2>12. pi.store = "inode" /\ pm.store = "mailbox"
    BY PutFields
  <2> HIDE DEF pi, pm
  <2>13. InOrder(plan, Has)
    BY <2>1, <2>4, <2>5, <2>7, <2>8, <2>10, <2>11, RekeyPlanOrder
  <2>14. \A p \in Range(plan) : p.kind = "set" /\ p.store = "user" => p.at = session[c].name
    BY <2>7, <2>8, <2>11, <2>12, ItemKinds
  <2>15. Range(plan) \subseteq SetItem \cup FetchItem
    BY <2>11
  <2> QED
    BY <1>8, <2>4, <2>9, <2>11, <2>13, <2>14, <2>15
<1> QED
  BY <1>5, <1>7, <1>9, <1>10

\* RevokeAccess puts back what it read: a block or a mailbox refers to nothing that must
\* be there first.
LEMMA DoFetchOrder ==
    ASSUME StepTypes, OrderInv, NEW c \in Client, DoFetch(c)
    PROVE  OrderInv'
<1>1. TypeOK /\ Planned(c, "fetch")
  BY DEF StepTypes, DoFetch
<1>2. PICK k \in CallRecord : /\ k = call[c] /\ k # None /\ CallShape(k) /\ k.plan # << >>
                              /\ k.op = "RevokeAccess"
  BY <1>1, PlannedFetch
<1>3. PICK p \in FetchItem : p = Head(k.plan)
  BY <1>1, <1>2, PlannedFetch
<1>4. PICK x \in Id, v \in Id : x = p.at /\ v = p.value
  BY <1>3, ItemKinds
<1>5. p.store \in {"block", "mailbox"} /\ p.kind = "fetch" /\ p = Head(call[c].plan)
  BY <1>2, <1>3, ItemKinds
<1>6. CallInOrder(k, session[c].name, Has)
  BY <1>2 DEF OrderInv
<1>7. ASSUME NEW back \in SetItem, back.store \in {"block", "mailbox"},
             GoOn(c, <<back>> \o Tail(k.plan)), UNCHANGED <<vars, late>>
      PROVE  OrderInv'
  <2>1. PICK s \in Seq(Item) : s = k.plan /\ s # << >>
    BY <1>2 DEF CallRecord
  <2>2. PICK rest \in Seq(Item) : rest = Tail(s) /\ Range(rest) \subseteq Range(s)
    BY <2>1, HeadAndTail
  <2>3. InOrder(rest, Has)
    BY <1>3, <1>5, <1>6, <2>1, <2>2, OrderTail DEF CallInOrder
  <2>4. back \in Item /\ Needs(back) = {}
    BY <1>7, ItemKinds, NeedsOf
  <2>5. PICK b \in Seq(Item) : b = <<back>> /\ Range(b) = {back} /\ b # << >>
    BY <2>4, ShortPlans
  <2>6. InOrder(b, Has)
    BY <2>4, <2>5, OrderFree
  <2>7. InOrder(rest, Has \cup Written(b))
    BY <2>3, OrderMore
  <2>8. InOrder(b \o rest, Has)
    BY <2>6, <2>7, OrderConcat
  <2>9. b \o rest \in Seq(Item) /\ Range(b \o rest) = Range(b) \cup Range(rest)
    BY JoinedPlans
  <2>10. b \o rest # << >>
    BY <2>5, JoinedPlans
  <2>11. PICK plan \in Seq(Item) : /\ plan = b \o rest /\ plan # << >> /\ InOrder(plan, Has)
                                   /\ Range(plan) = {back} \cup Range(rest)
    BY <2>5, <2>8, <2>9, <2>10
  <2> DEFINE on == [k EXCEPT !.plan = plan]
  <2>12. on.plan = plan /\ on.access = k.access
    BY WithPlan
  <2>13. call' = [call EXCEPT ![c] = on]
    BY <1>2, <1>7, <2>1, <2>2, <2>5, <2>11 DEF GoOn
  <2> HIDE DEF on
  <2>14. Range(plan) \subseteq SetItem \cup FetchItem
    BY <1>2, <2>1, <2>2, <2>11 DEF CallShape
  <2>15. \A r \in User : plan # <<Lookup(r)>>
    BY <2>14, NotLookup
  <2>16. \A q \in Range(plan) : q.kind = "set" /\ q.store = "user" => q.at = session[c].name
    BY <1>6, <1>7, <2>1, <2>2, <2>11 DEF CallInOrder
  <2>17. CallInOrder(on, session[c].name, Has)
    BY <1>6, <2>11, <2>12, <2>15, <2>16 DEF CallInOrder
  <2>18. UNCHANGED <<session, Store, late>>
    BY <1>7 DEF vars, Store
  <2> QED
    BY <2>13, <2>17, <2>18, PlanningOrder
<1>8. CASE /\ decryptAndVerify(block[x], call[c].box.fileKey)
           /\ GoOn(c, <<Put("block", x, encryptAndMAC(block[x].plain, v))>> \o Tail(k.plan))
           /\ UNCHANGED <<vars, late, issued, batch>>
  <2>1. block[x] # None /\ block[x] \in SealedBlock
    BY <1>1, <1>8, Typed DEF decryptAndVerify
  <2>2. PICK back \in SetItem : back = Put("block", x, encryptAndMAC(block[x].plain, v))
    BY <2>1, PutTyped DEF encryptAndMAC, SealedBlock
  <2>3. back.store = "block"
    BY <2>2, PutFields
  <2> QED
    BY <1>7, <1>8, <2>2, <2>3
<1>9. CASE /\ mailbox[x] # None
           /\ GoOn(c, <<Put("mailbox", x, [mailbox[x] EXCEPT !.fileKey = v])>> \o Tail(k.plan))
           /\ UNCHANGED <<vars, late, issued, batch>>
  <2>1. mailbox[x] \in MailboxNode
    BY <1>1, <1>9, Typed
  <2>2. PICK back \in SetItem : back = Put("mailbox", x, [mailbox[x] EXCEPT !.fileKey = v])
    BY <2>1, PutTyped DEF MailboxNode
  <2>3. back.store = "mailbox"
    BY <2>2, PutFields
  <2> QED
    BY <1>7, <1>9, <2>2, <2>3
<1>10. \/ Refuse(c)
       \/ /\ decryptAndVerify(block[x], call[c].box.fileKey)
          /\ GoOn(c, <<Put("block", x, encryptAndMAC(block[x].plain, v))>> \o Tail(k.plan))
          /\ UNCHANGED <<vars, late, issued, batch>>
       \/ /\ mailbox[x] # None
          /\ GoOn(c, <<Put("mailbox", x, [mailbox[x] EXCEPT !.fileKey = v])>> \o Tail(k.plan))
          /\ UNCHANGED <<vars, late, issued, batch>>
  BY <1>2, <1>4, <1>5 DEF DoFetch
<1> QED
  BY <1>8, <1>9, <1>10, RefuseOrder

\* CreateInvitation looks its recipient up once the mailbox it made is stored.
LEMMA PlannedLookup ==
    ASSUME StepTypes, NEW c \in Client, Planned(c, "lookup")
    PROVE  \E k \in CallRecord : /\ k = call[c] /\ k # None /\ k.access \in Access
                                 /\ k.made \in Id /\ k.arg \in User /\ k.plan = <<Lookup(k.arg)>>
<1>1. PICK k \in CallRecord : /\ k = call[c] /\ k # None /\ CallShape(k) /\ k.plan # << >>
                              /\ Head(k.plan).kind = "lookup"
  BY DEF StepTypes, CallsTyped, Planned
<1>2. PICK s \in Seq(Item) : s = k.plan /\ s # << >>
  BY <1>1 DEF CallRecord
<1>3. PICK p \in Item : p = Head(s) /\ p \in Range(s) /\ p.kind = "lookup"
  BY <1>1, <1>2, HeadAndTail
<1>4. p \notin SetItem /\ p \notin FetchItem
  BY <1>3, ItemKinds
<1>5. k.access \in Access /\ InvitationShape(k)
  BY <1>1, <1>2, <1>3, <1>4 DEF CallShape
<1>6. ASSUME NEW x \in SetItem, NEW y \in SetItem, s \in {<<x, y>>, <<y>>} PROVE FALSE
  <2>1. p \in {x, y}
    BY <1>3, <1>6
  <2> QED
    BY <1>4, <2>1
<1>7. s # <<Put("mailbox", k.made, k.box), Lookup(k.arg)>>
  <2>1. SUFFICES ASSUME s = <<Put("mailbox", k.made, k.box), Lookup(k.arg)>> PROVE FALSE
    OBVIOUS
  <2>2. p = Put("mailbox", k.made, k.box)
    BY <1>3, <2>1
  <2> QED
    BY <1>3, <2>2 DEF Put
<1>8. k.made \in Id /\ k.arg \in User /\ k.plan = <<Lookup(k.arg)>>
  BY <1>2, <1>5, <1>6, <1>7 DEF InvitationShape
<1> QED
  BY <1>1, <1>5, <1>8

\* The invitation and the access record of CreateInvitation refer to a stored mailbox.
LEMMA DoLookupOrder ==
    ASSUME StepTypes, OrderInv, NEW c \in Client, DoLookup(c)
    PROVE  OrderInv'
<1>1. TypeOK /\ Planned(c, "lookup")
  BY DEF StepTypes, DoLookup
<1>2. PICK k \in CallRecord : /\ k = call[c] /\ k # None /\ k.access \in Access
                              /\ k.made \in Id /\ k.arg \in User /\ k.plan = <<Lookup(k.arg)>>
  BY <1>1, PlannedLookup
<1>3. session[c] # None /\ CallInOrder(k, session[c].name, Has)
  BY <1>2 DEF StepTypes, CallsTyped, OrderInv
<1>4. PICK m \in Id, a \in Access, r \in User, f \in Filename :
         /\ m = k.made /\ a = k.access /\ r = k.arg /\ f = k.filename
         /\ <<"mailbox", m>> \in Has /\ Boxes(a) \subseteq Has
  <2>1. <<"mailbox", k.made>> \in Has /\ Boxes(k.access) \subseteq Has
    BY <1>2, <1>3, NoneAssumption DEF CallInOrder
  <2> QED
    BY <1>2, <2>1 DEF CallRecord
<1>5. CASE Refuse(c)
  BY <1>5, RefuseOrder
<1>6. CASE ~Refuse(c)
  <2>1. PICK h \in Handle : h = HandleOf(c)
    BY <1>2, <1>3, <1>4, PutUserNeeds DEF HandleOf
  <2> DEFINE inv == SealedInvitation(session[c].name, f, r, m)
             rec == WithChild(a, r, m)
  <2>2. /\ CanDraw(1) /\ UNCHANGED <<session, Store, late>>
        /\ call' = [call EXCEPT ![c] = [k EXCEPT !.arg = next, !.plan =
                       <<Put("invitation", next, inv), Put("access", h, rec)>>]]
    BY <1>2, <1>4, <1>6, <2>1 DEF DoLookup
  <2>3. PICK j \in Id : j = next
    BY <1>1, <2>2, Typed, BoundsAssumption DEF CanDraw, Id
  <2>4. inv \in Invitation /\ inv.mailbox = m
    BY <1>1, <1>3, Typed DEF SealedInvitation, Invitation, Session
  <2>5. rec \in Access /\ Boxes(rec) \subseteq Has
    <3>1. rec \in Access
      BY DEF WithChild, Access, ChildrenMap
    <3>2. Boxes(rec) \subseteq Boxes(a) \cup {<<"mailbox", m>>}
      BY DEF Boxes, WithChild, Access, ChildrenMap
    <3> QED
      BY <1>4, <3>1, <3>2
  <2> HIDE DEF inv, rec
  <2>6. PICK pj \in SetItem : pj = Put("invitation", j, inv)
    BY <2>4, PutTyped
  <2>7. PICK pa \in SetItem : pa = Put("access", h, rec)
    BY <2>5, PutTyped
  <2>8. pj.store = "invitation" /\ Needs(pj) = {<<"mailbox", m>>}
    BY <2>4, <2>6, PutFields, NeedsOf
  <2>9. pa.store = "access" /\ Needs(pa) \subseteq Has
    BY <2>5, <2>7, PutFields, NeedsOf
  <2>10. PICK plan \in Seq(Item) : plan = <<pj, pa>> /\ Range(plan) = {pj, pa}
    <3>1. pj \in Item /\ pa \in Item
      BY ItemKinds
    <3> QED
      BY <3>1, ShortPlans
  <2> DEFINE on == [k EXCEPT !.arg = j, !.plan = plan]
  <2>11. on.plan = plan /\ on.access = a
    BY <1>4 DEF CallRecord
  <2>12. call' = [call EXCEPT ![c] = on]
    BY <2>2, <2>3, <2>6, <2>7, <2>10
  <2> HIDE DEF on
  <2>13. InOrder(plan, Has)
    BY <1>4, <2>8, <2>9, <2>10, OrderFree
  <2>14. \A q \in User : plan # <<Lookup(q)>>
    BY <2>10, NotLookup
  <2>15. CallInOrder(on, session[c].name, Has)
    BY <1>4, <2>8, <2>9, <2>10, <2>11, <2>13, <2>14 DEF CallInOrder
  <2> QED
    BY <2>2, <2>12, <2>15, PlanningOrder
<1> QED
  BY <1>5, <1>6

(***************************************************************************)
(* An object is stored before anything refers to it.                        *)
(***************************************************************************)
LEMMA OrderStep ==
    ASSUME StepTypes, IssuedStored, OrderInv, StepNext
    PROVE  OrderInv'
<1>1. ASSUME NEW c \in Client, NEW f \in Filename, Begin(c, f) PROVE OrderInv'
  <2>1. ASSUME NEW content \in Content,
               BeginStore(c, f, content) \/ BeginOnAccess(c, "AppendToFile", f, content, Len(content))
        PROVE  OrderInv'
    BY <2>1, BeginStoreOrder, BeginOnAccessOrder
  <2>2. ASSUME NEW r \in User, \/ BeginOnAccess(c, "CreateInvitation", f, r, 2)
                               \/ BeginOnAccess(c, "RevokeAccess", f, r, 2)
        PROVE  OrderInv'
    BY <2>2, BeginOnAccessOrder
  <2>3. ASSUME NEW s \in User, NEW j \in issued, BeginAccept(c, s, j, f)
        PROVE  OrderInv'
    BY <2>3, BeginAcceptOrder DEF IssuedStored
  <2> QED
    BY <1>1, <2>1, <2>2, <2>3 DEF Begin
<1> QED
  BY <1>1, UserCallOrder, ReadMailboxOrder, ReadInodeOrder, DoSetOrder, DoFetchOrder, DoLookupOrder,
     InterruptedOrder, LateEffectOrder DEF StepNext

\* At the start nothing is stored and nothing is planned.
LEMMA OrderInit == StepInit => OrderInv
<1>1. SUFFICES ASSUME StepInit PROVE OrderInv
  OBVIOUS
<1> QED
  BY <1>1 DEF StepInit, Init, OrderInv, StoredInOrder

\* What StoredInOrder says of Has, PointeesFirst says of the stores.
LEMMA StoredPointees ==
    ASSUME TypeOK, StoredInOrder
    PROVE  PointeesFirst
<1>1. \A m \in Id : <<"mailbox", m>> \in Has => mailbox[m] # None
  BY DEF Has
<1>2. \A b \in Id : <<"block", b>> \in Has => block[b] # None
  BY DEF Has
<1>3. \A h \in Handle : <<"access", h>> \in Has => access[h] # None
  BY DEF Has
<1>4. ASSUME NEW h \in Handle, access[h] # None
      PROVE  /\ mailbox[access[h].mailbox] # None
             /\ \A u \in User : access[h].children[u] # None =>
                   mailbox[access[h].children[u]] # None
  <2>1. PICK a \in Access : a = access[h] /\ Boxes(a) \subseteq Has
    BY <1>4 DEF TypeOK, StoredInOrder
  <2>2. a.mailbox \in Id /\ \A u \in User : a.children[u] \in Id \cup {None}
    BY DEF Access, ChildrenMap
  <2>3. <<"mailbox", a.mailbox>> \in Boxes(a)
    BY <2>2, NoneAssumption DEF Boxes, Id
  <2>4. \A u \in User : a.children[u] # None => <<"mailbox", a.children[u]>> \in Boxes(a)
    BY DEF Boxes
  <2> QED
    BY <1>1, <2>1, <2>2, <2>3, <2>4
<1>5. ASSUME NEW j \in Id, invitation[j] # None PROVE mailbox[invitation[j].mailbox] # None
  <2>1. <<"mailbox", invitation[j].mailbox>> \in Has /\ invitation[j].mailbox \in Id
    BY <1>5 DEF TypeOK, StoredInOrder, Invitation
  <2> QED
    BY <1>1, <2>1
<1>6. ASSUME NEW i \in Id, inode[i] # None, NEW b \in Range(inode[i].plain) PROVE block[b] # None
  <2>1. inode[i].plain \in Seq(Id)
    BY <1>6 DEF TypeOK, SealedInode
  <2>2. b \in Id
    BY <1>6, <2>1, IdsOfSeq
  <2> QED
    BY <1>2, <1>6, <2>2 DEF StoredInOrder
<1>7. ASSUME NEW u \in User, account[u] # None, NEW f \in account[u].files
      PROVE  access[<<u, f>>] # None
  <2>1. <<u, f>> \in Handle
    BY <1>7 DEF TypeOK, UserRecord, Handle
  <2>2. <<"access", <<u, f>>>> \in Has
    BY <1>7 DEF StoredInOrder, FilesIn
  <2> QED
    BY <1>3, <2>1, <2>2
<1> QED
  BY <1>4, <1>5, <1>6, <1>7 DEF PointeesFirst

\* However calls overlap, fail, die and land late, an object is stored before anything
\* refers to it: the plans of the service calls put their Sets in that order, and what a
\* call has read or a Set that is late refers to stays stored.
THEOREM ReferencesAreStored == StepSpec => []PointeesFirst
<1>1. StepTypes /\ IssuedStored /\ OrderInv /\ [StepNext]_stepVars => OrderInv'
  <2>1. SUFFICES ASSUME StepTypes, IssuedStored, OrderInv, [StepNext]_stepVars PROVE OrderInv'
    OBVIOUS
  <2>2. CASE UNCHANGED stepVars
    <3>1. UNCHANGED <<session, Store, call, late>>
      BY <2>2 DEF stepVars, vars, Store
    <3>2. Has' = Has /\ StoredInOrder'
      BY <2>1, <3>1, SameHas DEF OrderInv
    <3> QED
      BY <2>1, <3>1, <3>2 DEF OrderInv
  <2> QED
    BY <2>1, <2>2, OrderStep
<1>2. StepTypes /\ OrderInv => PointeesFirst
  BY StoredPointees DEF StepTypes, OrderInv
<1> QED
  BY <1>1, <1>2, OrderInit, StepTypesInvariant, PTL DEF StepSpec

(***************************************************************************)
(* The sharing tree, by the facts that any version of its records states:   *)
(* the versions that are stored, planned, late or in the memory of a call.  *)
(*   <<"link", <<h, u>>, m>>  the mailbox m is the child u of the handle h   *)
(*   <<"mates", m, n>>        n is a child in a record with the mailbox m    *)
(*   <<"leads", m, i>>        the mailbox m leads to the inode i             *)
(***************************************************************************)
ChildFacts(h, a) ==
    UNION {{<<"link", <<h, u>>, a.children[u]>>, <<"mates", a.mailbox, a.children[u]>>} :
           u \in {v \in User : a.children[v] # None}}

SetFacts(p) ==
    CASE p.store = "access" -> ChildFacts(p.at, p.value)
      [] p.store = "mailbox" -> {<<"leads", p.at, p.value.inode>>}
      [] OTHER -> {}

\* CreateInvitation has made the mailbox that will be its recipient's, and not linked it yet.
Linking(k) == \E p \in Range(k.plan) : p.kind = "lookup"

\* The facts a call of the user name has in memory or will write.
CallFacts(k, name) ==
    (UNION {SetFacts(p) : p \in {q \in Range(k.plan) : q.kind = "set"}})
    \cup (UNION {ChildFacts(<<name, k.filename>>, a) : a \in {k.access} \ {None}})
    \cup {<<"leads", a.mailbox, box.inode>> : a \in {k.access} \ {None}, box \in {k.box} \ {None}}
    \cup {<<"leads", k.made, box.inode>> :
          box \in {b \in {k.box} : k.op = "CreateInvitation" /\ b # None}}
    \cup {<<"link", <<<<name, k.filename>>, k.arg>>, m>> : m \in {n \in {k.made} : Linking(k)}}

Facts ==
    (UNION {ChildFacts(h, access[h]) : h \in {g \in Handle : access[g] # None}})
    \cup {<<"leads", m, mailbox[m].inode>> : m \in {n \in Id : mailbox[n] # None}}
    \cup (UNION {SetFacts(late[c]) : c \in {d \in Client : late[d] # None}})
    \cup (UNION {CallFacts(call[c], session[c].name) : c \in {d \in Client : call[d] # None}})

\* A mailbox is in one place and leads to one inode, that of the mailboxes next to it; and
\* the facts are about mailboxes that were drawn.
FactsAgree ==
    /\ \A x \in Facts : /\ x[1] \in {"link", "mates"} => x[3] \in 1 .. next - 1
                        /\ x[1] \in {"mates", "leads"} => x[2] \in 1 .. next - 1
    /\ \A x, y \in Facts : x[1] = "link" /\ y[1] = "link" /\ x[3] = y[3] => x[2] = y[2]
    /\ \A x, y \in Facts : x[1] = "leads" /\ y[1] = "leads" /\ x[2] = y[2] => x[3] = y[3]
    /\ \A x, y, z \in Facts :
          x[1] = "mates" /\ y[1] = "leads" /\ y[2] = x[2] /\ z[1] = "leads" /\ z[2] = x[3]
              => y[3] = z[3]

\* The inductive strengthening of TreeShape.
LinksInv ==
    /\ FactsAgree
    /\ \A c \in Client : call[c] # None /\ Linking(call[c]) => call[c].box # None

\* The facts of a Set, by the kind of object it goes to.
LEMMA FactsOfSet ==
    ASSUME NEW p
    PROVE  /\ p.store = "access" => SetFacts(p) = ChildFacts(p.at, p.value)
           /\ p.store = "mailbox" => SetFacts(p) = {<<"leads", p.at, p.value.inode>>}
           /\ p.store \notin {"access", "mailbox"} => SetFacts(p) = {}
  BY DEF SetFacts

\* What is known are the facts of the stored objects, of the late Sets and of the calls.
LEMMA KnownFacts ==
    /\ \A h \in Handle : access[h] # None => ChildFacts(h, access[h]) \subseteq Facts
    /\ \A m \in Id : mailbox[m] # None => <<"leads", m, mailbox[m].inode>> \in Facts
    /\ \A c \in Client : late[c] # None => SetFacts(late[c]) \subseteq Facts
    /\ \A c \in Client : call[c] # None => CallFacts(call[c], session[c].name) \subseteq Facts
<1>1. \A h \in Handle : access[h] # None => ChildFacts(h, access[h]) \subseteq Facts
  BY DEF Facts
<1>2. \A m \in Id : mailbox[m] # None => <<"leads", m, mailbox[m].inode>> \in Facts
  BY DEF Facts
<1>3. \A c \in Client : late[c] # None => SetFacts(late[c]) \subseteq Facts
  BY DEF Facts
<1>4. \A c \in Client : call[c] # None => CallFacts(call[c], session[c].name) \subseteq Facts
  BY DEF Facts
<1> QED
  BY <1>1, <1>2, <1>3, <1>4

\* What makes up the facts of a call.
LEMMA FactsOfCall ==
    ASSUME NEW k, NEW name, NEW S
    PROVE  CallFacts(k, name) \subseteq S <=>
             /\ \A p \in Range(k.plan) : p.kind = "set" => SetFacts(p) \subseteq S
             /\ k.access # None => ChildFacts(<<name, k.filename>>, k.access) \subseteq S
             /\ k.access # None /\ k.box # None =>
                   <<"leads", k.access.mailbox, k.box.inode>> \in S
             /\ k.op = "CreateInvitation" /\ k.box # None => <<"leads", k.made, k.box.inode>> \in S
             /\ Linking(k) => <<"link", <<<<name, k.filename>>, k.arg>>, k.made>> \in S
<1> DEFINE A == UNION {SetFacts(p) : p \in {q \in Range(k.plan) : q.kind = "set"}}
           B == UNION {ChildFacts(<<name, k.filename>>, a) : a \in {k.access} \ {None}}
           C == {<<"leads", a.mailbox, box.inode>> :
                 a \in {k.access} \ {None}, box \in {k.box} \ {None}}
           D == {<<"leads", k.made, box.inode>> :
                 box \in {b \in {k.box} : k.op = "CreateInvitation" /\ b # None}}
           E == {<<"link", <<<<name, k.filename>>, k.arg>>, m>> : m \in {n \in {k.made} : Linking(k)}}
<1>1. CallFacts(k, name) = A \cup B \cup C \cup D \cup E
  BY DEF CallFacts
<1>2. A \subseteq S <=> \A p \in Range(k.plan) : p.kind = "set" => SetFacts(p) \subseteq S
  OBVIOUS
<1>3. B \subseteq S <=> (k.access # None => ChildFacts(<<name, k.filename>>, k.access) \subseteq S)
  OBVIOUS
<1>4. C \subseteq S <=> (k.access # None /\ k.box # None =>
                            <<"leads", k.access.mailbox, k.box.inode>> \in S)
  OBVIOUS
<1>5. D \subseteq S <=> (k.op = "CreateInvitation" /\ k.box # None =>
                            <<"leads", k.made, k.box.inode>> \in S)
  OBVIOUS
<1>6. E \subseteq S <=> (Linking(k) => <<"link", <<<<name, k.filename>>, k.arg>>, k.made>> \in S)
  OBVIOUS
<1> HIDE DEF A, B, C, D, E
<1>7. CallFacts(k, name) \subseteq S <=>
          A \subseteq S /\ B \subseteq S /\ C \subseteq S /\ D \subseteq S /\ E \subseteq S
  BY <1>1
<1> QED
  BY <1>2, <1>3, <1>4, <1>5, <1>6, <1>7

\* The facts after a step of one client.
LEMMA FactsAfter ==
    ASSUME StepTypes, NEW c \in Client, NEW k, NEW new, call' = [call EXCEPT ![c] = k],
           \A d \in Client \ {c} : session'[d] = session[d],
           k # None => CallFacts(k, session'[c].name) \subseteq Facts \cup new,
           \A h \in Handle : access'[h] # None => ChildFacts(h, access'[h]) \subseteq Facts \cup new,
           \A m \in Id : mailbox'[m] # None => <<"leads", m, mailbox'[m].inode>> \in Facts \cup new,
           \A d \in Client : late'[d] # None => SetFacts(late'[d]) \subseteq Facts \cup new
    PROVE  Facts' \subseteq Facts \cup new
<1>1. call'[c] = k /\ \A d \in Client \ {c} : call'[d] = call[d]
  BY DEF StepTypes, CallsTyped
<1>2. ASSUME NEW d \in Client, call'[d] # None
      PROVE  CallFacts(call'[d], session'[d].name) \subseteq Facts \cup new
  <2>1. CASE d = c
    BY <1>1, <1>2, <2>1
  <2>2. CASE d # c
    BY <1>1, <1>2, <2>2, KnownFacts
  <2> QED
    BY <2>1, <2>2
<1>3. ASSUME NEW x \in Facts' PROVE x \in Facts \cup new
  <2>1. CASE \E h \in Handle : access'[h] # None /\ x \in ChildFacts(h, access'[h])
    BY <2>1
  <2>2. CASE \E m \in Id : mailbox'[m] # None /\ x = <<"leads", m, mailbox'[m].inode>>
    BY <2>2
  <2>3. CASE \E d \in Client : late'[d] # None /\ x \in SetFacts(late'[d])
    BY <2>3
  <2>4. CASE \E d \in Client : call'[d] # None /\ x \in CallFacts(call'[d], session'[d].name)
    BY <1>2, <2>4
  <2> QED
    BY <1>3, <2>1, <2>2, <2>3, <2>4 DEF Facts
<1> QED
  BY <1>3

\* The facts after a call read or planned something.
LEMMA PlanningFacts ==
    ASSUME StepTypes, NEW c \in Client, NEW k, NEW new, call' = [call EXCEPT ![c] = k],
           UNCHANGED <<session, Store, late>>,
           k # None => CallFacts(k, session[c].name) \subseteq Facts \cup new
    PROVE  Facts' \subseteq Facts \cup new
<1>1. UNCHANGED <<access, mailbox>>
  BY DEF Store
<1>2. \A h \in Handle : access'[h] # None => ChildFacts(h, access'[h]) \subseteq Facts \cup new
  BY <1>1, KnownFacts
<1>3. \A m \in Id : mailbox'[m] # None => <<"leads", m, mailbox'[m].inode>> \in Facts \cup new
  BY <1>1, KnownFacts
<1>4. \A d \in Client : late'[d] # None => SetFacts(late'[d]) \subseteq Facts \cup new
  BY KnownFacts
<1> QED
  BY <1>2, <1>3, <1>4, FactsAfter

\* A Set that is carried out states what was known of it before.
LEMMA WriteFacts ==
    ASSUME StepTypes, NEW p \in SetItem, Write(p), SetFacts(p) \subseteq Facts
    PROVE  /\ \A h \in Handle : access'[h] # None => ChildFacts(h, access'[h]) \subseteq Facts
           /\ \A m \in Id : mailbox'[m] # None => <<"leads", m, mailbox'[m].inode>> \in Facts
<1>1. TypeOK
  BY DEF StepTypes
<1>2. ASSUME NEW h \in Handle, access'[h] # None PROVE ChildFacts(h, access'[h]) \subseteq Facts
  <2>1. CASE access'[h] = access[h]
    BY <1>2, <2>1, KnownFacts
  <2>2. CASE p.store = "access" /\ p.at = h /\ access'[h] = p.value
    BY <2>2, FactsOfSet
  <2> QED
    BY <1>1, <2>1, <2>2 DEF Write, TypeOK
<1>3. ASSUME NEW m \in Id, mailbox'[m] # None PROVE <<"leads", m, mailbox'[m].inode>> \in Facts
  <2>1. CASE mailbox'[m] = mailbox[m]
    BY <1>3, <2>1, KnownFacts
  <2>2. CASE p.store = "mailbox" /\ p.at = m /\ mailbox'[m] = p.value
    BY <2>2, FactsOfSet
  <2> QED
    BY <1>1, <2>1, <2>2 DEF Write, TypeOK
<1> QED
  BY <1>2, <1>3

(***************************************************************************)
(* Which facts may be added.                                                *)
(***************************************************************************)
\* The numbers drawn before stay drawn, and a new one was not among them.
LEMMA DrawnMore ==
    /\ \A a, b \in Nat : a <= b => \A z \in 1 .. a - 1 : z \in 1 .. b - 1
    /\ \A a, b, n \in Nat : 0 < a /\ a <= n /\ n < b => n \in 1 .. b - 1 /\ n \notin 1 .. a - 1
  OBVIOUS

\* None.
LEMMA AgreeSame ==
    ASSUME FactsAgree, next \in Nat, next' \in Nat, next' >= next, Facts' \subseteq Facts
    PROVE  FactsAgree'
<1>1. \A z \in 1 .. next - 1 : z \in 1 .. next' - 1
  <2>1. next <= next'
    OBVIOUS
  <2> QED
    BY <2>1, DrawnMore
<1> QED
  BY <1>1 DEF FactsAgree

\* That a new mailbox leads to some inode.
LEMMA AgreeNewFile ==
    ASSUME FactsAgree, next \in Nat \ {0}, next' \in Nat, NEW n \in Nat, NEW i,
           next <= n, n < next', Facts' \subseteq Facts \cup {<<"leads", n, i>>}
    PROVE  FactsAgree'
<1>1. (\A z \in 1 .. next - 1 : z \in 1 .. next' - 1) /\ n \in 1 .. next' - 1 /\ n \notin 1 .. next - 1
  <2>1. 0 < next /\ next <= next'
    OBVIOUS
  <2> QED
    BY <2>1, DrawnMore
<1> DEFINE new == <<"leads", n, i>>
<1>2. new[1] = "leads" /\ new[2] = n /\ new[3] = i
  OBVIOUS
<1> HIDE DEF new
<1>3. \A x \in Facts' : x \in Facts \/ x = new
  BY DEF new
<1> QED
  BY <1>1, <1>2, <1>3 DEF FactsAgree

\* That a new mailbox leads to some inode and is in some place.
LEMMA AgreeNewChild ==
    ASSUME FactsAgree, next \in Nat \ {0}, next' \in Nat, NEW n \in Nat, NEW i, NEW place,
           next <= n, n < next',
           Facts' \subseteq Facts \cup {<<"leads", n, i>>, <<"link", place, n>>}
    PROVE  FactsAgree'
<1>1. (\A z \in 1 .. next - 1 : z \in 1 .. next' - 1) /\ n \in 1 .. next' - 1 /\ n \notin 1 .. next - 1
  <2>1. 0 < next /\ next <= next'
    OBVIOUS
  <2> QED
    BY <2>1, DrawnMore
<1> DEFINE new == <<"leads", n, i>>
           link == <<"link", place, n>>
<1>2. new[1] = "leads" /\ new[2] = n /\ new[3] = i /\ link[1] = "link" /\ link[2] = place /\ link[3] = n
  OBVIOUS
<1> HIDE DEF new, link
<1>3. \A x \in Facts' : x \in Facts \/ x = new \/ x = link
  BY DEF new, link
<1> QED
  BY <1>1, <1>2, <1>3 DEF FactsAgree

\* That a new mailbox leads to the inode of m, and is with mailboxes that m is with.
LEMMA AgreeReplaced ==
    ASSUME FactsAgree, next \in Nat \ {0}, next' \in Nat, NEW n \in Nat, NEW i, NEW m, NEW S,
           next <= n, n < next', <<"leads", m, i>> \in Facts,
           \A x \in S : <<"mates", m, x>> \in Facts,
           Facts' \subseteq Facts \cup {<<"leads", n, i>>} \cup {<<"mates", n, x>> : x \in S}
    PROVE  FactsAgree'
<1>1. (\A z \in 1 .. next - 1 : z \in 1 .. next' - 1) /\ n \in 1 .. next' - 1 /\ n \notin 1 .. next - 1
  <2>1. 0 < next /\ next <= next'
    OBVIOUS
  <2> QED
    BY <2>1, DrawnMore
<1> DEFINE new == <<"leads", n, i>>
           old == <<"leads", m, i>>
<1>2. /\ new[1] = "leads" /\ new[2] = n /\ new[3] = i
      /\ old[1] = "leads" /\ old[2] = m /\ old[3] = i /\ old \in Facts
  OBVIOUS
<1> HIDE DEF new, old
<1>3. ASSUME NEW x \in Facts', x \notin Facts, x # new
      PROVE  /\ x[1] = "mates" /\ x[2] = n
             /\ \E y \in Facts : y[1] = "mates" /\ y[2] = m /\ y[3] = x[3]
  <2>1. PICK z \in S : x = <<"mates", n, z>>
    BY <1>3 DEF new
  <2>2. PICK y : y = <<"mates", m, z>>
    OBVIOUS
  <2>3. x[1] = "mates" /\ x[2] = n /\ x[3] = z /\ y[1] = "mates" /\ y[2] = m /\ y[3] = z
    BY <2>1, <2>2
  <2> QED
    BY <2>2, <2>3
<1>4. \A x \in Facts' : /\ x[1] \in {"link", "mates"} => x[3] \in 1 .. next' - 1
                        /\ x[1] \in {"mates", "leads"} => x[2] \in 1 .. next' - 1
  BY <1>1, <1>2, <1>3 DEF FactsAgree
<1>5. \A x, y \in Facts' : x[1] = "link" /\ y[1] = "link" /\ x[3] = y[3] => x[2] = y[2]
  BY <1>2, <1>3 DEF FactsAgree
<1>6. \A x, y \in Facts' : x[1] = "leads" /\ y[1] = "leads" /\ x[2] = y[2] => x[3] = y[3]
  BY <1>1, <1>2, <1>3 DEF FactsAgree
<1>7. ASSUME NEW x \in Facts', NEW y \in Facts', NEW z \in Facts',
             x[1] = "mates", y[1] = "leads", y[2] = x[2], z[1] = "leads", z[2] = x[3]
      PROVE  y[3] = z[3]
  <2>1. CASE x \in Facts
    BY <1>1, <1>2, <1>3, <1>7, <2>1 DEF FactsAgree
  <2>2. CASE x \notin Facts
    <3>1. PICK w \in Facts : w[1] = "mates" /\ w[2] = m /\ w[3] = x[3]
      BY <1>2, <1>3, <1>7, <2>2
    <3>2. x[2] = n /\ y[2] = n
      BY <1>2, <1>3, <1>7, <2>2
    <3>3. y = new
      BY <1>1, <1>3, <1>7, <3>2 DEF FactsAgree
    <3>4. z \in Facts
      BY <1>1, <1>2, <1>3, <1>7, <3>1 DEF FactsAgree
    <3> QED
      BY <1>2, <1>7, <3>1, <3>3, <3>4 DEF FactsAgree
  <2> QED
    BY <2>1, <2>2
<1> QED
  BY <1>4, <1>5, <1>6, <1>7 DEF FactsAgree

\* That two mailboxes which lead to one inode are in one record.
LEMMA AgreeMates ==
    ASSUME FactsAgree, next \in Nat, next' \in Nat, next' >= next, NEW m, NEW n, NEW i,
           <<"leads", m, i>> \in Facts, <<"leads", n, i>> \in Facts,
           Facts' \subseteq Facts \cup {<<"mates", m, n>>}
    PROVE  FactsAgree'
<1>1. \A z \in 1 .. next - 1 : z \in 1 .. next' - 1
  <2>1. next <= next'
    OBVIOUS
  <2> QED
    BY <2>1, DrawnMore
<1> DEFINE new == <<"mates", m, n>>
           a == <<"leads", m, i>>
           b == <<"leads", n, i>>
<1>2. /\ new[1] = "mates" /\ new[2] = m /\ new[3] = n
      /\ a[1] = "leads" /\ a[2] = m /\ a[3] = i /\ a \in Facts
      /\ b[1] = "leads" /\ b[2] = n /\ b[3] = i /\ b \in Facts
  OBVIOUS
<1> HIDE DEF new, a, b
<1>3. \A x \in Facts' : x \in Facts \/ x = new
  BY DEF new
<1>4. \A x \in Facts' : /\ x[1] \in {"link", "mates"} => x[3] \in 1 .. next' - 1
                        /\ x[1] \in {"mates", "leads"} => x[2] \in 1 .. next' - 1
  BY <1>1, <1>2, <1>3 DEF FactsAgree
<1>5. \A x, y \in Facts' : x[1] = "link" /\ y[1] = "link" /\ x[3] = y[3] => x[2] = y[2]
  BY <1>2, <1>3 DEF FactsAgree
<1>6. \A x, y \in Facts' : x[1] = "leads" /\ y[1] = "leads" /\ x[2] = y[2] => x[3] = y[3]
  BY <1>2, <1>3 DEF FactsAgree
<1>7. ASSUME NEW x \in Facts', NEW y \in Facts', NEW z \in Facts',
             x[1] = "mates", y[1] = "leads", y[2] = x[2], z[1] = "leads", z[2] = x[3]
      PROVE  y[3] = z[3]
  <2>1. y \in Facts /\ z \in Facts
    BY <1>2, <1>3, <1>7
  <2>2. CASE x \in Facts
    BY <1>7, <2>1, <2>2 DEF FactsAgree
  <2>3. CASE x = new
    BY <1>2, <1>7, <2>1, <2>3 DEF FactsAgree
  <2> QED
    BY <1>3, <2>2, <2>3
<1> QED
  BY <1>4, <1>5, <1>6, <1>7 DEF FactsAgree

(***************************************************************************)
(* Each action keeps the tree.                                              *)
(***************************************************************************)
\* A step of one client that keeps the facts in agreement.
LEMMA LinksAfter ==
    ASSUME StepTypes, LinksInv, NEW c \in Client, NEW k, call' = [call EXCEPT ![c] = k],
           FactsAgree', k # None /\ Linking(k) => k.box # None
    PROVE  LinksInv'
<1>1. call'[c] = k /\ \A d \in Client \ {c} : call'[d] = call[d]
  BY DEF StepTypes, CallsTyped
<1>2. ASSUME NEW d \in Client, call'[d] # None, Linking(call'[d]) PROVE call'[d].box # None
  <2>1. CASE d = c
    BY <1>1, <1>2, <2>1
  <2>2. CASE d # c
    BY <1>1, <1>2, <2>2 DEF LinksInv
  <2> QED
    BY <2>1, <2>2
<1> QED
  BY <1>2 DEF LinksInv

\* A call reads or plans without a new fact.
LEMMA QuietLinks ==
    ASSUME StepTypes, LinksInv, NEW c \in Client, NEW k, call' = [call EXCEPT ![c] = k],
           UNCHANGED <<session, Store, late>>, next' = next,
           k # None => CallFacts(k, session[c].name) \subseteq Facts,
           k # None /\ Linking(k) => k.box # None
    PROVE  LinksInv'
<1>1. next \in Nat \ {0}
  BY Typed DEF StepTypes
<1>2. Facts' \subseteq Facts \cup {}
  BY PlanningFacts
<1>3. FactsAgree'
  <2>1. next \in Nat /\ next' \in Nat /\ next' >= next
    BY <1>1
  <2> QED
    BY <1>2, <2>1, AgreeSame DEF LinksInv
<1> QED
  BY <1>3, LinksAfter

\* Plans of Sets and Gets are not those of a CreateInvitation that has a lookup ahead.
LEMMA NotLinking ==
    ASSUME NEW k, Range(k.plan) \subseteq SetItem \cup FetchItem
    PROVE  ~Linking(k)
  BY ItemKinds DEF Linking

\* A call that returns an error.
LEMMA RefuseLinks ==
    ASSUME StepTypes, LinksInv, NEW c \in Client, Refuse(c)
    PROVE  LinksInv'
<1>1. call' = [call EXCEPT ![c] = None] /\ UNCHANGED <<session, Store, late>> /\ next' = next
  BY DEF Refuse, vars, Store
<1> QED
  BY <1>1, QuietLinks

\* InitUser and GetUser.
LEMMA UserCallLinks ==
    ASSUME StepTypes, LinksInv, NEW c \in Client, NEW u \in User, UserCall(c, u)
    PROVE  LinksInv'
<1>1. /\ call[c] = None /\ UNCHANGED <<call, late, access, mailbox, next>>
      /\ \A d \in Client \ {c} : session'[d] = session[d]
      /\ call \in [Client -> CallRecord \cup {None}]
  BY DEF UserCall, InitUser, GetUser, StepTypes, TypeOK, CallsTyped
<1>2. call' = [call EXCEPT ![c] = None]
  BY <1>1
<1>3. Facts' \subseteq Facts \cup {}
  <2>1. \A h \in Handle : access'[h] # None => ChildFacts(h, access'[h]) \subseteq Facts \cup {}
    BY <1>1, KnownFacts
  <2>2. \A m \in Id : mailbox'[m] # None => <<"leads", m, mailbox'[m].inode>> \in Facts \cup {}
    BY <1>1, KnownFacts
  <2>3. \A d \in Client : late'[d] # None => SetFacts(late'[d]) \subseteq Facts \cup {}
    BY <1>1, KnownFacts
  <2> QED
    BY <1>1, <1>2, <2>1, <2>2, <2>3, FactsAfter
<1>4. FactsAgree'
  <2>1. next \in Nat /\ next' \in Nat /\ next' >= next
    BY <1>1, Typed DEF StepTypes
  <2> QED
    BY <1>3, <2>1, AgreeSame DEF LinksInv
<1> QED
  BY <1>2, <1>4, LinksAfter

\* A new access record states no fact about children.
LEMMA NewRecordFacts ==
    ASSUME NEW h, NEW m
    PROVE  ChildFacts(h, NewRecord(h, m)) = {}
  BY DEF ChildFacts, NewRecord, NoChildren

\* StoreFile: the new mailbox leads to the new inode.
LEMMA BeginStoreLinks ==
    ASSUME StepTypes, LinksInv, NEW c \in Client, NEW f \in Filename, NEW content \in Content,
           BeginStore(c, f, content)
    PROVE  LinksInv'
<1>1. session[c] # None /\ TypeOK /\ CanDraw(3 + Len(content)) /\ next \in Nat \ {0}
  BY Typed DEF StepTypes, BeginStore, Idle
<1>2. Len(content) \in Nat /\ next' = next + 3 + Len(content)
  BY ContentIsSeq DEF BeginStore
<1> DEFINE h == <<session[c].name, f>>
           pm == Put("mailbox", next + 2, [fileKey |-> next, inode |-> next + 1])
           pa == Put("access", h, NewRecord(h, next + 2))
           pi == Put("inode", next + 1, encryptAndMAC(NewBlocks(next + 3, Len(content)), next))
           pu == PutUser(c, f)
           pb == PutBlocks(next + 3, content, next)
           new == {<<"leads", next + 2, next + 1>>}
<1>3. PICK plan \in Seq(Item) : /\ plan = StorePlan(c, f, content)
                                /\ Range(plan) = {pm, pa, pi, pu} \cup Range(pb)
  BY <1>1, StorePlanItems
<1>4. SetFacts(pm) = new
  <2>1. pm.store = "mailbox" /\ pm.at = next + 2 /\ pm.value = [fileKey |-> next, inode |-> next + 1]
    BY PutFields
  <2> QED
    BY <2>1, FactsOfSet
<1>5. SetFacts(pa) = {}
  BY PutFields, FactsOfSet, NewRecordFacts
<1>6. SetFacts(pi) = {} /\ SetFacts(pu) = {} /\ pi.kind = "set" /\ pu.kind = "set"
  BY PutFields, FactsOfSet DEF PutUser
<1>7. /\ \A p \in Range(pb) : p.store = "block" /\ p.kind = "set"
      /\ next + 3 \in Nat \ {0} /\ next + 3 + Len(content) <= MaxId + 1 /\ next \in Id
  <2>1. next + 3 \in Nat \ {0} /\ next + 3 + Len(content) <= MaxId + 1 /\ next \in Id
    BY <1>1, <1>2, BoundsAssumption DEF CanDraw, Id
  <2> QED
    BY <2>1, PutBlocksOrder, ItemKinds
<1>8. pm.kind = "set" /\ pa.kind = "set"
  BY PutFields
<1>9. \A p \in Range(pb) : SetFacts(p) = {}
  BY <1>7, FactsOfSet
<1> HIDE DEF pm, pa, pi, pu, pb
<1>10. \A p \in Range(plan) : p.kind = "set" /\ SetFacts(p) \subseteq Facts \cup new
  BY <1>3, <1>4, <1>5, <1>6, <1>7, <1>8, <1>9
<1> DEFINE k == [NewCall("StoreFile", f, content, None) EXCEPT !.plan = plan]
<1>11. k.access = None /\ k.plan = plan /\ k.op = "StoreFile"
  BY DEF NewCall
<1>12. call' = [call EXCEPT ![c] = k] /\ UNCHANGED <<session, Store, late>>
  BY <1>3 DEF BeginStore
<1> HIDE DEF k, new
<1>13. ~Linking(k)
  BY <1>10, <1>11 DEF Linking
<1>14. CallFacts(k, session[c].name) \subseteq Facts \cup new
  BY <1>10, <1>11, <1>13, FactsOfCall
<1>15. Facts' \subseteq Facts \cup new
  BY <1>12, <1>14, PlanningFacts
<1>16. FactsAgree'
  <2>1. next' \in Nat /\ next + 2 \in Nat /\ next <= next + 2 /\ next + 2 < next'
    BY <1>1, <1>2
  <2> QED
    BY <1>1, <1>15, <2>1, AgreeNewFile DEF LinksInv, new
<1> QED
  BY <1>12, <1>13, <1>16, LinksAfter

\* AcceptInvitation: the new record has no children.
LEMMA BeginAcceptLinks ==
    ASSUME StepTypes, LinksInv, NEW c \in Client, NEW s \in User, NEW j \in issued,
           NEW f \in Filename, BeginAccept(c, s, j, f), invitation[j] # None
    PROVE  LinksInv'
<1>1. session[c] # None /\ session[c] \in Session /\ j \in Id /\ invitation[j] \in Invitation
  BY Typed DEF StepTypes, CallsTyped, BeginAccept, Idle
<1>2. PICK m \in Id, h \in Handle : m = invitation[j].mailbox /\ h = <<session[c].name, f>>
  BY <1>1 DEF Invitation, Session, Handle
<1>3. PICK pa \in SetItem : pa = Put("access", h, NewRecord(h, m)) /\ SetFacts(pa) = {}
  <2>1. Put("access", h, NewRecord(h, m)) \in SetItem
    BY NewRecordNeeds
  <2>2. SetFacts(Put("access", h, NewRecord(h, m))) = {}
    BY PutFields, FactsOfSet, NewRecordFacts
  <2> QED
    BY <2>1, <2>2
<1>4. PICK pu \in SetItem : pu = PutUser(c, f) /\ SetFacts(pu) = {}
  <2>1. PutUser(c, f) \in SetItem
    BY <1>1, PutTyped DEF PutUser, Session, UserRecord
  <2>2. SetFacts(PutUser(c, f)) = {}
    BY PutFields, FactsOfSet DEF PutUser
  <2> QED
    BY <2>1, <2>2
<1>5. PICK plan \in Seq(Item) : plan = <<pa, pu>> /\ Range(plan) = {pa, pu}
  <2>1. pa \in Item /\ pu \in Item
    BY ItemKinds
  <2> QED
    BY <2>1, ShortPlans, ZenonT(60)
<1> DEFINE k == [NewCall("AcceptInvitation", f, j, None) EXCEPT !.plan = plan]
<1>6. k.access = None /\ k.plan = plan /\ k.op = "AcceptInvitation"
  BY DEF NewCall
<1>7. call' = [call EXCEPT ![c] = k] /\ UNCHANGED <<session, Store, late>> /\ next' = next
  BY <1>2, <1>3, <1>4, <1>5 DEF BeginAccept, vars, Store
<1> HIDE DEF k
<1>8. ~Linking(k)
  BY <1>5, <1>6, NotLinking
<1>9. CallFacts(k, session[c].name) \subseteq Facts
  BY <1>3, <1>4, <1>5, <1>6, <1>8, FactsOfCall
<1> QED
  BY <1>7, <1>8, <1>9, QuietLinks

\* The calls that start with an access record know what it states.
LEMMA BeginOnAccessLinks ==
    ASSUME StepTypes, LinksInv, NEW c \in Client, NEW o, NEW f \in Filename, NEW x, NEW n,
           BeginOnAccess(c, o, f, x, n)
    PROVE  LinksInv'
<1>1. session[c] # None /\ session[c] \in Session
  BY Typed DEF StepTypes, BeginOnAccess, Idle
<1>2. PICK h \in Handle : h = <<session[c].name, f>> /\ access[h] # None
  BY <1>1 DEF BeginOnAccess, Session, Handle
<1> DEFINE k == NewCall(o, f, x, access[h])
<1>3. k.access = access[h] /\ k.plan = << >> /\ k.box = None /\ k.filename = f
  BY DEF NewCall
<1>4. call' = [call EXCEPT ![c] = k] /\ UNCHANGED <<session, Store, late>> /\ next' = next
  BY <1>2 DEF BeginOnAccess, vars, Store
<1> HIDE DEF k
<1>5. Range(k.plan) = {} /\ ~Linking(k)
  BY <1>3 DEF Range, Linking
<1>6. CallFacts(k, session[c].name) \subseteq Facts
  <2>1. ChildFacts(<<session[c].name, k.filename>>, k.access) \subseteq Facts
    BY <1>2, <1>3, KnownFacts
  <2> QED
    BY <1>3, <1>5, <2>1, FactsOfCall
<1> QED
  BY <1>4, <1>5, <1>6, QuietLinks

\* What remains of a call states no more than the call did.
LEMMA RestFacts ==
    ASSUME NEW k \in CallRecord, NEW name, NEW t \in Seq(Item), Range(t) \subseteq Range(k.plan)
    PROVE  LET on == [k EXCEPT !.plan = t]
           IN  /\ CallFacts(on, name) \subseteq CallFacts(k, name)
               /\ Linking(on) => Linking(k)
<1> DEFINE on == [k EXCEPT !.plan = t]
<1>1. /\ on.plan = t /\ on.op = k.op /\ on.arg = k.arg /\ on.access = k.access
      /\ on.box = k.box /\ on.made = k.made /\ on.filename = k.filename
  BY WithPlan
<1> HIDE DEF on
<1>2. Linking(on) => Linking(k)
  BY <1>1 DEF Linking
<1>3. PICK S : S = CallFacts(k, name)
  OBVIOUS
<1>4. CallFacts(k, name) \subseteq S
  BY <1>3
<1>5. CallFacts(on, name) \subseteq S
  BY <1>1, <1>2, <1>4, FactsOfCall
<1> QED
  BY <1>2, <1>3, <1>5 DEF on

\* A call knows what its mailbox leads to; that of an invitation is a copy of it.
LEMMA ReadMailboxLinks ==
    ASSUME StepTypes, LinksInv, NEW c \in Client, ReadMailbox(c)
    PROVE  LinksInv'
<1>1. TypeOK /\ Reading(c) /\ call[c] # None /\ next \in Nat \ {0} /\ next <= MaxId + 1
  BY Typed DEF StepTypes, ReadMailbox, Reading
<1>2. PICK k \in CallRecord : k = call[c] /\ k.plan = << >> /\ k.access \in Access
  BY <1>1, ReadingCall
<1>3. PICK m \in Id : m = k.access.mailbox
  BY <1>2 DEF Access
<1>4. PICK name : name = session[c].name
  OBVIOUS
<1>5. k.access # None /\ ChildFacts(<<name, k.filename>>, k.access) \subseteq Facts
  <2>1. CallFacts(k, name) \subseteq Facts
    BY <1>1, <1>2, <1>4, KnownFacts
  <2>2. k.access # None
    BY <1>2, NoneAssumption
  <2> QED
    BY <2>1, <2>2, FactsOfCall
<1>6. CASE mailbox[m] = None
  <2>1. Refuse(c)
    BY <1>2, <1>3, <1>6 DEF ReadMailbox
  <2> QED
    BY <2>1, RefuseLinks
<1>7. CASE mailbox[m] # None /\ k.op = "CreateInvitation"
  <2>1. PICK box \in MailboxNode : box = mailbox[m]
    BY <1>1, <1>7, Typed
  <2>2. PICK i : i = box.inode /\ <<"leads", m, i>> \in Facts
    BY <1>7, <2>1, KnownFacts
  <2>3. next \in Id /\ k.arg \in User /\ next' = next + 1
    BY <1>1, <1>2, <1>3, <1>7, ReadingCall, BoundsAssumption DEF ReadMailbox, CanDraw, Id
  <2>4. PICK pm \in SetItem : pm = Put("mailbox", next, box)
    BY <2>3, PutTyped
  <2> DEFINE place == <<<<name, k.filename>>, k.arg>>
             new == {<<"leads", next, i>>, <<"link", place, next>>}
  <2>5. SetFacts(pm) = {<<"leads", next, i>>}
    BY <2>2, <2>4, PutFields, FactsOfSet
  <2>6. PICK pl \in Item : pl = Lookup(k.arg) /\ pl.kind = "lookup"
    BY <2>3, ItemKinds
  <2>7. PICK plan \in Seq(Item) : plan = <<pm, pl>> /\ Range(plan) = {pm, pl}
    <3>1. pm \in Item
      BY ItemKinds
    <3> QED
      BY <3>1, ShortPlans
  <2> DEFINE on == [[k EXCEPT !.box = box] EXCEPT !.made = next, !.plan = plan]
  <2>8. /\ on.plan = plan /\ on.access = k.access /\ on.box = box /\ on.made = next
        /\ on.arg = k.arg /\ on.filename = k.filename
    BY DEF CallRecord
  <2>9. call' = [call EXCEPT ![c] = on] /\ UNCHANGED <<session, Store, late>>
    BY <1>2, <1>3, <1>7, <2>1, <2>4, <2>6, <2>7 DEF ReadMailbox
  <2> HIDE DEF on, new, place
  <2>10. CallFacts(on, name) \subseteq Facts \cup new
    <3>1. \A p \in Range(on.plan) : p.kind = "set" => SetFacts(p) \subseteq Facts \cup new
      BY <2>5, <2>6, <2>7, <2>8 DEF new
    <3>2. ChildFacts(<<name, on.filename>>, on.access) \subseteq Facts \cup new
      BY <1>5, <2>8
    <3>3. <<"leads", on.access.mailbox, on.box.inode>> \in Facts \cup new
      BY <1>3, <2>2, <2>8
    <3>4. <<"leads", on.made, on.box.inode>> \in Facts \cup new
      BY <2>2, <2>8 DEF new
    <3>5. <<"link", <<<<name, on.filename>>, on.arg>>, on.made>> \in Facts \cup new
      BY <2>8 DEF new, place
    <3> QED
      BY <3>1, <3>2, <3>3, <3>4, <3>5, FactsOfCall
  <2>11. Facts' \subseteq Facts \cup new
    BY <1>4, <2>9, <2>10, PlanningFacts
  <2>12. FactsAgree'
    <3>1. next \in Nat /\ next' \in Nat /\ next <= next /\ next < next'
      BY <1>1, <2>3
    <3> QED
      BY <1>1, <2>11, <3>1, AgreeNewChild DEF LinksInv, new
  <2>13. on.box # None
    BY <2>8, NoneAssumption
  <2> QED
    BY <2>9, <2>12, <2>13, LinksAfter
<1>8. CASE mailbox[m] # None /\ k.op # "CreateInvitation"
  <2>1. PICK box : box = mailbox[m] /\ <<"leads", m, box.inode>> \in Facts
    BY <1>8, KnownFacts
  <2> DEFINE on == [k EXCEPT !.box = box]
  <2>2. /\ on.plan = << >> /\ on.access = k.access /\ on.box = box /\ on.op = k.op
        /\ on.filename = k.filename
    BY <1>2 DEF CallRecord
  <2>3. call' = [call EXCEPT ![c] = on] /\ UNCHANGED <<session, Store, late>> /\ next' = next
    BY <1>2, <1>3, <1>8, <2>1 DEF ReadMailbox
  <2> HIDE DEF on
  <2>4. Range(on.plan) = {} /\ ~Linking(on)
    BY <2>2 DEF Range, Linking
  <2>5. CallFacts(on, name) \subseteq Facts
    <3>1. ChildFacts(<<name, on.filename>>, on.access) \subseteq Facts
      BY <1>5, <2>2
    <3>2. <<"leads", on.access.mailbox, on.box.inode>> \in Facts
      BY <1>3, <2>1, <2>2
    <3> QED
      BY <1>8, <2>2, <2>4, <3>1, <3>2, FactsOfCall
  <2> QED
    BY <1>4, <2>3, <2>4, <2>5, QuietLinks
<1> QED
  BY <1>6, <1>7, <1>8

\* AppendToFile plans nothing about the tree.
LEMMA ReadInodeAppendLinks ==
    ASSUME StepTypes, LinksInv, NEW c \in Client, NEW k \in CallRecord, k = call[c], k # None,
           NEW box \in MailboxNode, inode[box.inode] # None, NEW content \in Content,
           CanDraw(Len(content)), GoOn(c, AppendPlan(box, inode[box.inode], content)),
           next' = next + Len(content), UNCHANGED <<session, Store, late>>
    PROVE  LinksInv'
<1>1. TypeOK /\ next \in Nat \ {0} /\ Len(content) \in Nat
  BY Typed, ContentIsSeq DEF StepTypes
<1> DEFINE pi == Put("inode", box.inode,
                     encryptAndMAC(inode[box.inode].plain \o NewBlocks(next, Len(content)),
                                   box.fileKey))
           pb == PutBlocks(next, content, box.fileKey)
<1>2. PICK plan \in Seq(Item) : plan = AppendPlan(box, inode[box.inode], content) /\ plan # << >>
  BY <1>1, AppendPlanItems
<1>3. Range(plan) = {pi} \cup Range(pb) /\ Range(plan) \subseteq SetItem
  BY <1>1, <1>2, AppendPlanItems
<1>4. pi.store = "inode"
  BY PutFields
<1>5. \A p \in Range(pb) : p.store = "block"
  <2>1. next \in Nat \ {0} /\ next + Len(content) <= MaxId + 1 /\ box.fileKey \in Id
    BY <1>1 DEF CanDraw, MailboxNode
  <2> QED
    BY <2>1, PutBlocksOrder
<1> HIDE DEF pi, pb
<1>6. \A p \in Range(plan) : SetFacts(p) = {}
  BY <1>3, <1>4, <1>5, FactsOfSet
<1> DEFINE on == [k EXCEPT !.plan = plan]
<1>7. /\ on.plan = plan /\ on.op = k.op /\ on.arg = k.arg /\ on.access = k.access
      /\ on.box = k.box /\ on.made = k.made /\ on.filename = k.filename
  BY WithPlan
<1>8. call' = [call EXCEPT ![c] = on]
  BY <1>2 DEF GoOn
<1> HIDE DEF on
<1>9. ~Linking(on)
  BY <1>3, <1>7, NotLinking
<1>10. CallFacts(k, session[c].name) \subseteq Facts
  BY KnownFacts
<1>11. CallFacts(on, session[c].name) \subseteq Facts \cup {}
  BY <1>6, <1>7, <1>9, <1>10, FactsOfCall, ZenonT(60)
<1>12. Facts' \subseteq Facts \cup {}
  BY <1>8, <1>11, PlanningFacts
<1>13. FactsAgree'
  <2>1. next \in Nat /\ next' \in Nat /\ next' >= next
    BY <1>1
  <2> QED
    BY <1>12, <2>1, AgreeSame DEF LinksInv
<1> QED
  BY <1>8, <1>9, <1>13, LinksAfter

\* RevokeAccess: the caller's new mailbox leads to the same inode, and is with the children
\* it keeps.
LEMMA ReadInodeRevokeLinks ==
    ASSUME StepTypes, LinksInv, NEW c \in Client, NEW k \in CallRecord, k = call[c], k # None,
           k.op = "RevokeAccess", NEW a \in Access, a = k.access, NEW r \in User,
           NEW box \in MailboxNode, box = k.box, inode[box.inode] # None, CanDraw(2),
           NEW pa \in SetItem, pa = Put("access", HandleOf(c), WithoutChild(a, r, next + 1)),
           NEW pu \in SetItem, pu = PutUser(c, k.filename), NEW children \in Seq(Id),
           GoOn(c, RekeyPlan(box, inode[box.inode], children, <<pa, pu>>)),
           next' = next + 2, UNCHANGED <<session, Store, late>>
    PROVE  LinksInv'
<1>1. TypeOK /\ next \in Nat \ {0}
  BY Typed DEF StepTypes
<1>2. PICK h, i, n : h = <<session[c].name, k.filename>> /\ i = box.inode /\ n = next + 1
  OBVIOUS
<1> DEFINE kept == {a.children[u] : u \in {v \in User \ {r} : a.children[v] # None}}
           new == {<<"leads", n, i>>} \cup {<<"mates", n, x>> : x \in kept}
           pi == Put("inode", box.inode, encryptAndMAC(inode[box.inode].plain, next))
           pm == Put("mailbox", next + 1, [fileKey |-> next, inode |-> box.inode])
<1>3. /\ CallFacts(k, session[c].name) \subseteq Facts
      /\ ChildFacts(h, a) \subseteq Facts /\ <<"leads", a.mailbox, i>> \in Facts
  <2>1. CallFacts(k, session[c].name) \subseteq Facts
    BY KnownFacts
  <2>2. k.access # None /\ k.box # None
    BY NoneAssumption
  <2> QED
    BY <1>2, <2>1, <2>2, FactsOfCall
<1>4. PICK plan \in Seq(Item) :
          /\ plan = RekeyPlan(box, inode[box.inode], children, <<pa, pu>>) /\ plan # << >>
          /\ Range(plan) \subseteq {pi, pm, pa, pu} \cup FetchItem
          /\ pi \in SetItem /\ pm \in SetItem
  BY <1>1, RekeyPlanItems, SMTT(30)
<1>5. SetFacts(pi) = {} /\ SetFacts(pu) = {}
  <2>1. pi.store = "inode"
    BY PutFields
  <2>2. pu.store = "user"
    BY PutFields DEF PutUser
  <2> QED
    BY <2>1, <2>2, FactsOfSet
<1>6. SetFacts(pm) = {<<"leads", n, i>>}
  <2>1. pm.store = "mailbox" /\ pm.at = n /\ pm.value = [fileKey |-> next, inode |-> i]
    BY <1>2, PutFields
  <2> QED
    BY <2>1, FactsOfSet
<1>7. SetFacts(pa) \subseteq Facts \cup new
  <2>1. pa.store = "access" /\ pa.at = h /\ pa.value = WithoutChild(a, r, n)
    BY <1>2, PutFields DEF HandleOf
  <2>2. SetFacts(pa) = ChildFacts(h, WithoutChild(a, r, n))
    BY <2>1, FactsOfSet
  <2>3. ASSUME NEW x \in ChildFacts(h, WithoutChild(a, r, n)) PROVE x \in Facts \cup new
    <3>1. /\ WithoutChild(a, r, n).mailbox = n
          /\ \A u \in User : WithoutChild(a, r, n).children[u] = IF u = r THEN None ELSE a.children[u]
      BY DEF WithoutChild, Access, ChildrenMap
    <3>2. PICK u \in User \ {r} : /\ a.children[u] # None
                                  /\ x \in {<<"link", <<h, u>>, a.children[u]>>, <<"mates", n, a.children[u]>>}
      <4>1. PICK w : w = WithoutChild(a, r, n)
        OBVIOUS
      <4>2. PICK u \in User : /\ w.children[u] # None
                              /\ x \in {<<"link", <<h, u>>, w.children[u]>>, <<"mates", w.mailbox, w.children[u]>>}
        BY <2>3, <4>1 DEF ChildFacts
      <4> QED
        BY <3>1, <4>1, <4>2
    <3>3. <<"link", <<h, u>>, a.children[u]>> \in ChildFacts(h, a)
      BY <3>2 DEF ChildFacts
    <3> QED
      BY <1>3, <3>2, <3>3
  <2> QED
    BY <2>2, <2>3
<1>8. \A x \in kept : <<"mates", a.mailbox, x>> \in Facts
  BY <1>3 DEF ChildFacts
<1> HIDE DEF pi, pm
<1>9. \A p \in Range(plan) : p.kind = "set" => SetFacts(p) \subseteq Facts \cup new
  BY <1>4, <1>5, <1>6, <1>7, ItemKinds
<1> DEFINE on == [k EXCEPT !.plan = plan]
<1>10. /\ on.plan = plan /\ on.op = k.op /\ on.arg = k.arg /\ on.access = k.access
       /\ on.box = k.box /\ on.made = k.made /\ on.filename = k.filename
  BY WithPlan
<1>11. call' = [call EXCEPT ![c] = on]
  BY <1>4 DEF GoOn
<1> HIDE DEF on, new, kept
<1>12. ~Linking(on)
  <2>1. Range(plan) \subseteq SetItem \cup FetchItem
    BY <1>4
  <2> QED
    BY <1>10, <2>1, NotLinking
<1>13. CallFacts(on, session[c].name) \subseteq Facts \cup new
  <2>1. ChildFacts(<<session[c].name, on.filename>>, on.access) \subseteq Facts \cup new
    BY <1>2, <1>3, <1>10
  <2>2. <<"leads", on.access.mailbox, on.box.inode>> \in Facts \cup new
    BY <1>2, <1>3, <1>10
  <2> QED
    BY <1>9, <1>10, <1>12, <2>1, <2>2, FactsOfCall
<1>14. Facts' \subseteq Facts \cup new
  BY <1>11, <1>13, PlanningFacts
<1>15. FactsAgree'
  <2>1. next' \in Nat /\ n \in Nat /\ next <= n /\ n < next'
    BY <1>1, <1>2
  <2>2. PICK m : m = a.mailbox
    OBVIOUS
  <2>3. <<"leads", m, i>> \in Facts /\ \A x \in kept : <<"mates", m, x>> \in Facts
    BY <1>3, <1>8, <2>2
  <2>4. Facts' \subseteq Facts \cup {<<"leads", n, i>>} \cup {<<"mates", n, x>> : x \in kept}
    BY <1>14 DEF new
  <2> QED
    BY <1>1, <2>1, <2>3, <2>4, AgreeReplaced DEF LinksInv
<1> QED
  BY <1>11, <1>12, <1>15, LinksAfter

\* AppendToFile and RevokeAccess, once they have read the inode.
LEMMA ReadInodeLinks ==
    ASSUME StepTypes, LinksInv, NEW c \in Client, ReadInode(c)
    PROVE  LinksInv'
<1>1. TypeOK /\ Reading(c) /\ call[c] # None
  BY DEF StepTypes, ReadInode, Reading
<1>2. PICK k \in CallRecord : k = call[c] /\ k # None /\ k.plan = << >> /\ k.access \in Access
  BY <1>1, ReadingCall
<1>3. session[c] # None /\ session[c] \in Session
  BY <1>1, ReadingCall, Typed
<1>4. PICK box \in MailboxNode : box = k.box
  BY <1>2 DEF ReadInode, CallRecord
<1>5. \/ k.op = "AppendToFile" /\ k.arg \in Content
      \/ k.op = "RevokeAccess" /\ k.arg \in User
  BY <1>1, <1>2, ReadingCall DEF ReadInode
<1>6. PICK i \in Id : i = box.inode
  BY DEF MailboxNode
<1>7. CASE ~decryptAndVerify(inode[i], box.fileKey)
  <2>1. Refuse(c)
    BY <1>2, <1>4, <1>6, <1>7 DEF ReadInode
  <2> QED
    BY <2>1, RefuseLinks
<1>8. CASE decryptAndVerify(inode[i], box.fileKey) /\ k.op = "AppendToFile"
  <2>1. inode[box.inode] # None
    BY <1>6, <1>8 DEF decryptAndVerify
  <2>2. PICK content \in Content : content = k.arg
    BY <1>5, <1>8
  <2>3. /\ CanDraw(Len(content)) /\ GoOn(c, AppendPlan(box, inode[box.inode], content))
        /\ next' = next + Len(content) /\ UNCHANGED <<session, Store, late>>
    BY <1>2, <1>4, <1>6, <1>8, <2>2 DEF ReadInode
  <2> QED
    BY <1>2, <2>1, <2>3, ReadInodeAppendLinks
<1>9. CASE decryptAndVerify(inode[i], box.fileKey) /\ k.op = "RevokeAccess"
  <2>1. inode[box.inode] # None
    BY <1>6, <1>9 DEF decryptAndVerify
  <2>2. PICK r \in User, a \in Access, h \in Handle : r = k.arg /\ a = k.access /\ h = HandleOf(c)
    BY <1>2, <1>3, <1>5, <1>9 DEF HandleOf, Handle, Session, CallRecord
  <2>3. CanDraw(2) /\ next' = next + 2 /\ UNCHANGED <<session, Store, late>>
    BY <1>2, <1>4, <1>6, <1>9 DEF ReadInode
  <2>4. next + 1 \in Id
    BY <1>1, <2>3, Typed, BoundsAssumption DEF CanDraw, Id
  <2>5. PICK pa \in SetItem : pa = Put("access", HandleOf(c), WithoutChild(a, r, next + 1))
    BY <2>2, <2>4, PutTyped DEF WithoutChild, Access, ChildrenMap
  <2>6. PICK pu \in SetItem : pu = PutUser(c, k.filename)
    BY <1>3, PutTyped DEF PutUser, Session, UserRecord, CallRecord
  <2>7. PICK children \in Orders(KeptChildren(a, r)) :
            GoOn(c, RekeyPlan(box, inode[box.inode], children, <<pa, pu>>))
    BY <1>2, <1>4, <1>6, <1>9, <2>2, <2>5, <2>6 DEF ReadInode
  <2>8. children \in Seq(Id)
    BY OrdersAreSeqs
  <2> QED
    BY <1>2, <1>4, <1>9, <2>1, <2>2, <2>3, <2>5, <2>6, <2>7, <2>8, ReadInodeRevokeLinks
<1> QED
  BY <1>5, <1>7, <1>8, <1>9

\* The Set a call does next states facts of the call.
LEMMA HeadFacts ==
    ASSUME StepTypes, NEW c \in Client, Planned(c, "set")
    PROVE  SetFacts(Head(call[c].plan)) \subseteq Facts
<1>1. /\ call[c] # None /\ call[c] \in CallRecord /\ call[c].plan # << >>
      /\ Head(call[c].plan) \in SetItem
  BY PlannedSet
<1>2. PICK s \in Seq(Item), p \in SetItem : s = call[c].plan /\ s # << >> /\ p = Head(s)
  BY <1>1 DEF CallRecord
<1>3. p \in Range(s) /\ p.kind = "set"
  BY <1>2, HeadAndTail, ItemKinds
<1>4. PICK k : k = call[c] /\ CallFacts(k, session[c].name) \subseteq Facts
  BY <1>1, KnownFacts
<1>5. \A q \in Range(k.plan) : q.kind = "set" => SetFacts(q) \subseteq Facts
  BY <1>4, FactsOfCall
<1> QED
  BY <1>2, <1>3, <1>4, <1>5

\* A Set succeeds.
LEMMA DoSetLinks ==
    ASSUME StepTypes, LinksInv, NEW c \in Client, DoSet(c)
    PROVE  LinksInv'
<1>1. Planned(c, "set") /\ TypeOK
  BY DEF DoSet, StepTypes
<1>2. PICK k \in CallRecord : k = call[c] /\ k # None /\ k.plan # << >> /\ session[c] # None
  BY <1>1, PlannedSet
<1>3. PICK p \in SetItem : p = Head(k.plan) /\ SetFacts(p) \subseteq Facts
  BY <1>1, <1>2, PlannedSet, HeadFacts
<1>4. PICK rest \in Seq(Item) : rest = Tail(k.plan) /\ Range(rest) \subseteq Range(k.plan)
  BY <1>2, HeadAndTail DEF CallRecord
<1>5. Write(p) /\ Remember(c, p) /\ GoOn(c, rest) /\ UNCHANGED <<next, late>>
  BY <1>2, <1>3, <1>4 DEF DoSet
<1>6. /\ session'[c].name = session[c].name
      /\ \A d \in Client \ {c} : session'[d] = session[d]
  BY <1>1, <1>2, <1>5, RememberTyped
<1> DEFINE on == [k EXCEPT !.plan = rest]
<1>7. CallFacts(on, session[c].name) \subseteq CallFacts(k, session[c].name) /\ (Linking(on) => Linking(k))
  BY <1>4, RestFacts
<1>8. on.box = k.box
  BY WithPlan
<1> HIDE DEF on
<1>9. PICK k1 : call' = [call EXCEPT ![c] = k1] /\ (k1 # None => k1 = on)
  BY <1>2, <1>5 DEF GoOn, on
<1>10. CallFacts(k, session[c].name) \subseteq Facts /\ (Linking(k) => k.box # None)
  BY <1>2, KnownFacts DEF LinksInv
<1>11. k1 # None => CallFacts(k1, session'[c].name) \subseteq Facts \cup {}
  BY <1>6, <1>7, <1>9, <1>10
<1>12. k1 # None /\ Linking(k1) => k1.box # None
  BY <1>7, <1>8, <1>9, <1>10
<1>13. Facts' \subseteq Facts \cup {}
  <2>1. \A h \in Handle : access'[h] # None => ChildFacts(h, access'[h]) \subseteq Facts \cup {}
    BY <1>3, <1>5, WriteFacts
  <2>2. \A m \in Id : mailbox'[m] # None => <<"leads", m, mailbox'[m].inode>> \in Facts \cup {}
    BY <1>3, <1>5, WriteFacts
  <2>3. \A d \in Client : late'[d] # None => SetFacts(late'[d]) \subseteq Facts \cup {}
    BY <1>5, KnownFacts
  <2> QED
    BY <1>6, <1>9, <1>11, <2>1, <2>2, <2>3, FactsAfter
<1>14. FactsAgree'
  <2>1. next \in Nat /\ next' \in Nat /\ next' >= next
    BY <1>1, <1>5, Typed
  <2> QED
    BY <1>13, <2>1, AgreeSame DEF LinksInv
<1> QED
  BY <1>9, <1>12, <1>14, LinksAfter

\* RevokeAccess puts a block or a mailbox back; the mailbox still leads to its inode.
LEMMA DoFetchLinks ==
    ASSUME StepTypes, LinksInv, NEW c \in Client, DoFetch(c)
    PROVE  LinksInv'
<1>1. TypeOK /\ Planned(c, "fetch")
  BY DEF StepTypes, DoFetch
<1>2. PICK k \in CallRecord : /\ k = call[c] /\ k # None /\ CallShape(k) /\ k.plan # << >>
                              /\ k.op = "RevokeAccess"
  BY <1>1, PlannedFetch
<1>3. PICK p \in FetchItem : p = Head(k.plan)
  BY <1>1, <1>2, PlannedFetch
<1>4. PICK x \in Id, v \in Id : x = p.at /\ v = p.value
  BY <1>3, ItemKinds
<1>5. p.store \in {"block", "mailbox"} /\ p = Head(call[c].plan)
  BY <1>2, <1>3, ItemKinds
<1>6. CallFacts(k, session[c].name) \subseteq Facts
  BY <1>2, KnownFacts
<1>7. ASSUME NEW back \in SetItem, SetFacts(back) \subseteq Facts,
             GoOn(c, <<back>> \o Tail(k.plan)), UNCHANGED <<vars, late>>
      PROVE  LinksInv'
  <2>1. PICK s \in Seq(Item) : s = k.plan /\ s # << >>
    BY <1>2 DEF CallRecord
  <2>2. PICK rest \in Seq(Item) : rest = Tail(s) /\ Range(rest) \subseteq Range(s)
    BY <2>1, HeadAndTail
  <2>3. back \in Item
    BY ItemKinds
  <2>4. PICK b \in Seq(Item) : b = <<back>> /\ Range(b) = {back} /\ b # << >>
    BY <2>3, ShortPlans
  <2>5. b \o rest \in Seq(Item) /\ Range(b \o rest) = Range(b) \cup Range(rest)
    BY JoinedPlans
  <2>6. b \o rest # << >>
    BY <2>4, JoinedPlans
  <2>7. PICK plan \in Seq(Item) : /\ plan = b \o rest /\ plan # << >>
                                  /\ Range(plan) = {back} \cup Range(rest)
    BY <2>4, <2>5, <2>6
  <2> DEFINE on == [k EXCEPT !.plan = plan]
  <2>8. /\ on.plan = plan /\ on.op = k.op /\ on.arg = k.arg /\ on.access = k.access
        /\ on.box = k.box /\ on.made = k.made /\ on.filename = k.filename
    BY WithPlan
  <2>9. call' = [call EXCEPT ![c] = on]
    BY <1>2, <1>7, <2>1, <2>2, <2>4, <2>7 DEF GoOn
  <2> HIDE DEF on
  <2>10. ~Linking(on)
    <3>1. Range(plan) \subseteq SetItem \cup FetchItem
      BY <1>2, <2>1, <2>2, <2>7 DEF CallShape
    <3> QED
      BY <2>8, <3>1, NotLinking
  <2>11. \A q \in Range(on.plan) : q.kind = "set" => SetFacts(q) \subseteq Facts
    <3>1. \A q \in Range(k.plan) : q.kind = "set" => SetFacts(q) \subseteq Facts
      BY <1>6, FactsOfCall
    <3> QED
      BY <1>7, <2>1, <2>2, <2>7, <2>8, <3>1
  <2>12. CallFacts(on, session[c].name) \subseteq Facts
    BY <1>6, <2>8, <2>10, <2>11, FactsOfCall
  <2>13. UNCHANGED <<session, Store, late>> /\ next' = next
    BY <1>7 DEF vars, Store
  <2> QED
    BY <2>9, <2>10, <2>12, <2>13, QuietLinks
<1>8. CASE /\ decryptAndVerify(block[x], call[c].box.fileKey)
           /\ GoOn(c, <<Put("block", x, encryptAndMAC(block[x].plain, v))>> \o Tail(k.plan))
           /\ UNCHANGED <<vars, late, issued, batch>>
  <2>1. block[x] # None /\ block[x] \in SealedBlock
    BY <1>1, <1>8, Typed DEF decryptAndVerify
  <2>2. PICK back \in SetItem : back = Put("block", x, encryptAndMAC(block[x].plain, v))
    BY <2>1, PutTyped DEF encryptAndMAC, SealedBlock
  <2>3. SetFacts(back) = {}
    BY <2>2, PutFields, FactsOfSet
  <2> QED
    BY <1>7, <1>8, <2>2, <2>3
<1>9. CASE /\ mailbox[x] # None
           /\ GoOn(c, <<Put("mailbox", x, [mailbox[x] EXCEPT !.fileKey = v])>> \o Tail(k.plan))
           /\ UNCHANGED <<vars, late, issued, batch>>
  <2>1. mailbox[x] \in MailboxNode
    BY <1>1, <1>9, Typed
  <2>2. PICK box \in MailboxNode : /\ box = [mailbox[x] EXCEPT !.fileKey = v]
                                   /\ box.inode = mailbox[x].inode
    <3>1. PICK m \in MailboxNode : m = mailbox[x]
      BY <2>1
    <3>2. [m EXCEPT !.fileKey = v] \in MailboxNode
      BY DEF MailboxNode
    <3>3. [m EXCEPT !.fileKey = v].inode = m.inode
      BY DEF MailboxNode
    <3> QED
      BY <3>1, <3>2, <3>3
  <2>3. PICK back \in SetItem : back = Put("mailbox", x, box)
    BY PutTyped
  <2>4. back.store = "mailbox" /\ back.at = x /\ back.value = box
    BY <2>3, PutFields
  <2>5. SetFacts(back) = {<<"leads", x, mailbox[x].inode>>}
    <3>1. SetFacts(back) = {<<"leads", back.at, back.value.inode>>}
      BY <2>4, FactsOfSet
    <3>2. back.at = x /\ back.value.inode = mailbox[x].inode
      BY <2>2, <2>4
    <3> QED
      BY <3>1, <3>2
  <2>6. SetFacts(back) \subseteq Facts
    BY <1>9, <2>5, KnownFacts
  <2> QED
    BY <1>7, <1>9, <2>2, <2>3, <2>6
<1>10. \/ Refuse(c)
       \/ /\ decryptAndVerify(block[x], call[c].box.fileKey)
          /\ GoOn(c, <<Put("block", x, encryptAndMAC(block[x].plain, v))>> \o Tail(k.plan))
          /\ UNCHANGED <<vars, late, issued, batch>>
       \/ /\ mailbox[x] # None
          /\ GoOn(c, <<Put("mailbox", x, [mailbox[x] EXCEPT !.fileKey = v])>> \o Tail(k.plan))
          /\ UNCHANGED <<vars, late, issued, batch>>
  BY <1>2, <1>4, <1>5 DEF DoFetch
<1> QED
  BY <1>8, <1>9, <1>10, RefuseLinks

\* CreateInvitation links the mailbox it made: the place was reserved for it, and it leads
\* where the caller's mailbox does.
LEMMA DoLookupLinks ==
    ASSUME StepTypes, LinksInv, NEW c \in Client, DoLookup(c)
    PROVE  LinksInv'
<1>1. TypeOK /\ Planned(c, "lookup") /\ next \in Nat \ {0} /\ next <= MaxId + 1
  BY Typed DEF StepTypes, DoLookup
<1>2. PICK k \in CallRecord : /\ k = call[c] /\ k # None /\ k.access \in Access
                              /\ k.made \in Id /\ k.arg \in User /\ k.plan = <<Lookup(k.arg)>>
  BY <1>1, PlannedLookup
<1>3. session[c] # None /\ session[c] \in Session /\ CallShape(k)
  BY <1>1, <1>2, Typed DEF StepTypes, CallsTyped
<1>4. Linking(k) /\ k.box # None /\ k.access # None
  <2>1. Range(k.plan) = {Lookup(k.arg)} /\ Lookup(k.arg).kind = "lookup"
    BY <1>2, ItemKinds, ShortPlans
  <2>2. Linking(k)
    BY <2>1 DEF Linking
  <2> QED
    BY <1>2, <2>2, NoneAssumption DEF LinksInv
<1>5. k.op = "CreateInvitation"
  <2>1. ~(Range(k.plan) \subseteq SetItem \cup FetchItem)
    BY <1>4, NotLinking
  <2> QED
    BY <1>3, <2>1 DEF CallShape
<1>6. PICK a \in Access, m \in Id, r \in User, name \in User, f \in Filename, i \in Id :
         /\ a = k.access /\ m = k.made /\ r = k.arg /\ f = k.filename /\ i = k.box.inode
         /\ name = session[c].name
  <2>1. k.made \in Id /\ k.arg \in User /\ k.filename \in Filename /\ k.box \in MailboxNode
    BY <1>2, <1>4 DEF CallRecord
  <2>2. k.box.inode \in Id /\ session[c].name \in User
    BY <1>3, <2>1 DEF MailboxNode, Session
  <2> QED
    BY <1>2, <2>1, <2>2
<1>7. PICK h \in Handle : h = <<name, f>> /\ h = HandleOf(c)
  BY <1>2, <1>6 DEF Handle, HandleOf
<1>8. /\ ChildFacts(h, a) \subseteq Facts
      /\ <<"leads", a.mailbox, i>> \in Facts /\ <<"leads", m, i>> \in Facts
      /\ <<"link", <<h, r>>, m>> \in Facts
  <2>1. CallFacts(k, name) \subseteq Facts
    BY <1>2, <1>6, KnownFacts
  <2> QED
    BY <1>4, <1>5, <1>6, <1>7, <2>1, FactsOfCall
<1>9. CASE Refuse(c)
  BY <1>9, RefuseLinks
<1>10. CASE ~Refuse(c)
  <2> DEFINE inv == SealedInvitation(name, f, r, m)
             rec == WithChild(a, r, m)
             new == {<<"mates", a.mailbox, m>>}
  <2>1. /\ CanDraw(1) /\ next' = next + 1 /\ UNCHANGED <<session, Store, late>>
        /\ call' = [call EXCEPT ![c] = [k EXCEPT !.arg = next, !.plan =
                       <<Put("invitation", next, inv), Put("access", h, rec)>>]]
    BY <1>2, <1>6, <1>7, <1>10 DEF DoLookup
  <2>2. PICK j \in Id : j = next
    BY <1>1, <2>1, BoundsAssumption DEF CanDraw, Id
  <2>3. inv \in Invitation /\ rec \in Access
    BY DEF SealedInvitation, Invitation, WithChild, Access, ChildrenMap
  <2>4. ASSUME NEW x \in ChildFacts(h, rec) PROVE x \in Facts \cup new
    <3>1. /\ rec.mailbox = a.mailbox
          /\ \A u \in User : rec.children[u] = IF u = r THEN m ELSE a.children[u]
      BY DEF WithChild, Access, ChildrenMap
    <3>2. PICK u \in User : /\ rec.children[u] # None
                            /\ x \in {<<"link", <<h, u>>, rec.children[u]>>,
                                      <<"mates", rec.mailbox, rec.children[u]>>}
      BY <2>4 DEF ChildFacts
    <3>3. CASE u = r
      BY <1>8, <3>1, <3>2, <3>3
    <3>4. CASE u # r
      <4>1. {<<"link", <<h, u>>, a.children[u]>>, <<"mates", a.mailbox, a.children[u]>>} \subseteq ChildFacts(h, a)
        BY <3>1, <3>2, <3>4 DEF ChildFacts
      <4> QED
        BY <1>8, <3>1, <3>2, <3>4, <4>1
    <3> QED
      BY <3>3, <3>4
  <2> HIDE DEF inv, rec, new
  <2>5. PICK pj \in SetItem : pj = Put("invitation", j, inv)
    BY <2>3, PutTyped
  <2>6. PICK pa \in SetItem : pa = Put("access", h, rec)
    BY <2>3, PutTyped
  <2>7. SetFacts(pj) = {}
    BY <2>5, PutFields, FactsOfSet
  <2>8. SetFacts(pa) \subseteq Facts \cup new
    BY <2>4, <2>6, PutFields, FactsOfSet
  <2>9. PICK plan \in Seq(Item) : plan = <<pj, pa>> /\ Range(plan) = {pj, pa}
    <3>1. pj \in Item /\ pa \in Item
      BY ItemKinds
    <3> QED
      BY <3>1, ShortPlans
  <2> DEFINE on == [k EXCEPT !.arg = j, !.plan = plan]
  <2>10. /\ on.plan = plan /\ on.access = a /\ on.box = k.box /\ on.made = m
         /\ on.filename = f
    BY <1>6 DEF CallRecord
  <2>11. call' = [call EXCEPT ![c] = on]
    BY <2>1, <2>2, <2>5, <2>6, <2>9
  <2> HIDE DEF on
  <2>12. ~Linking(on)
    BY <2>9, <2>10, NotLinking
  <2>13. CallFacts(on, name) \subseteq Facts \cup new
    <3>1. \A p \in Range(on.plan) : p.kind = "set" => SetFacts(p) \subseteq Facts \cup new
      BY <2>7, <2>8, <2>9, <2>10
    <3>2. ChildFacts(<<name, on.filename>>, on.access) \subseteq Facts \cup new
      BY <1>7, <1>8, <2>10
    <3>3. /\ <<"leads", on.access.mailbox, on.box.inode>> \in Facts \cup new
          /\ <<"leads", on.made, on.box.inode>> \in Facts \cup new
      BY <1>6, <1>8, <2>10
    <3> QED
      BY <2>12, <3>1, <3>2, <3>3, FactsOfCall
  <2>14. Facts' \subseteq Facts \cup new
    BY <1>6, <2>1, <2>11, <2>13, PlanningFacts
  <2>15. FactsAgree'
    <3>1. next \in Nat /\ next' \in Nat /\ next' >= next
      BY <1>1, <2>1
    <3>2. PICK o : o = a.mailbox
      OBVIOUS
    <3>3. <<"leads", o, i>> \in Facts /\ Facts' \subseteq Facts \cup {<<"mates", o, m>>}
      BY <1>8, <2>14, <3>2 DEF new
    <3> QED
      BY <1>8, <3>1, <3>3, AgreeMates DEF LinksInv
  <2> QED
    BY <2>11, <2>12, <2>15, LinksAfter
<1> QED
  BY <1>9, <1>10

\* A call fails or its process dies.
LEMMA InterruptedLinks ==
    ASSUME StepTypes, LinksInv, NEW c \in Client, Interrupted(c)
    PROVE  LinksInv'
<1> DEFINE p == Head(call[c].plan)
<1>1. /\ TypeOK /\ call[c] # None /\ session[c] # None /\ call' = [call EXCEPT ![c] = None]
      /\ session \in [Client -> Session \cup {None}]
      /\ late \in [Client -> SetItem \cup {None}] /\ next' = next
  BY DEF StepTypes, CallsTyped, Interrupted, TypeOK
<1>2. Planned(c, "set") => p \in SetItem /\ SetFacts(p) \subseteq Facts
  BY PlannedSet, HeadFacts
<1>3. \A d \in Client \ {c} : session'[d] = session[d]
  <2>1. CASE session' = [session EXCEPT ![c] = None]
    BY <1>1, <2>1
  <2>2. CASE Planned(c, "set") /\ Remember(c, p)
    <3>1. PICK q \in SetItem : q = p
      BY <1>2, <2>2
    <3> QED
      BY <1>1, <2>2, <3>1, RememberTyped
  <2>3. CASE UNCHANGED session
    BY <2>3
  <2> QED
    BY <2>1, <2>2, <2>3 DEF Interrupted
<1>4. \/ UNCHANGED <<Store, late>>
      \/ Planned(c, "set") /\ Write(p) /\ UNCHANGED late
      \/ Planned(c, "set") /\ late' = [late EXCEPT ![c] = p] /\ UNCHANGED Store
  BY DEF Interrupted
<1> HIDE DEF p
<1>5. /\ \A h \in Handle : access'[h] # None => ChildFacts(h, access'[h]) \subseteq Facts \cup {}
      /\ \A m \in Id : mailbox'[m] # None => <<"leads", m, mailbox'[m].inode>> \in Facts \cup {}
  <2>1. CASE UNCHANGED Store
    <3>1. UNCHANGED <<access, mailbox>>
      BY <2>1 DEF Store
    <3> QED
      BY <3>1, KnownFacts
  <2>2. CASE Planned(c, "set") /\ Write(p)
    BY <1>2, <2>2, WriteFacts
  <2> QED
    BY <1>4, <2>1, <2>2
<1>6. \A d \in Client : late'[d] # None => SetFacts(late'[d]) \subseteq Facts \cup {}
  BY <1>1, <1>2, <1>4, KnownFacts
<1>7. Facts' \subseteq Facts \cup {}
  BY <1>1, <1>3, <1>5, <1>6, FactsAfter
<1>8. FactsAgree'
  <2>1. next \in Nat /\ next' \in Nat /\ next' >= next
    BY <1>1, Typed
  <2> QED
    BY <1>7, <2>1, AgreeSame DEF LinksInv
<1> QED
  BY <1>1, <1>8, LinksAfter

\* A Set lands after its call returned.
LEMMA LateEffectLinks ==
    ASSUME StepTypes, LinksInv, NEW c \in Client, LateEffect(c)
    PROVE  LinksInv'
<1>1. PICK p \in SetItem : p = late[c] /\ p # None
  BY DEF LateEffect, StepTypes, CallsTyped
<1>2. /\ Write(p) /\ late' = [late EXCEPT ![c] = None] /\ UNCHANGED <<session, call, next>>
      /\ SetFacts(p) \subseteq Facts
  BY <1>1, KnownFacts DEF LateEffect
<1>3. PICK k : k = call[c]
  OBVIOUS
<1>4. call' = [call EXCEPT ![c] = k] /\ session' = session
  BY <1>2, <1>3 DEF StepTypes, CallsTyped
<1>5. \A d \in Client : late'[d] # None => SetFacts(late'[d]) \subseteq Facts \cup {}
  BY <1>2, KnownFacts DEF StepTypes, CallsTyped
<1>6. k # None => CallFacts(k, session'[c].name) \subseteq Facts \cup {}
  BY <1>3, <1>4, KnownFacts
<1>7. Facts' \subseteq Facts \cup {}
  <2>1. \A h \in Handle : access'[h] # None => ChildFacts(h, access'[h]) \subseteq Facts \cup {}
    BY <1>2, WriteFacts
  <2>2. \A m \in Id : mailbox'[m] # None => <<"leads", m, mailbox'[m].inode>> \in Facts \cup {}
    BY <1>2, WriteFacts
  <2> QED
    BY <1>4, <1>5, <1>6, <2>1, <2>2, FactsAfter
<1>8. FactsAgree'
  <2>1. next \in Nat /\ next' \in Nat /\ next' >= next
    BY <1>2, Typed DEF StepTypes
  <2> QED
    BY <1>7, <2>1, AgreeSame DEF LinksInv
<1>9. k # None /\ Linking(k) => k.box # None
  BY <1>3 DEF LinksInv
<1> QED
  BY <1>4, <1>8, <1>9, LinksAfter

(***************************************************************************)
(* The sharing tree keeps its shape.                                        *)
(***************************************************************************)
LEMMA LinksStep ==
    ASSUME StepTypes, IssuedStored, LinksInv, StepNext
    PROVE  LinksInv'
<1>1. ASSUME NEW c \in Client, NEW f \in Filename, Begin(c, f) PROVE LinksInv'
  <2>1. ASSUME NEW content \in Content,
               BeginStore(c, f, content) \/ BeginOnAccess(c, "AppendToFile", f, content, Len(content))
        PROVE  LinksInv'
    BY <2>1, BeginStoreLinks, BeginOnAccessLinks
  <2>2. ASSUME NEW r \in User, \/ BeginOnAccess(c, "CreateInvitation", f, r, 2)
                               \/ BeginOnAccess(c, "RevokeAccess", f, r, 2)
        PROVE  LinksInv'
    BY <2>2, BeginOnAccessLinks
  <2>3. ASSUME NEW s \in User, NEW j \in issued, BeginAccept(c, s, j, f)
        PROVE  LinksInv'
    BY <2>3, BeginAcceptLinks DEF IssuedStored
  <2> QED
    BY <1>1, <2>1, <2>2, <2>3 DEF Begin
<1> QED
  BY <1>1, UserCallLinks, ReadMailboxLinks, ReadInodeLinks, DoSetLinks, DoFetchLinks, DoLookupLinks,
     InterruptedLinks, LateEffectLinks DEF StepNext

\* At the start nothing is known.
LEMMA LinksInit == StepInit => LinksInv
<1>1. SUFFICES ASSUME StepInit PROVE LinksInv
  OBVIOUS
<1>2. /\ \A h \in Handle : access[h] = None
      /\ \A m \in Id : mailbox[m] = None
      /\ \A c \in Client : call[c] = None /\ late[c] = None
  BY <1>1 DEF StepInit, Init
<1>3. Facts = {}
  BY <1>2 DEF Facts
<1> QED
  BY <1>2, <1>3 DEF LinksInv, FactsAgree

\* What the facts say of the stored records.
LEMMA FactsShape ==
    ASSUME TypeOK, LinksInv, PointeesFirst
    PROVE  TreeShape
<1>1. ASSUME NEW h \in Handle, access[h] # None, NEW u \in User, access[h].children[u] # None
      PROVE  /\ <<"link", <<h, u>>, access[h].children[u]>> \in Facts
             /\ <<"mates", access[h].mailbox, access[h].children[u]>> \in Facts
  <2>1. {<<"link", <<h, u>>, access[h].children[u]>>,
         <<"mates", access[h].mailbox, access[h].children[u]>>} \subseteq ChildFacts(h, access[h])
    BY <1>1 DEF ChildFacts
  <2> QED
    BY <1>1, <2>1, KnownFacts
<1>2. OneParent
  <2>1. SUFFICES ASSUME NEW g \in Handle, NEW h \in Handle, access[g] # None, access[h] # None,
                        NEW u \in User, NEW v \in User, access[g].children[u] # None,
                        access[g].children[u] = access[h].children[v]
                 PROVE  g = h /\ u = v
    BY DEF OneParent
  <2>2. PICK m : m = access[g].children[u]
    OBVIOUS
  <2>3. PICK x, y : x = <<"link", <<g, u>>, m>> /\ y = <<"link", <<h, v>>, m>>
    OBVIOUS
  <2>4. x \in Facts /\ y \in Facts
    BY <1>1, <2>1, <2>2, <2>3
  <2>5. x[1] = "link" /\ x[2] = <<g, u>> /\ x[3] = m /\ y[1] = "link" /\ y[2] = <<h, v>> /\ y[3] = m
    BY <2>3
  <2>6. <<g, u>> = <<h, v>>
    BY <2>4, <2>5 DEF LinksInv, FactsAgree
  <2> QED
    BY <2>6
<1>3. ChildrenShareTheFile
  <2>1. SUFFICES ASSUME NEW h \in Handle, access[h] # None, NEW u \in User,
                        access[h].children[u] # None
                 PROVE  mailbox[access[h].children[u]].inode = mailbox[access[h].mailbox].inode
    BY DEF ChildrenShareTheFile
  <2>2. PICK m \in Id, n \in Id : m = access[h].mailbox /\ n = access[h].children[u]
    BY <2>1, Typed DEF Access, ChildrenMap
  <2>3. mailbox[m] # None /\ mailbox[n] # None
    BY <2>1, <2>2 DEF PointeesFirst
  <2>4. PICK x, y, z : /\ x = <<"mates", m, n>> /\ y = <<"leads", m, mailbox[m].inode>>
                       /\ z = <<"leads", n, mailbox[n].inode>>
    OBVIOUS
  <2>5. x \in Facts /\ y \in Facts /\ z \in Facts
    BY <1>1, <2>1, <2>2, <2>3, <2>4, KnownFacts
  <2>6. /\ x[1] = "mates" /\ x[2] = m /\ x[3] = n
        /\ y[1] = "leads" /\ y[2] = m /\ y[3] = mailbox[m].inode
        /\ z[1] = "leads" /\ z[2] = n /\ z[3] = mailbox[n].inode
    BY <2>4
  <2>7. y[3] = z[3]
    BY <2>5, <2>6 DEF LinksInv, FactsAgree
  <2> QED
    BY <2>2, <2>6, <2>7
<1> QED
  BY <1>2, <1>3 DEF TreeShape

\* Calls write back access records that are out of date, and Sets land late.  Still no
\* mailbox is ever in two places of the sharing tree, and every record's children lead to
\* the record's own file.
THEOREM TreeKeepsShape == StepSpec => []TreeShape
<1>1. StepTypes /\ IssuedStored /\ LinksInv /\ [StepNext]_stepVars => LinksInv'
  <2>1. SUFFICES ASSUME StepTypes, IssuedStored, LinksInv, [StepNext]_stepVars PROVE LinksInv'
    OBVIOUS
  <2>2. CASE UNCHANGED stepVars
    <3>1. UNCHANGED <<session, access, mailbox, next, call, late>>
      BY <2>2 DEF stepVars, vars
    <3>2. Facts' = Facts
      BY <3>1 DEF Facts
    <3> QED
      BY <2>1, <3>1, <3>2 DEF LinksInv, FactsAgree
  <2> QED
    BY <2>1, <2>2, LinksStep
<1>2. StepTypes /\ LinksInv /\ PointeesFirst => TreeShape
  BY FactsShape DEF StepTypes
<1> QED
  BY <1>1, <1>2, LinksInit, StepTypesInvariant, ReferencesAreStored, PTL DEF StepSpec

(***************************************************************************)
(* Files share no block.                                                    *)
(***************************************************************************)
\* Block e[2] is in the list of inode e[1], or a planned or late Set will put it there.
Lists ==
    {e \in Id \X Id :
        \/ \E p \in Puts : p.store = "inode" /\ p.at = e[1] /\ e[2] \in Range(p.value.plain)
        \/ inode[e[1]] # None /\ e[2] \in Range(inode[e[1]].plain)}

\* No block is in the lists of two inodes, counting those to come, and what was not
\* drawn is not stored, planned or listed.
ApartInv ==
    /\ FreshUnused
    /\ \A p \in Puts : p.store \in {"mailbox", "inode", "block"} => p.at < next
    /\ \A e \in Lists : e[2] < next
    /\ \A e, d \in Lists : e[2] = d[2] => e[1] = d[1]

\* New Sets go to drawn numbers, and extend the list of an inode by new blocks.
LEMMA NewApart ==
    ASSUME StepTypes, StepTypes', ApartInv, NEW new, PlansMore(new), next' >= next,
           \A p \in new : p.store \in {"mailbox", "inode", "block"} => p.at \in Id /\ p.at < next',
           NEW i \in Id,
           \A p \in new : p.store = "inode" =>
              /\ p.at = i
              /\ \A b \in Range(p.value.plain) : <<i, b>> \in Lists \/ (next <= b /\ b < next')
    PROVE  ApartInv'
<1>1. next \in Nat /\ next' \in Nat
  BY DEF StepTypes, TypeOK
<1>2. UNCHANGED <<access, mailbox, inode, block, invitation>> /\ Puts' \subseteq Puts \cup new
  BY DEF PlansMore
<1>3. FreshUnused'
  <2>1. \A x \in Id : x >= next' => x >= next
    BY <1>1 DEF Id
  <2> QED
    BY <1>2, <2>1 DEF ApartInv, FreshUnused
<1>4. ASSUME NEW p \in Puts', p.store \in {"mailbox", "inode", "block"} PROVE p.at < next'
  <2>1. CASE p \in Puts
    <3>1. p \in SetItem
      BY <2>1 DEF Puts
    <3>2. p.at \in Id
      BY <1>4, <3>1, SetItemTyped
    <3>3. p.at < next
      BY <1>4, <2>1 DEF ApartInv
    <3> QED
      BY <1>1, <3>2, <3>3 DEF Id
  <2> QED
    BY <1>2, <1>4, <2>1
<1>5. ASSUME NEW e \in Lists'
      PROVE  e \in Lists \/ (e[1] = i /\ next <= e[2] /\ e[2] < next')
  <2>1. e \in Id \X Id
    BY DEF Lists
  <2>2. CASE \E p \in Puts' : p.store = "inode" /\ p.at = e[1] /\ e[2] \in Range(p.value.plain)
    <3>1. PICK p \in Puts' : p.store = "inode" /\ p.at = e[1] /\ e[2] \in Range(p.value.plain)
      BY <2>2
    <3>2. CASE p \in Puts
      BY <2>1, <3>1, <3>2 DEF Lists
    <3>3. CASE p \in new
      <4>1. e[1] = i /\ (<<i, e[2]>> \in Lists \/ (next <= e[2] /\ e[2] < next'))
        BY <3>1, <3>3
      <4>2. e = <<e[1], e[2]>>
        BY <2>1
      <4> QED
        BY <4>1, <4>2
    <3> QED
      BY <1>2, <3>2, <3>3
  <2>3. CASE inode'[e[1]] # None /\ e[2] \in Range(inode'[e[1]].plain)
    BY <1>2, <2>1, <2>3 DEF Lists
  <2> QED
    BY <2>2, <2>3 DEF Lists
<1>6. \A e \in Lists : e[2] \in Id /\ e[2] < next
  BY DEF Lists, ApartInv
<1>7. ASSUME NEW e \in Lists' PROVE e[2] < next'
  BY <1>1, <1>5, <1>6 DEF Id
<1>8. ASSUME NEW e \in Lists', NEW d \in Lists', e[2] = d[2] PROVE e[1] = d[1]
  <2>1. e[2] \in Nat
    BY DEF Lists, Id
  <2>2. CASE e \in Lists /\ d \in Lists
    BY <1>8, <2>2 DEF ApartInv
  <2>3. CASE e \notin Lists /\ d \notin Lists
    BY <1>5, <2>3
  <2>4. CASE e \in Lists /\ d \notin Lists
    BY <1>1, <1>5, <1>6, <1>8, <2>1, <2>4
  <2>5. CASE e \notin Lists /\ d \in Lists
    BY <1>1, <1>5, <1>6, <1>8, <2>1, <2>5
  <2> QED
    BY <2>2, <2>3, <2>4, <2>5
<1> QED
  BY <1>3, <1>4, <1>7, <1>8 DEF ApartInv

\* Writing a Set lists nothing that was not to be listed.
LEMMA WriteApart ==
    ASSUME StepTypes, ApartInv, NEW p \in SetItem, Writes(p)
    PROVE  ApartInv'
<1>1. /\ p \in Puts /\ Puts' \subseteq Puts /\ next' = next
      /\ inode' = IF p.store = "inode" THEN [inode EXCEPT ![p.at] = p.value] ELSE inode
      /\ mailbox' = IF p.store = "mailbox" THEN [mailbox EXCEPT ![p.at] = p.value] ELSE mailbox
      /\ block' = IF p.store = "block" THEN [block EXCEPT ![p.at] = p.value] ELSE block
  BY DEF Writes, Write
<1>2. /\ inode \in [Id -> SealedInode \cup {None}] /\ mailbox \in [Id -> MailboxNode \cup {None}]
      /\ block \in [Id -> SealedBlock \cup {None}] /\ next \in Nat
  BY DEF StepTypes, TypeOK
<1>3. p.store \in {"mailbox", "inode", "block"} => p.at \in Id /\ p.at < next
  BY <1>1, SetItemTyped DEF ApartInv
<1>4. FreshUnused'
  <2>1. \A x \in Id : x >= next => /\ mailbox[x] = None /\ inode[x] = None /\ block[x] = None
    BY DEF ApartInv, FreshUnused
  <2>2. ASSUME NEW x \in Id, x >= next
        PROVE  ~(p.store \in {"mailbox", "inode", "block"} /\ p.at = x)
    BY <1>2, <1>3, <2>2 DEF Id
  <2> QED
    BY <1>1, <1>2, <2>1, <2>2 DEF FreshUnused
<1>5. ASSUME NEW i \in Id
      PROVE  inode'[i] = inode[i] \/ (p.store = "inode" /\ p.at = i /\ inode'[i] = p.value)
  BY <1>1, <1>2
<1>6. ASSUME NEW e \in Lists' PROVE e \in Lists
  <2>1. e \in Id \X Id
    BY DEF Lists
  <2>2. CASE \E q \in Puts' : q.store = "inode" /\ q.at = e[1] /\ e[2] \in Range(q.value.plain)
    BY <1>1, <2>1, <2>2 DEF Lists
  <2>3. CASE inode'[e[1]] # None /\ e[2] \in Range(inode'[e[1]].plain)
    <3>1. e[1] \in Id
      BY <2>1
    <3> QED
      BY <1>1, <1>5, <2>1, <2>3, <3>1 DEF Lists
  <2> QED
    BY <2>2, <2>3 DEF Lists
<1> QED
  BY <1>1, <1>4, <1>6 DEF ApartInv

\* Every step keeps the files apart.
LEMMA ApartStep ==
    ASSUME StepTypes, StepTypes', ApartInv, StepEffect
    PROVE  ApartInv'
<1>1. next \in Nat \ {0} /\ next' \in Nat /\ next - 1 \in Int
  BY DEF StepTypes, TypeOK
<1>2. \A store, at, value : Put(store, at, value).store = store /\ Put(store, at, value).at = at
                            /\ Put(store, at, value).value = value
  BY DEF Put
<1>3. ASSUME NEW new, PlansMore(new), next' >= next,
             \A q \in new : q.store # "inode",
             \A q \in new : q.store \in {"mailbox", "block"} => q.at \in Id /\ q.at < next'
      PROVE  ApartInv'
  <2>1. CASE Id = {}
    <3>1. Lists' = {} /\ \A p \in Puts' : p.store \notin {"mailbox", "inode", "block"}
      BY <2>1, SetItemTyped DEF Lists, Puts
    <3> QED
      BY <2>1, <3>1 DEF ApartInv, FreshUnused
  <2>2. CASE \E i \in Id : TRUE
    <3>1. PICK i \in Id : TRUE
      BY <2>2
    <3> QED
      BY <1>3, NewApart
  <2> QED
    BY <2>1, <2>2
<1>4. ASSUME NEW first \in Nat \ {0}, NEW content \in Content, NEW k \in Id,
             first + Len(content) <= MaxId + 1, next' = first + Len(content),
             NEW q \in Range(PutBlocks(first, content, k))
      PROVE  q.store = "block" /\ q.at \in Id /\ q.at < next'
  <2>1. PICK x \in 1 .. Len(content) : /\ q = Put("block", first + x - 1, encryptAndMAC(content[x], k))
                                       /\ first + x - 1 \in Id
    BY <1>4, PutBlocksItems
  <2>2. Len(content) \in Nat
    BY ContentIsSeq
  <2> QED
    BY <1>2, <1>4, <2>1, <2>2
<1>5. ASSUME NEW i \in Id, inode[i] # None PROVE i < next
  BY <1>1, <1>5 DEF ApartInv, FreshUnused, Id
<1>6. CASE QuietStep
  BY <1>1, <1>3, <1>6 DEF QuietStep
<1>7. ASSUME NEW content \in Content, StoreStep(content) PROVE ApartInv'
  <2>1. PICK h \in Handle, pu \in SetItem :
       /\ pu.store = "user" /\ next \in Id /\ next + 1 \in Id /\ next + 2 \in Id
       /\ next + 3 + Len(content) <= MaxId + 1 /\ next' = next + 3 + Len(content)
       /\ PlansMore({Put("mailbox", next + 2, [fileKey |-> next, inode |-> next + 1]),
                     Put("access", h, NewRecord(h, next + 2)),
                     Put("inode", next + 1, encryptAndMAC(NewBlocks(next + 3, Len(content)), next)),
                     pu} \cup Range(PutBlocks(next + 3, content, next)))
    BY <1>7 DEF StoreStep
  <2> DEFINE pm == Put("mailbox", next + 2, [fileKey |-> next, inode |-> next + 1])
             pa == Put("access", h, NewRecord(h, next + 2))
             pi == Put("inode", next + 1, encryptAndMAC(NewBlocks(next + 3, Len(content)), next))
             new == {pm, pa, pi, pu} \cup Range(PutBlocks(next + 3, content, next))
  <2>2. Len(content) \in Nat /\ next + 3 \in Nat \ {0} /\ next + 1 \in Id
    BY <1>1, <2>1, ContentIsSeq
  <2>3. /\ pm.store = "mailbox" /\ pm.at = next + 2 /\ pa.store = "access"
        /\ pi.store = "inode" /\ pi.at = next + 1
        /\ pi.value.plain = NewBlocks(next + 3, Len(content))
    BY <1>2 DEF encryptAndMAC
  <2>4. \A q \in Range(PutBlocks(next + 3, content, next)) : q.store = "block" /\ q.at \in Id /\ q.at < next'
    BY <1>4, <2>1, <2>2
  <2>5. \A b \in Range(pi.value.plain) : next <= b /\ b < next'
    <3>1. Range(NewBlocks(next + 3, Len(content))) = next + 3 .. next + 3 + Len(content) - 1
      BY <2>1, <2>2, NewBlocksProperties
    <3> QED
      BY <1>1, <2>1, <2>2, <2>3, <3>1
  <2>6. PlansMore(new) /\ next' >= next /\ next + 1 < next' /\ next + 2 < next'
    BY <1>1, <2>1, <2>2
  <2> HIDE DEF pm, pa, pi
  <2>7. \A q \in new : q.store \in {"mailbox", "inode", "block"} => q.at \in Id /\ q.at < next'
    BY <2>1, <2>3, <2>4, <2>6
  <2>8. \A q \in new : q.store = "inode" => q = pi
    BY <2>1, <2>3, <2>4
  <2> HIDE DEF new
  <2>9. \A q \in new : q.store = "inode" =>
           /\ q.at = next + 1
           /\ \A b \in Range(q.value.plain) : <<next + 1, b>> \in Lists \/ (next <= b /\ b < next')
    BY <2>3, <2>5, <2>8
  <2> QED
    BY <2>2, <2>6, <2>7, <2>9, NewApart
<1>8. ASSUME NEW box \in MailboxNode, NEW content \in Content, AppendStep(box, content)
      PROVE  ApartInv'
  <2> DEFINE old == inode[box.inode].plain
             pi == Put("inode", box.inode,
                       encryptAndMAC(old \o NewBlocks(next, Len(content)), box.fileKey))
             new == {pi} \cup Range(PutBlocks(next, content, box.fileKey))
  <2>1. /\ inode[box.inode] # None
        /\ next + Len(content) <= MaxId + 1 /\ next' = next + Len(content)
        /\ PlansMore(new)
    BY <1>8 DEF AppendStep
  <2>2. box.fileKey \in Id /\ box.inode \in Id /\ Len(content) \in Nat
    BY ContentIsSeq DEF MailboxNode
  <2>3. old \in Seq(Id)
    BY <2>1, <2>2, Typed DEF StepTypes, SealedInode
  <2>4. /\ NewBlocks(next, Len(content)) \in Seq(Id)
        /\ Range(NewBlocks(next, Len(content))) = next .. next + Len(content) - 1
    BY <1>1, <2>1, <2>2, NewBlocksProperties
  <2>5. Range(pi.value.plain) = Range(old) \cup Range(NewBlocks(next, Len(content)))
    <3>1. pi.value.plain = old \o NewBlocks(next, Len(content))
      BY DEF Put, encryptAndMAC
    <3> HIDE DEF pi, old
    <3> QED
      BY <2>3, <2>4, <3>1, IdsOfConcat
  <2>6. \A b \in Range(old) : <<box.inode, b>> \in Lists
    <3>1. \A b \in Range(old) : b \in Id
      BY <2>3, IdsOfSeq
    <3> QED
      BY <2>1, <2>2, <3>1 DEF Lists
  <2>7. \A b \in Range(pi.value.plain) : <<box.inode, b>> \in Lists \/ (next <= b /\ b < next')
    BY <1>1, <2>1, <2>2, <2>4, <2>5, <2>6
  <2>8. \A q \in Range(PutBlocks(next, content, box.fileKey)) : q.store = "block" /\ q.at \in Id /\ q.at < next'
    BY <1>1, <1>4, <2>1, <2>2
  <2>9. next' >= next /\ box.inode < next'
    BY <1>1, <1>5, <2>1, <2>2 DEF Id
  <2>10. pi.store = "inode" /\ pi.at = box.inode
    BY <1>2
  <2> HIDE DEF pi, old
  <2>11. \A q \in new : q.store \in {"mailbox", "inode", "block"} => q.at \in Id /\ q.at < next'
    BY <2>2, <2>8, <2>9, <2>10
  <2>12. \A q \in new : q.store = "inode" => q = pi
    BY <2>8
  <2> HIDE DEF new
  <2>13. \A q \in new : q.store = "inode" =>
           /\ q.at = box.inode
           /\ \A b \in Range(q.value.plain) : <<box.inode, b>> \in Lists \/ (next <= b /\ b < next')
    BY <2>7, <2>10, <2>12
  <2> QED
    BY <2>1, <2>2, <2>9, <2>11, <2>13, NewApart
<1>9. ASSUME NEW box \in MailboxNode, NEW pa \in SetItem, NEW pu \in SetItem, RekeyStep(box, pa, pu)
      PROVE  ApartInv'
  <2> DEFINE pi == Put("inode", box.inode, encryptAndMAC(inode[box.inode].plain, next))
             pm == Put("mailbox", next + 1, [fileKey |-> next, inode |-> box.inode])
             new == {pi, pm, pa, pu}
  <2>1. /\ next' = next + 2 /\ PlansMore(new) /\ next + 1 \in Id
        /\ inode[box.inode] # None /\ pa.store = "access" /\ pu.store = "user"
    BY <1>9 DEF RekeyStep
  <2>2. /\ pi.value.plain = inode[box.inode].plain /\ pi.store = "inode" /\ pi.at = box.inode
        /\ pm.store = "mailbox" /\ pm.at = next + 1
    BY <1>2 DEF encryptAndMAC
  <2>3. box.inode \in Id
    BY DEF MailboxNode
  <2>4. \A b \in Range(inode[box.inode].plain) : <<box.inode, b>> \in Lists
    <3>1. inode[box.inode].plain \in Seq(Id)
      BY <2>1, <2>3, Typed DEF StepTypes, SealedInode
    <3>2. \A b \in Range(inode[box.inode].plain) : b \in Id
      BY <3>1, IdsOfSeq
    <3> QED
      BY <2>1, <2>3, <3>2 DEF Lists
  <2>5. next' >= next /\ box.inode < next' /\ next + 1 < next'
    BY <1>1, <1>5, <2>1, <2>3 DEF Id
  <2> HIDE DEF pi, pm
  <2>6. \A q \in new : q.store \in {"mailbox", "inode", "block"} => q.at \in Id /\ q.at < next'
    BY <2>1, <2>2, <2>3, <2>5
  <2>7. \A q \in new : q.store = "inode" =>
           /\ q.at = box.inode
           /\ \A b \in Range(q.value.plain) : <<box.inode, b>> \in Lists \/ (next <= b /\ b < next')
    BY <2>1, <2>2, <2>4
  <2> HIDE DEF new
  <2> QED
    BY <2>1, <2>3, <2>5, <2>6, <2>7, NewApart
<1>10. ASSUME NEW new \in SUBSET SetItem, RecordStep(new) PROVE ApartInv'
  BY <1>3, <1>10 DEF RecordStep
<1>11. ASSUME NEW box \in MailboxNode, CopyStep(box) PROVE ApartInv'
  <2>1. next' >= next /\ next < next' /\ next \in Id /\ PlansMore({Put("mailbox", next, box)})
    BY <1>1, <1>11 DEF CopyStep
  <2> QED
    BY <1>2, <1>3, <2>1
<1>12. ASSUME NEW b \in Id, NEW k \in Id, BlockBackStep(b, k) PROVE ApartInv'
  <2>1. next' = next /\ PlansMore({Put("block", b, encryptAndMAC(block[b].plain, k))}) /\ block[b] # None
    BY <1>12 DEF BlockBackStep
  <2>2. b < next' /\ next' >= next
    BY <1>1, <2>1 DEF ApartInv, FreshUnused, Id
  <2> QED
    BY <1>2, <1>3, <2>1, <2>2
<1>13. ASSUME NEW m \in Id, NEW k \in Id, MailboxBackStep(m, k) PROVE ApartInv'
  <2>1. next' = next /\ PlansMore({Put("mailbox", m, [mailbox[m] EXCEPT !.fileKey = k])}) /\ mailbox[m] # None
    BY <1>13 DEF MailboxBackStep
  <2>2. m < next' /\ next' >= next
    BY <1>1, <2>1 DEF ApartInv, FreshUnused, Id
  <2> QED
    BY <1>2, <1>3, <2>1, <2>2
<1> QED
  BY <1>6, <1>7, <1>8, <1>9, <1>10, <1>11, <1>12, <1>13, WriteApart DEF StepEffect

\* However calls overlap, fail, die and land late, no block is in the lists of two inodes,
\* so that sealing the blocks of one file anew takes nothing from another.
THEOREM FilesStayApart == StepSpec => [](FreshUnused /\ BlocksApart)
<1>1. StepInit => ApartInv
  <2>1. SUFFICES ASSUME StepInit PROVE ApartInv
    OBVIOUS
  <2>2. Puts = {} /\ \A i \in Id : inode[i] = None /\ mailbox[i] = None /\ block[i] = None
    BY <2>1, PlansInit DEF StepInit, Init
  <2>3. Lists = {}
    BY <2>2 DEF Lists
  <2> QED
    BY <2>2, <2>3 DEF ApartInv, FreshUnused
<1>2. ApartInv /\ [StepTypes /\ StepTypes' /\ StepEffect]_stepVars => ApartInv'
  <2>1. CASE UNCHANGED stepVars
    <3>1. Puts' = Puts /\ inode' = inode /\ next' = next /\ mailbox' = mailbox /\ block' = block
      BY <2>1 DEF stepVars, vars, Puts
    <3>2. Lists' = Lists
      BY <3>1 DEF Lists
    <3> QED
      BY <3>1, <3>2 DEF ApartInv, FreshUnused
  <2> QED
    BY <2>1, ApartStep
<1>3. StepTypes /\ ApartInv => FreshUnused /\ BlocksApart
  <2>1. SUFFICES ASSUME StepTypes, ApartInv PROVE BlocksApart
    BY DEF ApartInv
  <2>2. ASSUME NEW i \in Id, NEW j \in Id, inode[i] # None, inode[j] # None,
               NEW b \in Range(inode[i].plain) \cap Range(inode[j].plain)
        PROVE  i = j
    <3>1. inode[i].plain \in Seq(Id)
      BY <2>1, <2>2, Typed DEF StepTypes, SealedInode
    <3>2. b \in Id
      BY <3>1, IdsOfSeq
    <3>3. <<i, b>> \in Lists /\ <<j, b>> \in Lists
      BY <2>2, <3>2 DEF Lists
    <3>4. <<i, b>>[2] = <<j, b>>[2] => <<i, b>>[1] = <<j, b>>[1]
      BY <2>1, <3>3 DEF ApartInv
    <3> QED
      BY <3>4
  <2> QED
    BY <2>2 DEF BlocksApart
<1> QED
  BY <1>1, <1>2, <1>3, EffectsInvariant, StepTypesInvariant, PTL DEF StepSpec
=============================================================================
