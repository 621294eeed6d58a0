--------------------------- MODULE SharingProofs ---------------------------
(***************************************************************************)
(* Machine-checked proofs about Sharing, for every set of users, clients,   *)
(* filenames and chunks and every value of the bounds.                      *)
(***************************************************************************)
EXTENDS Sharing, SequenceTheorems, TLAPS

(***************************************************************************)
(* The helpers of the operations.                                           *)
(***************************************************************************)
\* Content is a set of sequences of chunks of at most MaxContent pieces.
LEMMA ContentIsSeq ==
    ASSUME NEW content \in Content
    PROVE  /\ content \in Seq(Chunk)
           /\ Len(content) \in Nat
           /\ \A n \in 1 .. Len(content) : content[n] \in Chunk
<1>1. PICK n \in 0 .. MaxContent : content \in [1 .. n -> Chunk]
  BY DEF Content
<1>2. n \in Nat
  BY BoundsAssumption
<1>3. content \in Seq(Chunk)
  BY <1>1, <1>2, SeqDef
<1> QED
  BY <1>1, <1>2, <1>3, LenProperties

\* The UUIDs of new blocks (NewBlocks) are fresh numbers, none twice.
LEMMA NewBlocksProperties ==
    ASSUME NEW first \in Nat \ {0}, NEW n \in Nat, first + n <= MaxId + 1
    PROVE  /\ NewBlocks(first, n) \in Seq(Id)
           /\ Len(NewBlocks(first, n)) = n
           /\ \A x \in 1 .. n : NewBlocks(first, n)[x] = first + x - 1
           /\ Range(NewBlocks(first, n)) = first .. first + n - 1
<1> DEFINE s == NewBlocks(first, n)
<1>1. s \in [1 .. n -> Id]
  BY BoundsAssumption DEF NewBlocks, Id
<1>2. s \in Seq(Id)
  BY <1>1, SeqDef
<1>3. Len(s) = n
  BY <1>1, <1>2, LenProperties
<1>4. \A x \in 1 .. n : s[x] = first + x - 1
  BY DEF NewBlocks
<1>5. ASSUME NEW b \in first .. first + n - 1
      PROVE  b \in Range(s)
  <2>1. b - first + 1 \in 1 .. n /\ s[b - first + 1] = b
    BY <1>4
  <2> QED
    BY <1>1, <2>1 DEF Range
<1>6. ASSUME NEW b \in Range(s)
      PROVE  b \in first .. first + n - 1
  BY <1>1, <1>4 DEF Range
<1> QED
  BY <1>2, <1>3, <1>4, <1>5, <1>6

\* Sealing the chunks of a content in new blocks keeps the block store typed.
LEMMA WriteBlocksType ==
    ASSUME NEW first \in Nat \ {0}, NEW content \in Content, NEW k \in Id,
           block \in [Id -> SealedBlock \cup {None}]
    PROVE  WriteBlocks(first, content, k) \in [Id -> SealedBlock \cup {None}]
<1>1. Len(content) \in Nat /\ \A n \in 1 .. Len(content) : content[n] \in Chunk
  BY ContentIsSeq
<1>2. ASSUME NEW b \in Id, b \in first .. first + Len(content) - 1
      PROVE  encryptAndMAC(content[b - first + 1], k) \in SealedBlock
  <2>1. b - first + 1 \in 1 .. Len(content)
    BY <1>1, <1>2 DEF Id
  <2> QED
    BY <1>1, <2>1 DEF encryptAndMAC, SealedBlock
<1> QED
  BY <1>2 DEF WriteBlocks

\* The elements of a sequence of ids are ids.
LEMMA IdsOfSeq ==
    ASSUME NEW s \in Seq(Id)
    PROVE  Range(s) \subseteq Id
<1>1. ASSUME NEW x \in Range(s) PROVE x \in Id
  <2>1. PICK n \in DOMAIN s : s[n] = x
    BY DEF Range
  <2> QED
    BY <2>1, LenProperties, ElementOfSeq
<1> QED
  BY <1>1

\* The ids a concatenation holds are those of its parts.
LEMMA IdsOfConcat ==
    ASSUME NEW s \in Seq(Id), NEW t \in Seq(Id)
    PROVE  /\ s \o t \in Seq(Id)
           /\ Range(s \o t) = Range(s) \cup Range(t)
<1>1. /\ s \o t \in Seq(Id)
      /\ Len(s \o t) = Len(s) + Len(t)
      /\ \A i \in 1 .. Len(s) + Len(t) : (s \o t)[i] =
             IF i <= Len(s) THEN s[i] ELSE t[i - Len(s)]
  BY ConcatProperties
<1>2. /\ Len(s) \in Nat /\ DOMAIN s = 1 .. Len(s)
      /\ Len(t) \in Nat /\ DOMAIN t = 1 .. Len(t)
      /\ DOMAIN (s \o t) = 1 .. Len(s) + Len(t)
  BY <1>1, LenProperties
<1>3. ASSUME NEW i \in DOMAIN s PROVE s[i] \in Range(s \o t)
  BY <1>1, <1>2, (s \o t)[i] = s[i] DEF Range
<1>4. ASSUME NEW i \in DOMAIN t PROVE t[i] \in Range(s \o t)
  <2>1. Len(s) + i \in DOMAIN (s \o t) /\ (s \o t)[Len(s) + i] = t[i]
    BY <1>1, <1>2
  <2> QED
    BY <2>1 DEF Range
<1>5. ASSUME NEW i \in DOMAIN (s \o t)
      PROVE  (s \o t)[i] \in Range(s) \cup Range(t)
  <2>1. CASE i <= Len(s)
    BY <1>1, <1>2, <2>1 DEF Range
  <2>2. CASE ~(i <= Len(s))
    <3>1. i - Len(s) \in DOMAIN t /\ (s \o t)[i] = t[i - Len(s)]
      BY <1>1, <1>2, <2>2
    <3> QED
      BY <3>1 DEF Range
  <2> QED
    BY <2>1, <2>2
<1> QED
  BY <1>1, <1>3, <1>4, <1>5 DEF Range

(***************************************************************************)
(* Type correctness.                                                        *)
(***************************************************************************)
\* What the types say about the parts of an object that is there.
LEMMA Typed ==
    ASSUME TypeOK
    PROVE  /\ \A c \in Client : session[c] # None => session[c] \in Session
           /\ \A u \in User : account[u] # None => account[u] \in UserRecord
           /\ \A h \in Handle : access[h] # None => access[h] \in Access
           /\ \A m \in Id : mailbox[m] # None => mailbox[m] \in MailboxNode
           /\ \A i \in Id : inode[i] # None => inode[i] \in SealedInode
           /\ \A b \in Id : block[b] # None => block[b] \in SealedBlock
           /\ \A j \in Id : invitation[j] # None => invitation[j] \in Invitation
           /\ next \in Nat \ {0} /\ next <= MaxId + 1
  BY BoundsAssumption DEF TypeOK

\* saveUser keeps the session and the stored user record typed.
LEMMA SaveUserType ==
    ASSUME TypeOK, NEW c \in Client, NEW f \in Filename,
           session[c] # None, SaveUser(c, f)
    PROVE  /\ session' \in [Client -> Session \cup {None}]
           /\ account' \in [User -> UserRecord \cup {None}]
<1>1. session[c] \in Session
  BY Typed
<1> QED
  BY <1>1 DEF TypeOK, SaveUser, Session, UserRecord

LEMMA StoreFileType ==
    ASSUME TypeOK, NEW c \in Client, NEW f \in Filename, NEW content \in Content,
           StoreFile(c, f, content)
    PROVE  TypeOK'
<1> DEFINE h == <<session[c].name, f>>
           first == next + 3
           n == Len(content)
<1>1. /\ session[c] \in Session /\ h \in Handle
      /\ next \in Nat \ {0} /\ n \in Nat /\ first + n <= MaxId + 1
      /\ next \in Id /\ next + 1 \in Id /\ next + 2 \in Id
  BY Typed, ContentIsSeq, BoundsAssumption DEF StoreFile, Session, Handle, CanDraw, Id
<1>2. /\ session' \in [Client -> Session \cup {None}]
      /\ account' \in [User -> UserRecord \cup {None}]
  BY SaveUserType DEF StoreFile
<1>3. access' \in [Handle -> Access \cup {None}]
  <2>1. NewRecord(h, next + 2) \in Access
    BY <1>1 DEF NewRecord, NoChildren, Access, ChildrenMap
  <2>2. access' = [access EXCEPT ![h] = NewRecord(h, next + 2)]
    BY DEF StoreFile
  <2> QED
    BY <1>1, <2>1, <2>2 DEF TypeOK
<1>4. mailbox' \in [Id -> MailboxNode \cup {None}]
  BY <1>1 DEF TypeOK, StoreFile, MailboxNode
<1>5. inode' \in [Id -> SealedInode \cup {None}]
  <2>1. NewBlocks(first, n) \in Seq(Id)
    BY <1>1, NewBlocksProperties
  <2>2. encryptAndMAC(NewBlocks(first, n), next) \in SealedInode
    BY <1>1, <2>1 DEF encryptAndMAC, SealedInode
  <2> QED
    BY <1>1, <2>2 DEF TypeOK, StoreFile
<1>6. block' \in [Id -> SealedBlock \cup {None}]
  BY <1>1, WriteBlocksType DEF TypeOK, StoreFile
<1>7. next' \in 1 .. MaxId + 1
  BY <1>1, BoundsAssumption DEF StoreFile
<1> QED
  BY <1>2, <1>3, <1>4, <1>5, <1>6, <1>7 DEF TypeOK, StoreFile

LEMMA AppendToFileType ==
    ASSUME TypeOK, NEW c \in Client, NEW f \in Filename, NEW content \in Content,
           AppendToFile(c, f, content)
    PROVE  TypeOK'
<1> DEFINE h == <<session[c].name, f>>
           box == mailbox[access[h].mailbox]
           node == inode[box.inode]
           n == Len(content)
<1>1. /\ session[c] \in Session /\ h \in Handle
      /\ next \in Nat \ {0} /\ n \in Nat /\ next + n <= MaxId + 1
  BY Typed, ContentIsSeq, BoundsAssumption DEF AppendToFile, Session, Handle, CanDraw
<1>2. access[h] \in Access /\ access[h].mailbox \in Id
  BY <1>1, Typed DEF AppendToFile, Access
<1>3. box \in MailboxNode /\ box.fileKey \in Id /\ box.inode \in Id
  BY <1>2, Typed DEF AppendToFile, Opens, MailboxNode
<1>4. node \in SealedInode /\ node.plain \in Seq(Id)
  BY <1>3, Typed DEF AppendToFile, Opens, decryptAndVerify, SealedInode
<1>5. inode' \in [Id -> SealedInode \cup {None}]
  <2>1. node.plain \o NewBlocks(next, n) \in Seq(Id)
    BY <1>1, <1>4, NewBlocksProperties, IdsOfConcat
  <2>2. encryptAndMAC(node.plain \o NewBlocks(next, n), box.fileKey) \in SealedInode
    BY <1>3, <2>1 DEF encryptAndMAC, SealedInode
  <2>3. inode' = [inode EXCEPT ![box.inode] =
                     encryptAndMAC(node.plain \o NewBlocks(next, n), box.fileKey)]
    BY DEF AppendToFile
  <2> QED
    BY <2>2, <2>3 DEF TypeOK
<1>6. block' \in [Id -> SealedBlock \cup {None}]
  BY <1>1, <1>3, WriteBlocksType DEF TypeOK, AppendToFile
<1>7. next' \in 1 .. MaxId + 1
  <2>1. next' = next + n
    BY DEF AppendToFile
  <2> QED
    BY <1>1, <2>1, BoundsAssumption
<1>8. UNCHANGED <<session, account, access, mailbox, invitation, revoked>>
  BY DEF AppendToFile
<1> QED
  BY <1>5, <1>6, <1>7, <1>8 DEF TypeOK

LEMMA CreateInvitationType ==
    ASSUME TypeOK, NEW c \in Client, NEW f \in Filename, NEW r \in User,
           CreateInvitation(c, f, r)
    PROVE  TypeOK'
<1> DEFINE h == <<session[c].name, f>>
<1>1. /\ session[c] \in Session /\ session[c].name \in User /\ h \in Handle
      /\ next \in Id /\ next + 1 \in Id
      /\ next' \in 1 .. MaxId + 1
  BY Typed, BoundsAssumption DEF CreateInvitation, Session, Handle, CanDraw, Id
<1>2. access[h] \in Access /\ access[h].mailbox \in Id
  BY <1>1, Typed DEF CreateInvitation, Access
<1>3. mailbox' \in [Id -> MailboxNode \cup {None}]
  BY <1>1, <1>2 DEF TypeOK, CreateInvitation
<1>4. CASE account[r] # None
  <2>1. access' \in [Handle -> Access \cup {None}]
    <3>1. access' = [access EXCEPT ![h] = WithChild(access[h], r, next)]
      BY <1>4 DEF CreateInvitation
    <3>2. WithChild(access[h], r, next) \in Access
      BY <1>1, <1>2 DEF WithChild, Access, ChildrenMap
    <3> QED
      BY <1>1, <3>1, <3>2 DEF TypeOK
  <2>2. invitation' \in [Id -> Invitation \cup {None}]
    BY <1>1, <1>4 DEF TypeOK, CreateInvitation, SealedInvitation, Invitation
  <2> QED
    BY <1>1, <1>3, <2>1, <2>2 DEF TypeOK, CreateInvitation
<1>5. CASE account[r] = None
  BY <1>1, <1>3, <1>5 DEF TypeOK, CreateInvitation
<1> QED
  BY <1>4, <1>5

LEMMA AcceptInvitationType ==
    ASSUME TypeOK, NEW c \in Client, NEW s \in User, NEW j \in Id, NEW f \in Filename,
           AcceptInvitation(c, s, j, f)
    PROVE  TypeOK'
<1> DEFINE h == <<session[c].name, f>>
<1>1. session[c] \in Session /\ h \in Handle /\ invitation[j] \in Invitation
  BY Typed DEF AcceptInvitation, Session, Handle
<1>2. /\ session' \in [Client -> Session \cup {None}]
      /\ account' \in [User -> UserRecord \cup {None}]
  BY SaveUserType DEF AcceptInvitation
<1>3. NewRecord(h, invitation[j].mailbox) \in Access
  BY <1>1 DEF NewRecord, NoChildren, Access, ChildrenMap, Invitation
<1>4. access' = [access EXCEPT ![h] = NewRecord(h, invitation[j].mailbox)]
  BY DEF AcceptInvitation
<1>5. access' \in [Handle -> Access \cup {None}]
  BY <1>1, <1>3, <1>4 DEF TypeOK
<1> QED
  BY <1>2, <1>5 DEF TypeOK, AcceptInvitation

LEMMA RevokeAccessType ==
    ASSUME TypeOK, NEW c \in Client, NEW f \in Filename, NEW r \in User,
           RevokeAccess(c, f, r)
    PROVE  TypeOK'
<1> DEFINE h == <<session[c].name, f>>
           box == mailbox[access[h].mailbox]
           node == inode[box.inode]
<1>1. /\ session[c] \in Session /\ h \in Handle
      /\ next \in Id /\ next + 1 \in Id
      /\ next' \in 1 .. MaxId + 1
  <2>1. session[c] \in Session /\ CanDraw(2) /\ next' = next + 2
    BY Typed DEF RevokeAccess
  <2> QED
    BY <2>1, Typed, BoundsAssumption DEF Session, Handle, CanDraw, Id
<1>2. access[h] \in Access /\ access[h].mailbox \in Id /\ access[h].children \in ChildrenMap
  BY <1>1, Typed DEF RevokeAccess, Access
<1>3. box \in MailboxNode /\ box.inode \in Id
  BY <1>2, Typed DEF RevokeAccess, Opens, MailboxNode
<1>4. node \in SealedInode /\ node.plain \in Seq(Id) /\ Range(node.plain) \subseteq Id
  BY <1>3, Typed, IdsOfSeq DEF RevokeAccess, Opens, decryptAndVerify, SealedInode
<1>5. /\ session' \in [Client -> Session \cup {None}]
      /\ account' \in [User -> UserRecord \cup {None}]
  BY SaveUserType DEF RevokeAccess
<1>6. block' \in [Id -> SealedBlock \cup {None}]
  <2>1. \A b \in Range(node.plain) : block[b] \in SealedBlock
    BY <1>4, Typed DEF RevokeAccess, BlocksOpen, decryptAndVerify
  <2>2. \A b \in Range(node.plain) : encryptAndMAC(block[b].plain, next) \in SealedBlock
    BY <1>1, <2>1 DEF encryptAndMAC, SealedBlock
  <2>3. block' = Reencrypt(node.plain, next)
    BY DEF RevokeAccess
  <2> QED
    BY <2>2, <2>3 DEF TypeOK, Reencrypt
<1>7. inode' \in [Id -> SealedInode \cup {None}]
  <2>1. encryptAndMAC(node.plain, next) \in SealedInode
    BY <1>1, <1>4 DEF encryptAndMAC, SealedInode
  <2> QED
    BY <1>3, <2>1 DEF TypeOK, RevokeAccess
<1>8. mailbox' \in [Id -> MailboxNode \cup {None}]
  <2>1. [fileKey |-> next, inode |-> box.inode] \in MailboxNode
    BY <1>1, <1>3 DEF MailboxNode
  <2>2. ASSUME NEW m \in Id, m \in Kept(h, r)
        PROVE  [fileKey |-> next, inode |-> mailbox[m].inode] \in MailboxNode
    <3>1. mailbox[m] \in MailboxNode
      BY <2>2, Typed DEF RevokeAccess
    <3> QED
      BY <1>1, <3>1 DEF MailboxNode
  <2> QED
    BY <2>1, <2>2 DEF TypeOK, RevokeAccess
<1>9. access' \in [Handle -> Access \cup {None}]
  BY <1>1, <1>2 DEF TypeOK, RevokeAccess, WithoutChild, Access, ChildrenMap
<1>10. revoked' \subseteq Id
  BY <1>2 DEF TypeOK, RevokeAccess, ChildrenMap
<1> QED
  BY <1>1, <1>5, <1>6, <1>7, <1>8, <1>9, <1>10 DEF TypeOK, RevokeAccess

\* Every step of the services keeps the types.
LEMMA TypeStep ==
    ASSUME TypeOK, [Next]_vars
    PROVE  TypeOK'
<1>1. ASSUME NEW c \in Client, NEW u \in User, InitUser(c, u)
      PROVE  TypeOK'
  BY <1>1 DEF TypeOK, InitUser, Session, UserRecord
<1>2. ASSUME NEW c \in Client, NEW u \in User, GetUser(c, u)
      PROVE  TypeOK'
  <2>1. account[u] \in UserRecord
    BY <1>2, Typed DEF GetUser
  <2> QED
    BY <1>2, <2>1 DEF TypeOK, GetUser, Session, UserRecord
<1>3. CASE UNCHANGED vars
  BY <1>3 DEF TypeOK, vars
<1> QED
  BY <1>1, <1>2, <1>3, StoreFileType, AppendToFileType, CreateInvitationType,
     AcceptInvitationType, RevokeAccessType DEF Next

\* Type correctness of the whole store, of the sessions and of the history: no
\* operation of the services writes an object of the wrong kind, re-encrypts a
\* block that is not there or draws a number beyond the bound.
THEOREM TypeCorrect == Spec => []TypeOK
<1>1. Init => TypeOK
  BY BoundsAssumption DEF Init, TypeOK
<1>2. TypeOK /\ [Next]_vars => TypeOK'
  BY TypeStep
<1> QED
  BY <1>1, <1>2, PTL DEF Spec

(***************************************************************************)
(* The sharing tree.                                                        *)
(***************************************************************************)
\* What is stored is not under a number yet to be drawn.
LEMMA StoredIsDrawn ==
    ASSUME TypeOK, FreshUnused
    PROVE  /\ \A m \in Id : mailbox[m] # None => m < next
           /\ \A i \in Id : inode[i] # None => i < next
           /\ \A b \in Id : block[b] # None => b < next
  BY BoundsAssumption DEF TypeOK, FreshUnused, Id

\* Writing new blocks touches only the numbers drawn for them.
LEMMA WriteBlocksElsewhere ==
    ASSUME NEW first \in Nat \ {0}, NEW content \in Content, NEW k \in Id
    PROVE  \A b \in Id : b >= first + Len(content) \/ b < first =>
               WriteBlocks(first, content, k)[b] = block[b]
<1>1. Len(content) \in Nat
  BY ContentIsSeq
<1> QED
  BY <1>1 DEF WriteBlocks, Id

\* A sealed inode is an object, not the absence of one.
LEMMA SealedIsStored ==
    ASSUME NEW data \in Seq(Id), NEW k \in Id
    PROVE  encryptAndMAC(data, k) # None /\ encryptAndMAC(data, k).key = k
  BY NoneAssumption DEF encryptAndMAC, SealedInode

\* What the invariant says about the mailboxes a record knows of.
LEMMA RecordFacts ==
    ASSUME TypeOK, TreeInv
    PROVE  \A g \in Handle : access[g] # None =>
              /\ access[g].mailbox \in Id
              /\ mailbox[access[g].mailbox] # None
              /\ \A u \in User : access[g].children[u] # None =>
                    /\ access[g].children[u] \in Id
                    /\ mailbox[access[g].children[u]] # None
  BY Typed DEF TreeInv, NoDanglingReference, Access, ChildrenMap

\* StoreFile writes a record without children, a new mailbox, a new inode.
LEMMA StoreFileTree ==
    ASSUME TypeOK, TreeInv, NEW c \in Client, NEW f \in Filename, NEW content \in Content,
           StoreFile(c, f, content)
    PROVE  TreeInv'
<1> DEFINE h == <<session[c].name, f>>
           k == next
           i == next + 1
           m == next + 2
           n == Len(content)
           ids == NewBlocks(next + 3, n)
<1>1. /\ h \in Handle /\ n \in Nat /\ next \in Nat \ {0} /\ next + 3 + n <= MaxId + 1
      /\ k \in Id /\ i \in Id /\ m \in Id
  <2>1. session[c] # None /\ next + (3 + n) <= MaxId + 1
    BY DEF StoreFile, CanDraw
  <2>2. h \in Handle
    BY <2>1, Typed DEF Session, Handle
  <2>3. n \in Nat /\ next \in Nat \ {0}
    BY Typed, ContentIsSeq
  <2> QED
    BY <2>1, <2>2, <2>3, BoundsAssumption DEF Id
<1>2. /\ mailbox' = [mailbox EXCEPT ![m] = [fileKey |-> k, inode |-> i]]
      /\ access' = [access EXCEPT ![h] = [mailbox |-> m, children |-> [u \in User |-> None]]]
      /\ inode' = [inode EXCEPT ![i] = encryptAndMAC(ids, k)]
      /\ block' = WriteBlocks(next + 3, content, k)
      /\ next' = next + 3 + n
      /\ UNCHANGED <<invitation, revoked>>
  BY DEF StoreFile, NewRecord, NoChildren
<1>3. mailbox[m] = None /\ inode[i] = None
  BY <1>1 DEF TreeInv, FreshUnused
<1>4. inode'[i] # None /\ inode'[i].key = k
  <2>1. ids \in Seq(Id)
    BY <1>1, NewBlocksProperties
  <2> QED
    BY <1>1, <1>2, <2>1, SealedIsStored DEF TypeOK
<1>5. \A x \in Id : mailbox[x] # None =>
         /\ mailbox'[x] = mailbox[x]
         /\ mailbox[x].inode \in Id
         /\ inode[mailbox[x].inode] # None
         /\ inode'[mailbox[x].inode] = inode[mailbox[x].inode]
  BY <1>1, <1>2, <1>3, Typed DEF TreeInv, NoDanglingReference, TypeOK, MailboxNode
<1>6. \A x \in Id : mailbox[x] # None => (Opens(x)' <=> Opens(x))
  BY <1>5 DEF Opens, decryptAndVerify
<1>7. /\ access'[h].mailbox = m
      /\ \A u \in User : access'[h].children[u] = None
      /\ \A g \in Handle : g # h => access'[g] = access[g]
      /\ mailbox'[m] # None /\ mailbox'[m].fileKey = k /\ mailbox'[m].inode = i
  BY <1>1, <1>2, NoneAssumption DEF TypeOK, MailboxNode
<1>8. \A g \in Handle : access[g] # None =>
         /\ access[g].mailbox \in Id
         /\ mailbox[access[g].mailbox] # None
         /\ \A u \in User : access[g].children[u] # None =>
               /\ access[g].children[u] \in Id
               /\ mailbox[access[g].children[u]] # None
  BY RecordFacts
<1>9. FreshUnused'
  <2>1. ASSUME NEW x \in Id, x >= next' PROVE mailbox'[x] = None /\ inode'[x] = None
    BY <1>1, <1>2, <2>1 DEF TreeInv, FreshUnused, TypeOK, Id
  <2>2. ASSUME NEW x \in Id, x >= next' PROVE block'[x] = None
    <3>1. block'[x] = block[x]
      BY <1>1, <1>2, <2>2, WriteBlocksElsewhere
    <3> QED
      BY <1>1, <1>2, <2>2, <3>1 DEF TreeInv, FreshUnused, Id
  <2> QED
    BY <2>1, <2>2 DEF FreshUnused
<1>10. NoDanglingReference'
  <2>1. \A x \in Id : mailbox'[x] # None =>
           inode'[mailbox'[x].inode] # None /\ mailbox'[x].fileKey < next'
    <3> TAKE x \in Id
    <3>1. CASE x = m
      BY <1>1, <1>2, <1>4, <1>7, <3>1
    <3>2. CASE x # m
      <4>1. mailbox'[x] = mailbox[x]
        BY <1>2, <3>2 DEF TypeOK
      <4>2. mailbox[x] # None => mailbox[x].fileKey \in Id /\ mailbox[x].fileKey < next
        BY Typed DEF TreeInv, NoDanglingReference, MailboxNode
      <4> QED
        BY <1>1, <1>2, <1>5, <4>1, <4>2 DEF Id
    <3> QED
      BY <3>1, <3>2
  <2>2. \A x \in Id : inode'[x] # None => inode'[x].key < next'
    <3> TAKE x \in Id
    <3>1. CASE x = i
      BY <1>1, <1>2, <1>4, <3>1
    <3>2. CASE x # i
      <4>1. inode'[x] = inode[x]
        BY <1>2, <3>2 DEF TypeOK
      <4>2. inode[x] # None => inode[x].key \in Id /\ inode[x].key < next
        BY Typed DEF TreeInv, NoDanglingReference, SealedInode
      <4> QED
        BY <1>1, <1>2, <4>1, <4>2 DEF Id
    <3> QED
      BY <3>1, <3>2
  <2>3. \A g \in Handle : access'[g] # None =>
          /\ mailbox'[access'[g].mailbox] # None
          /\ \A u \in User : access'[g].children[u] # None =>
                mailbox'[access'[g].children[u]] # None
    BY <1>5, <1>7, <1>8
  <2>4. \A j \in Id : invitation'[j] # None => mailbox'[invitation'[j].mailbox] # None
    BY <1>2, <1>5, Typed DEF TreeInv, NoDanglingReference, Invitation
  <2>5. \A x \in revoked' : mailbox'[x] # None
    BY <1>2, <1>5 DEF TreeInv, NoDanglingReference, TypeOK
  <2> QED
    BY <2>1, <2>2, <2>3, <2>4, <2>5 DEF NoDanglingReference
<1>11. OneParent'
  BY <1>7 DEF TreeInv, OneParent
<1>12. ChildrenShareTheFile'
  BY <1>5, <1>7, <1>8 DEF TreeInv, ChildrenShareTheFile
<1>13. RevokedUnlinked'
  BY <1>2, <1>7, NoneAssumption DEF TreeInv, RevokedUnlinked, TypeOK
<1>14. RevokedNeverReopens'
  BY <1>2, <1>6 DEF TreeInv, RevokedNeverReopens, NoDanglingReference, TypeOK
<1>15. AccessFlowsDown'
  BY <1>6, <1>7, <1>8 DEF TreeInv, AccessFlowsDown
<1> QED
  BY <1>9, <1>10, <1>11, <1>12, <1>13, <1>14, <1>15 DEF TreeInv

\* AppendToFile rewrites one inode under the key it already has.
LEMMA AppendToFileTree ==
    ASSUME TypeOK, TreeInv, NEW c \in Client, NEW f \in Filename, NEW content \in Content,
           AppendToFile(c, f, content)
    PROVE  TreeInv'
<1> DEFINE h == <<session[c].name, f>>
           box == mailbox[access[h].mailbox]
           i == box.inode
           n == Len(content)
           ids == inode[i].plain \o NewBlocks(next, n)
<1>1. /\ h \in Handle /\ n \in Nat /\ next \in Nat \ {0} /\ next + n <= MaxId + 1
      /\ access[h] # None /\ Opens(access[h].mailbox)
  BY Typed, ContentIsSeq DEF AppendToFile, Session, Handle, CanDraw
<1>2. /\ box # None /\ box.fileKey \in Id /\ i \in Id
      /\ inode[i] # None /\ inode[i].key = box.fileKey /\ inode[i].plain \in Seq(Id)
  <2>1. access[h].mailbox \in Id
    BY <1>1, Typed DEF Access
  <2>2. box # None /\ box \in MailboxNode
    BY <1>1, <2>1, Typed DEF Opens
  <2>3. i \in Id /\ box.fileKey \in Id
    BY <2>2 DEF MailboxNode
  <2>4. inode[i] # None /\ inode[i].key = box.fileKey
    BY <1>1 DEF Opens, decryptAndVerify
  <2> QED
    BY <2>2, <2>3, <2>4, Typed DEF SealedInode
<1>3. /\ inode' = [inode EXCEPT ![i] = encryptAndMAC(ids, box.fileKey)]
      /\ block' = WriteBlocks(next, content, box.fileKey)
      /\ next' = next + n
      /\ UNCHANGED <<access, mailbox, invitation, revoked>>
  BY DEF AppendToFile
<1>3a. next \in Nat /\ next' \in Nat /\ next <= next'
  <2>1. next' = next + n
    BY <1>3
  <2> QED
    BY <1>1, <2>1
<1>3b. access' = access /\ mailbox' = mailbox /\ invitation' = invitation /\ revoked' = revoked
  BY <1>3
<1>4. inode'[i] # None /\ inode'[i].key = inode[i].key
  <2>1. ids \in Seq(Id)
    BY <1>1, <1>2, NewBlocksProperties, IdsOfConcat
  <2> QED
    BY <1>2, <1>3, <2>1, SealedIsStored DEF TypeOK
<1>5. \A x \in Id : /\ inode'[x] = None <=> inode[x] = None
                    /\ inode[x] # None => inode'[x].key = inode[x].key
  BY <1>2, <1>3, <1>4 DEF TypeOK
<1>6. \A x \in Id : Opens(x)' <=> Opens(x)
  BY <1>3, <1>5, Typed DEF Opens, decryptAndVerify, MailboxNode
<1>7. FreshUnused'
  <2>1. ASSUME NEW x \in Id, x >= next' PROVE block'[x] = block[x]
    BY <1>1, <1>2, <1>3, <2>1, WriteBlocksElsewhere
  <2>2. ASSUME NEW x \in Id, x >= next'
        PROVE  mailbox[x] = None /\ inode[x] = None /\ block[x] = None
    <3>1. x >= next
      BY <1>3a, <2>2 DEF Id
    <3> QED
      BY <3>1 DEF TreeInv, FreshUnused
  <2>3. ASSUME NEW x \in Id, x >= next'
        PROVE  mailbox'[x] = None /\ inode'[x] = None /\ block'[x] = None
    <3>1. mailbox'[x] = mailbox[x] /\ (inode[x] = None => inode'[x] = None)
      BY <1>3b, <1>5
    <3> QED
      BY <2>1, <2>2, <2>3, <3>1
  <2> QED
    BY <2>3 DEF FreshUnused
<1>8. NoDanglingReference'
  <2>1. \A x \in Id : mailbox[x] # None =>
           /\ mailbox[x].inode \in Id /\ inode[mailbox[x].inode] # None
           /\ mailbox[x].fileKey \in Id /\ mailbox[x].fileKey < next
    BY Typed DEF TreeInv, NoDanglingReference, MailboxNode
  <2>2. \A x \in Id : inode[x] # None => inode[x].key \in Id /\ inode[x].key < next
    BY Typed DEF TreeInv, NoDanglingReference, SealedInode
  <2>3. \A x \in Id : mailbox'[x] # None =>
           inode'[mailbox'[x].inode] # None /\ mailbox'[x].fileKey < next'
    BY <1>3a, <1>3b, <1>5, <2>1 DEF Id
  <2>4. \A x \in Id : inode'[x] # None => inode'[x].key < next'
    BY <1>3a, <1>5, <2>2 DEF Id
  <2>5. /\ \A g \in Handle : access'[g] # None =>
              /\ mailbox'[access'[g].mailbox] # None
              /\ \A u \in User : access'[g].children[u] # None =>
                    mailbox'[access'[g].children[u]] # None
        /\ \A j \in Id : invitation'[j] # None => mailbox'[invitation'[j].mailbox] # None
        /\ \A x \in revoked' : mailbox'[x] # None
    BY <1>3b DEF TreeInv, NoDanglingReference
  <2> QED
    BY <2>3, <2>4, <2>5 DEF NoDanglingReference
<1>9. OneParent' /\ ChildrenShareTheFile' /\ RevokedUnlinked'
  BY <1>3b DEF TreeInv, OneParent, ChildrenShareTheFile, RevokedUnlinked
<1>10. RevokedNeverReopens'
  BY <1>3b, <1>6 DEF TreeInv, RevokedNeverReopens, TypeOK
<1>11. AccessFlowsDown'
  BY <1>3b, <1>6, RecordFacts DEF TreeInv, AccessFlowsDown
<1> QED
  BY <1>7, <1>8, <1>9, <1>10, <1>11 DEF TreeInv

\* AcceptInvitation writes a record without children and nothing else the
\* invariant is about.
LEMMA AcceptInvitationTree ==
    ASSUME TypeOK, TreeInv, NEW c \in Client, NEW s \in User, NEW j \in Id, NEW f \in Filename,
           AcceptInvitation(c, s, j, f)
    PROVE  TreeInv'
<1> DEFINE h == <<session[c].name, f>>
           m == invitation[j].mailbox
<1>1. h \in Handle /\ m \in Id /\ mailbox[m] # None
  BY Typed DEF AcceptInvitation, Session, Handle, Invitation, TreeInv, NoDanglingReference
<1>2. /\ access' = [access EXCEPT ![h] = [mailbox |-> m, children |-> [u \in User |-> None]]]
      /\ UNCHANGED <<mailbox, inode, block, invitation, revoked, next>>
  BY DEF AcceptInvitation, NewRecord, NoChildren
<1>3. /\ access'[h].mailbox = m
      /\ \A u \in User : access'[h].children[u] = None
      /\ \A g \in Handle : g # h => access'[g] = access[g]
  BY <1>1, <1>2 DEF TypeOK
<1>4. \A x : Opens(x)' <=> Opens(x)
  BY <1>2 DEF Opens, decryptAndVerify
<1>5. FreshUnused' /\ RevokedNeverReopens'
  BY <1>2, <1>4 DEF TreeInv, FreshUnused, RevokedNeverReopens
<1>6. NoDanglingReference'
  BY <1>1, <1>2, <1>3 DEF TreeInv, NoDanglingReference
<1>7. OneParent'
  BY <1>3 DEF TreeInv, OneParent
<1>8. ChildrenShareTheFile'
  BY <1>2, <1>3 DEF TreeInv, ChildrenShareTheFile
<1>9. RevokedUnlinked'
  BY <1>2, <1>3, NoneAssumption DEF TreeInv, RevokedUnlinked, TypeOK
<1>10. AccessFlowsDown'
  BY <1>3, <1>4 DEF TreeInv, AccessFlowsDown
<1> QED
  BY <1>5, <1>6, <1>7, <1>8, <1>9, <1>10 DEF TreeInv

\* CreateInvitation stores a copy of the caller's mailbox under a new number;
\* when the recipient is known, the copy becomes a child of the record.
LEMMA CreateInvitationTree ==
    ASSUME TypeOK, TreeInv, NEW c \in Client, NEW f \in Filename, NEW r \in User,
           CreateInvitation(c, f, r)
    PROVE  TreeInv'
<1> DEFINE h == <<session[c].name, f>>
           own == access[h].mailbox
<1>0. PICK m \in Id : m = next
  BY Typed, BoundsAssumption DEF CreateInvitation, CanDraw, Id
<1>1. /\ h \in Handle /\ next \in Nat \ {0} /\ next' \in Nat /\ next' > next
      /\ access[h] # None /\ access[h].children \in [User -> Id \cup {None}]
      /\ own \in Id /\ mailbox[own] # None /\ own # m
      /\ mailbox[m] = None
  <2>1. /\ h \in Handle /\ next \in Nat \ {0} /\ next' \in Nat /\ next' > next
        /\ access[h] # None /\ mailbox[own] # None
    BY Typed DEF CreateInvitation, Session, Handle
  <2>2. access[h].children \in [User -> Id \cup {None}] /\ own \in Id
    BY <2>1, Typed DEF Access, ChildrenMap
  <2>3. mailbox[m] = None
    BY <1>0, <2>1 DEF TreeInv, FreshUnused
  <2> QED
    BY <2>1, <2>2, <2>3
<1>2. /\ mailbox' = [mailbox EXCEPT ![m] = mailbox[own]]
      /\ UNCHANGED <<inode, block, revoked>>
  BY <1>0 DEF CreateInvitation
<1>3. /\ \A x \in Id : x # m => mailbox'[x] = mailbox[x]
      /\ mailbox'[m] = mailbox[own]
  BY <1>1, <1>2 DEF TypeOK
<1>4. /\ \A x \in Id : x # m => (Opens(x)' <=> Opens(x))
      /\ Opens(m)' <=> Opens(own)
  BY <1>2, <1>3 DEF Opens, decryptAndVerify
<1>5. FreshUnused'
  BY <1>0, <1>1, <1>2, <1>3 DEF TreeInv, FreshUnused, Id
<1>6. RevokedNeverReopens'
  BY <1>1, <1>2, <1>4 DEF TreeInv, RevokedNeverReopens, NoDanglingReference, TypeOK
<1>7. /\ \A x \in Id : mailbox'[x] # None =>
             inode'[mailbox'[x].inode] # None /\ mailbox'[x].fileKey < next'
      /\ \A x \in Id : inode'[x] # None => inode'[x].key < next'
      /\ \A x \in revoked' : mailbox'[x] # None
  <2>1. \A x \in Id : mailbox[x] # None =>
           /\ mailbox[x].fileKey \in Id /\ mailbox[x].fileKey < next
           /\ inode[mailbox[x].inode] # None
    BY Typed DEF TreeInv, NoDanglingReference, MailboxNode
  <2>2. \A x \in Id : inode[x] # None => inode[x].key \in Id /\ inode[x].key < next
    BY Typed DEF TreeInv, NoDanglingReference, SealedInode
  <2>3. \A x \in revoked : x \in Id /\ mailbox[x] # None
    BY DEF TreeInv, NoDanglingReference, TypeOK
  <2>4. ASSUME NEW x \in Id, mailbox'[x] # None
        PROVE  inode'[mailbox'[x].inode] # None /\ mailbox'[x].fileKey < next'
    <3>1. CASE x = m
      BY <1>1, <1>2, <1>3, <2>1, <3>1 DEF Id
    <3>2. CASE x # m
      BY <1>1, <1>2, <1>3, <2>1, <2>4, <3>2 DEF Id
    <3> QED
      BY <3>1, <3>2
  <2>5. \A x \in Id : inode'[x] # None => inode'[x].key < next'
    BY <1>1, <1>2, <2>2 DEF Id
  <2>6. \A x \in revoked' : mailbox'[x] # None
    BY <1>1, <1>2, <1>3, <2>3
  <2> QED
    BY <2>4, <2>5, <2>6
<1>8. \A g \in Handle : access[g] # None =>
         /\ access[g].mailbox \in Id /\ access[g].mailbox # m
         /\ mailbox'[access[g].mailbox] # None
         /\ \A u \in User : access[g].children[u] # None =>
               /\ access[g].children[u] \in Id /\ access[g].children[u] # m
               /\ mailbox'[access[g].children[u]] # None
  BY <1>1, <1>3, RecordFacts
<1>9. CASE account[r] = None
  <2>1. UNCHANGED <<access, invitation>>
    BY <1>9 DEF CreateInvitation
  <2>2. NoDanglingReference'
    BY <1>1, <1>3, <1>7, <1>8, <2>1, Typed DEF TreeInv, NoDanglingReference, Invitation
  <2>3. OneParent' /\ RevokedUnlinked'
    BY <1>2, <2>1 DEF TreeInv, OneParent, RevokedUnlinked
  <2>4. ChildrenShareTheFile' /\ AccessFlowsDown'
    BY <1>3, <1>4, <1>8, <2>1 DEF TreeInv, ChildrenShareTheFile, AccessFlowsDown
  <2> QED
    BY <1>5, <1>6, <2>2, <2>3, <2>4 DEF TreeInv
<1>10. CASE account[r] # None
  <2>1. access' = [access EXCEPT ![h] = WithChild(access[h], r, m)]
    BY <1>0, <1>10 DEF CreateInvitation
  <2>2. /\ access'[h] # None
        /\ access'[h].mailbox = own
        /\ access'[h].children[r] = m
        /\ \A u \in User : u # r => access'[h].children[u] = access[h].children[u]
        /\ \A g \in Handle : g # h => access'[g] = access[g]
    <3>1. WithChild(access[h], r, m) \in Access
      BY <1>1 DEF WithChild, Access, ChildrenMap
    <3>2. WithChild(access[h], r, m) # None
      BY <3>1, NoneAssumption
    <3>3. access'[h] = WithChild(access[h], r, m)
      BY <1>1, <2>1 DEF TypeOK
    <3> QED
      BY <1>1, <2>1, <3>2, <3>3 DEF TypeOK, WithChild
  <2>3. \A j \in Id : invitation'[j] # None => mailbox'[invitation'[j].mailbox] # None
    <3>1. invitation' = [invitation EXCEPT ![next + 1] =
             [from |-> session[c].name, name |-> f, to |-> r, mailbox |-> m]]
      BY <1>0, <1>10 DEF CreateInvitation, SealedInvitation
    <3>2. \A j \in Id : invitation[j] # None =>
             invitation[j].mailbox \in Id /\ mailbox[invitation[j].mailbox] # None
      BY Typed DEF TreeInv, NoDanglingReference, Invitation
    <3>3. ASSUME NEW j \in Id, invitation'[j] # None
          PROVE  mailbox'[invitation'[j].mailbox] # None
      <4>1. CASE j = next + 1
        <5>1. invitation'[j].mailbox = m
          BY <3>1, <4>1 DEF TypeOK
        <5> QED
          BY <1>1, <1>3, <5>1
      <4>2. CASE j # next + 1
        <5>1. invitation'[j] = invitation[j]
          BY <3>1, <4>2 DEF TypeOK
        <5> QED
          BY <1>1, <1>3, <3>2, <3>3, <5>1
      <4> QED
        BY <4>1, <4>2
    <3> QED
      BY <3>3
  <2>4. NoDanglingReference'
    <3>1. \A g \in Handle : access'[g] # None =>
            /\ mailbox'[access'[g].mailbox] # None
            /\ \A u \in User : access'[g].children[u] # None =>
                  mailbox'[access'[g].children[u]] # None
      BY <1>1, <1>3, <1>8, <2>2
    <3> QED
      BY <1>7, <2>3, <3>1 DEF NoDanglingReference
  <2>5. OneParent'
    \* An entry is the new one, at h and r, or an old one: different from m, and
    \* in its place before the step.
    <3>1. ASSUME NEW g \in Handle, access'[g] # None, NEW u \in User, access'[g].children[u] # None
          PROVE  \/ g = h /\ u = r /\ access'[g].children[u] = m
                 \/ /\ access[g] # None /\ access'[g].children[u] # m
                    /\ access'[g].children[u] = access[g].children[u]
      <4>1. CASE g = h
        BY <1>1, <1>8, <2>2, <3>1, <4>1
      <4>2. CASE g # h
        BY <1>8, <2>2, <3>1, <4>2
      <4> QED
        BY <4>1, <4>2
    <3>2. ASSUME NEW g \in Handle, NEW e \in Handle, access'[g] # None, access'[e] # None,
                 NEW u \in User, NEW v \in User, access'[g].children[u] # None,
                 access'[g].children[u] = access'[e].children[v]
          PROVE  g = e /\ u = v
      BY <3>1, <3>2 DEF TreeInv, OneParent
    <3> QED
      BY <3>2 DEF OneParent
  <2>6. ChildrenShareTheFile'
    <3>1. ASSUME NEW u \in User, access'[h].children[u] # None
          PROVE  mailbox'[access'[h].children[u]].inode = mailbox'[access'[h].mailbox].inode
      <4>1. CASE u = r
        BY <1>1, <1>3, <2>2, <4>1
      <4>2. CASE u # r
        <5>1. access'[h].children[u] = access[h].children[u]
          BY <2>2, <4>2
        <5>2. mailbox[access[h].children[u]].inode = mailbox[own].inode
          BY <1>1, <3>1, <5>1 DEF TreeInv, ChildrenShareTheFile
        <5>3. access[h].children[u] \in Id /\ access[h].children[u] # m
          BY <1>1, <1>8, <3>1, <5>1
        <5>4. /\ mailbox'[access[h].children[u]] = mailbox[access[h].children[u]]
              /\ mailbox'[own] = mailbox[own]
          BY <1>1, <1>3, <5>3
        <5>5. access'[h].mailbox = own
          BY <2>2
        <5> QED
          BY <5>1, <5>2, <5>4, <5>5
      <4> QED
        BY <4>1, <4>2
    <3>2. ASSUME NEW g \in Handle, g # h, access'[g] # None,
                 NEW u \in User, access'[g].children[u] # None
          PROVE  mailbox'[access'[g].children[u]].inode = mailbox'[access'[g].mailbox].inode
      BY <1>3, <1>8, <2>2, <3>2 DEF TreeInv, ChildrenShareTheFile
    <3> QED
      BY <3>1, <3>2 DEF ChildrenShareTheFile
  <2>7. RevokedUnlinked'
    <3>1. m \notin revoked
      BY <1>1 DEF TreeInv, NoDanglingReference
    <3> QED
      BY <1>1, <1>2, <2>2, <3>1 DEF TreeInv, RevokedUnlinked
  <2>8. AccessFlowsDown'
    BY <1>1, <1>4, <1>8, <2>2 DEF TreeInv, AccessFlowsDown
  <2> QED
    BY <1>5, <1>6, <2>4, <2>5, <2>6, <2>7, <2>8 DEF TreeInv
<1> QED
  BY <1>9, <1>10

\* RevokeAccess: after the step the file is opened by the caller's new mailbox
\* and by the mailboxes of the children it keeps, and by no other.
LEMMA RevokeAccessTree ==
    ASSUME TypeOK, TreeInv, NEW c \in Client, NEW f \in Filename, NEW r \in User,
           RevokeAccess(c, f, r)
    PROVE  TreeInv'
<1>1. PICK h \in Handle : h = <<session[c].name, f>>
  BY Typed DEF RevokeAccess, Session, Handle
<1>0. next \in Id /\ next + 1 \in Id
  <2>1. CanDraw(2)
    BY DEF RevokeAccess
  <2> QED
    BY <2>1, Typed, BoundsAssumption DEF CanDraw, Id
<1>2. PICK k \in Id : k = next
  BY <1>0
<1>3. PICK m \in Id : m = next + 1
  BY <1>0
<1>4. /\ access[h] # None /\ access[h].mailbox \in Id /\ access[h].children \in ChildrenMap
      /\ mailbox[access[h].mailbox] # None /\ mailbox[access[h].mailbox].inode \in Id
  <2>1. access[h] # None
    BY <1>1 DEF RevokeAccess
  <2>2. access[h].mailbox \in Id /\ access[h].children \in ChildrenMap
    BY <2>1, Typed DEF Access
  <2>3. mailbox[access[h].mailbox] # None
    BY <1>1 DEF RevokeAccess, Opens
  <2> QED
    BY <2>1, <2>2, <2>3, Typed DEF MailboxNode
<1>5. PICK i \in Id : i = mailbox[access[h].mailbox].inode
  BY <1>4
<1> DEFINE S == Kept(h, r)
<1>6. inode[i] # None /\ inode[i].plain \in Seq(Id)
  <2>1. inode[i] # None
    BY <1>1, <1>5 DEF RevokeAccess, Opens, decryptAndVerify
  <2> QED
    BY <2>1, Typed DEF SealedInode
<1>7. /\ inode' = [inode EXCEPT ![i] = encryptAndMAC(inode[i].plain, k)]
      /\ block' = Reencrypt(inode[i].plain, k)
      /\ mailbox' = [x \in Id |->
            IF x = m THEN [fileKey |-> k, inode |-> i]
            ELSE IF x \in S THEN [fileKey |-> k, inode |-> mailbox[x].inode]
            ELSE mailbox[x]]
      /\ access' = [access EXCEPT ![h] = WithoutChild(access[h], r, m)]
      /\ revoked' = revoked \cup ({access[h].children[r]} \ {None})
      /\ next' = next + 2
      /\ UNCHANGED invitation
  BY <1>1, <1>2, <1>3, <1>5 DEF RevokeAccess
<1>8. /\ next \in Nat \ {0}
      /\ mailbox[m] = None /\ inode[k] = None
  BY <1>2, <1>3, Typed DEF TreeInv, FreshUnused
<1>9. \A x : x \in S <=> x # None /\ \E u \in User : u # r /\ x = access[h].children[u]
  BY DEF Kept
<1>10. \A x \in S : x \in Id /\ x # m /\ mailbox[x] # None /\ mailbox[x].inode = i
  BY <1>4, <1>5, <1>8, <1>9, RecordFacts DEF TreeInv, ChildrenShareTheFile
<1>11. /\ mailbox'[m] # None /\ mailbox'[m].fileKey = k /\ mailbox'[m].inode = i
       /\ \A x \in S : mailbox'[x] # None /\ mailbox'[x].fileKey = k /\ mailbox'[x].inode = i
       /\ \A x \in Id : x # m /\ x \notin S => mailbox'[x] = mailbox[x]
  <2>1. [fileKey |-> k, inode |-> i] # None
    BY NoneAssumption DEF MailboxNode
  <2>2. mailbox'[m] = [fileKey |-> k, inode |-> i]
    BY <1>7
  <2>3. \A x \in S : mailbox'[x] = [fileKey |-> k, inode |-> i]
    BY <1>7, <1>10
  <2>4. \A x \in Id : x # m /\ x \notin S => mailbox'[x] = mailbox[x]
    BY <1>7
  <2>5. mailbox'[m] # None /\ mailbox'[m].fileKey = k /\ mailbox'[m].inode = i
    BY <2>1, <2>2
  <2>6. \A x \in S : mailbox'[x] # None /\ mailbox'[x].fileKey = k /\ mailbox'[x].inode = i
    BY <2>1, <2>3
  <2> QED
    BY <2>4, <2>5, <2>6
<1>12. /\ inode'[i] # None /\ inode'[i].key = k
       /\ \A x \in Id : x # i => inode'[x] = inode[x]
  BY <1>6, <1>7, SealedIsStored DEF TypeOK
<1>13. \A x \in Id : mailbox[x] # None =>
          /\ x # m
          /\ mailbox[x].fileKey \in Id /\ mailbox[x].fileKey < k
          /\ mailbox[x].inode \in Id /\ inode[mailbox[x].inode] # None
          /\ mailbox'[x] # None /\ mailbox'[x].inode = mailbox[x].inode
  <2>1. \A x \in Id : mailbox[x] # None =>
          /\ mailbox[x].fileKey \in Id /\ mailbox[x].inode \in Id
          /\ mailbox[x].fileKey < next /\ inode[mailbox[x].inode] # None
    BY Typed DEF MailboxNode, TreeInv, NoDanglingReference
  <2> QED
    BY <1>2, <1>8, <1>10, <1>11, <2>1
<1>14. \A x \in Id : mailbox[x] # None /\ mailbox[x].inode = i => (Opens(x)' <=> x \in S)
  <2>1. ASSUME NEW x \in Id, mailbox[x] # None, mailbox[x].inode = i, x \in S
        PROVE  Opens(x)'
    BY <1>11, <1>12, <2>1 DEF Opens, decryptAndVerify
  <2>2. ASSUME NEW x \in Id, mailbox[x] # None, mailbox[x].inode = i, x \notin S
        PROVE  ~Opens(x)'
    <3>1. mailbox'[x] = mailbox[x] /\ mailbox[x].fileKey # k
      BY <1>11, <1>13, <2>2 DEF Id
    <3> QED
      BY <1>12, <2>2, <3>1 DEF Opens, decryptAndVerify
  <2> QED
    BY <2>1, <2>2
<1>15. \A x \in Id : mailbox[x] # None /\ mailbox[x].inode # i => (Opens(x)' <=> Opens(x))
  <2>1. ASSUME NEW x \in Id, mailbox[x] # None, mailbox[x].inode # i
        PROVE  mailbox'[x] = mailbox[x] /\ inode'[mailbox[x].inode] = inode[mailbox[x].inode]
    BY <1>10, <1>11, <1>12, <1>13, <2>1
  <2> QED
    BY <2>1 DEF Opens, decryptAndVerify
<1>16. Opens(m)'
  BY <1>11, <1>12 DEF Opens, decryptAndVerify
<1>17. /\ access'[h].mailbox = m
       /\ access'[h].children[r] = None
       /\ \A u \in User : u # r => access'[h].children[u] = access[h].children[u]
       /\ \A g \in Handle : g # h => access'[g] = access[g]
  BY <1>4, <1>7 DEF TypeOK, WithoutChild, ChildrenMap
<1>18. \A g \in Handle, u \in User :
          g # h /\ access[g] # None /\ access[g].children[u] # None =>
              access[g].children[u] \notin S /\ access[g].children[u] # access[h].children[r]
  BY <1>4, <1>9 DEF TreeInv, OneParent
<1>19. access[h].children[r] \notin S
  BY <1>4, <1>9 DEF TreeInv, OneParent
<1>20. FreshUnused'
  <2>1. ASSUME NEW x \in Id, x >= next'
        PROVE  mailbox'[x] = None /\ inode'[x] = None /\ block'[x] = None
    <3>1. x \in Nat /\ x > m /\ x >= next
      BY <1>3, <1>7, <1>8, <2>1 DEF Id
    <3>2. mailbox[x] = None /\ inode[x] = None /\ block[x] = None
      BY <3>1 DEF TreeInv, FreshUnused
    <3>3. x # i /\ x # m /\ x \notin S
      BY <1>6, <1>10, <3>1, <3>2 DEF Id
    <3>4. x \notin Range(inode[i].plain)
      BY <1>1, <1>5, <3>2 DEF RevokeAccess, BlocksOpen, decryptAndVerify
    <3>5. block'[x] = block[x]
      BY <1>7, <3>4 DEF Reencrypt
    <3> QED
      BY <1>11, <1>12, <3>2, <3>3, <3>5
  <2> QED
    BY <2>1 DEF FreshUnused
<1>21. NoDanglingReference'
  <2>1. \A x \in Id : mailbox'[x] # None =>
           inode'[mailbox'[x].inode] # None /\ mailbox'[x].fileKey < next'
    <3> SUFFICES ASSUME NEW x \in Id, mailbox'[x] # None
                 PROVE  inode'[mailbox'[x].inode] # None /\ mailbox'[x].fileKey < next'
      OBVIOUS
    <3>1. CASE x = m \/ x \in S
      BY <1>2, <1>7, <1>8, <1>11, <1>12, <3>1
    <3>2. CASE x # m /\ x \notin S
      <4>1. mailbox'[x] = mailbox[x] /\ mailbox[x] # None
        BY <1>11, <3>2
      <4>2. inode'[mailbox[x].inode] # None
        BY <1>12, <1>13, <4>1
      <4>3. mailbox[x].fileKey < next'
        BY <1>2, <1>7, <1>8, <1>13, <4>1 DEF Id
      <4> QED
        BY <4>1, <4>2, <4>3
    <3> QED
      BY <3>1, <3>2
  <2>2. \A x \in Id : inode'[x] # None => inode'[x].key < next'
    <3>1. \A x \in Id : inode[x] # None => inode[x].key \in Id /\ inode[x].key < next
      BY Typed DEF SealedInode, TreeInv, NoDanglingReference
    <3>2. next' = next + 2 /\ inode'[i].key = next
      BY <1>2, <1>7, <1>12
    <3> QED
      BY <1>8, <1>12, <3>1, <3>2 DEF Id
  <2>3. \A g \in Handle : access'[g] # None =>
          /\ mailbox'[access'[g].mailbox] # None
          /\ \A u \in User : access'[g].children[u] # None =>
                mailbox'[access'[g].children[u]] # None
    <3> SUFFICES ASSUME NEW g \in Handle, access'[g] # None
                 PROVE  /\ mailbox'[access'[g].mailbox] # None
                        /\ \A u \in User : access'[g].children[u] # None =>
                              mailbox'[access'[g].children[u]] # None
      OBVIOUS
    <3>1. CASE g = h
      BY <1>4, <1>11, <1>13, <1>17, <3>1, RecordFacts
    <3>2. CASE g # h
      BY <1>13, <1>17, <3>2, RecordFacts
    <3> QED
      BY <3>1, <3>2
  <2>4. \A j \in Id : invitation'[j] # None => mailbox'[invitation'[j].mailbox] # None
    <3>1. \A j \in Id : invitation[j] # None =>
             invitation[j].mailbox \in Id /\ mailbox[invitation[j].mailbox] # None
      BY Typed DEF TreeInv, NoDanglingReference, Invitation
    <3> QED
      BY <1>7, <1>13, <3>1
  <2>5. \A x \in revoked' : mailbox'[x] # None
    <3>1. \A x \in revoked : x \in Id /\ mailbox[x] # None
      BY DEF TreeInv, NoDanglingReference, TypeOK
    <3>2. access[h].children[r] # None =>
             access[h].children[r] \in Id /\ mailbox[access[h].children[r]] # None
      BY <1>4, RecordFacts
    <3> QED
      BY <1>7, <1>13, <3>1, <3>2
  <2> QED
    BY <2>1, <2>2, <2>3, <2>4, <2>5 DEF NoDanglingReference
<1>22. OneParent'
  BY <1>4, <1>17 DEF TreeInv, OneParent
<1>23. ChildrenShareTheFile'
  <2> SUFFICES ASSUME NEW g \in Handle, access'[g] # None,
                      NEW u \in User, access'[g].children[u] # None
               PROVE  mailbox'[access'[g].children[u]].inode = mailbox'[access'[g].mailbox].inode
    BY DEF ChildrenShareTheFile
  <2>1. CASE g = h
    BY <1>4, <1>9, <1>11, <1>17, <2>1
  <2>2. CASE g # h
    BY <1>13, <1>17, <2>2, RecordFacts DEF TreeInv, ChildrenShareTheFile
  <2> QED
    BY <2>1, <2>2
<1>24. RevokedUnlinked'
  <2> SUFFICES ASSUME NEW g \in Handle, access'[g] # None, NEW u \in User
               PROVE  access'[g].children[u] \notin revoked'
    BY DEF RevokedUnlinked
  <2>1. None \notin revoked'
    BY <1>7, NoneAssumption DEF TypeOK
  <2>2. CASE g = h
    BY <1>4, <1>7, <1>9, <1>17, <1>19, <2>1, <2>2 DEF TreeInv, RevokedUnlinked
  <2>3. CASE g # h
    BY <1>7, <1>17, <1>18, <2>1, <2>3 DEF TreeInv, RevokedUnlinked
  <2> QED
    BY <2>2, <2>3
<1>25. RevokedNeverReopens'
  <2> SUFFICES ASSUME NEW x \in revoked'
               PROVE  ~Opens(x)'
    BY DEF RevokedNeverReopens
  <2>1. CASE x \in revoked
    <3>1. x \in Id /\ mailbox[x] # None /\ ~Opens(x)
      BY <2>1 DEF TreeInv, NoDanglingReference, RevokedNeverReopens, TypeOK
    <3>2. x \notin S
      BY <1>4, <1>9, <2>1 DEF TreeInv, RevokedUnlinked
    <3> QED
      BY <1>14, <1>15, <3>1, <3>2
  <2>2. CASE x = access[h].children[r] /\ x # None
    <3>1. x \in Id /\ mailbox[x] # None /\ mailbox[x].inode = i
      BY <1>4, <1>5, <2>2, RecordFacts DEF TreeInv, ChildrenShareTheFile
    <3> QED
      BY <1>14, <1>19, <2>2, <3>1
  <2> QED
    BY <1>7, <2>1, <2>2
<1>26. AccessFlowsDown'
  <2>1. ASSUME NEW g \in Handle, access'[g] # None, g # h,
               NEW u \in User, NEW x \in Id, x = access[g].children[u], Opens(x)',
               NEW y \in Id, y = access[g].mailbox
        PROVE  Opens(y)'
    <3>1. /\ access[g] # None /\ x # None
          /\ mailbox[x] # None /\ mailbox[y] # None /\ mailbox[x].inode = mailbox[y].inode
      BY <1>17, <2>1, RecordFacts, NoneAssumption DEF TreeInv, ChildrenShareTheFile
    <3>2. x \notin S
      BY <1>18, <2>1, <3>1
    <3>3. mailbox[x].inode # i
      BY <1>14, <2>1, <3>1, <3>2
    <3>4. Opens(x)
      BY <1>15, <2>1, <3>1, <3>3
    <3>5. Opens(y)
      BY <2>1, <3>1, <3>4 DEF TreeInv, AccessFlowsDown
    <3> QED
      BY <1>15, <3>1, <3>3, <3>5
  <2>2. \A g \in Handle : g # h /\ access'[g] # None =>
           /\ access'[g] = access[g] /\ access[g].mailbox \in Id
           /\ \A u \in User : access[g].children[u] # None => access[g].children[u] \in Id
    BY <1>17, RecordFacts
  <2> QED
    BY <1>16, <1>17, <2>1, <2>2 DEF AccessFlowsDown
<1> QED
  BY <1>20, <1>21, <1>22, <1>23, <1>24, <1>25, <1>26 DEF TreeInv

\* Every step of the services keeps the sharing tree.
LEMMA TreeStep ==
    ASSUME TypeOK, TreeInv, [Next]_vars
    PROVE  TreeInv'
<1>1. ASSUME UNCHANGED <<access, mailbox, inode, block, invitation, revoked, next>>
      PROVE  TreeInv'
  <2>1. \A x : Opens(x)' <=> Opens(x)
    BY <1>1 DEF Opens, decryptAndVerify
  <2>2. FreshUnused' /\ NoDanglingReference' /\ OneParent' /\ ChildrenShareTheFile'
    BY <1>1 DEF TreeInv, FreshUnused, NoDanglingReference, OneParent, ChildrenShareTheFile
  <2>3. RevokedUnlinked' /\ RevokedNeverReopens' /\ AccessFlowsDown'
    BY <1>1, <2>1 DEF TreeInv, RevokedUnlinked, RevokedNeverReopens, AccessFlowsDown
  <2> QED
    BY <2>2, <2>3 DEF TreeInv
<1>2. ASSUME NEW c \in Client, NEW u \in User, InitUser(c, u) \/ GetUser(c, u)
      PROVE  TreeInv'
  BY <1>1, <1>2 DEF InitUser, GetUser
<1>3. CASE UNCHANGED vars
  BY <1>1, <1>3 DEF vars
<1> QED
  BY <1>2, <1>3, StoreFileTree, AppendToFileTree, CreateInvitationTree,
     AcceptInvitationTree, RevokeAccessTree DEF Next

LEMMA TreeInit == Init => TypeOK /\ TreeInv
<1> SUFFICES ASSUME Init PROVE TypeOK /\ TreeInv
  OBVIOUS
<1>1. TypeOK
  BY BoundsAssumption DEF Init, TypeOK
<1>2. FreshUnused /\ NoDanglingReference
  BY DEF Init, FreshUnused, NoDanglingReference
<1>3. OneParent /\ ChildrenShareTheFile /\ RevokedUnlinked
  BY DEF Init, OneParent, ChildrenShareTheFile, RevokedUnlinked
<1>4. RevokedNeverReopens /\ AccessFlowsDown
  BY DEF Init, RevokedNeverReopens, AccessFlowsDown
<1> QED
  BY <1>1, <1>2, <1>3, <1>4 DEF TreeInv

LEMMA TreeInvariant == Spec => [](TypeOK /\ TreeInv)
<1>1. TypeOK /\ TreeInv /\ [Next]_vars => (TypeOK /\ TreeInv)'
  BY TypeStep, TreeStep
<1> QED
  BY <1>1, TreeInit, PTL DEF Spec

\* Revocation is final: a mailbox that RevokeAccess took out of a Children map
\* never again holds the key of its file, for any number of users, files and
\* operations.
THEOREM RevocationIsFinal == Spec => []RevokedNeverReopens
<1>1. TreeInv => RevokedNeverReopens
  BY DEF TreeInv
<1> QED
  BY <1>1, TreeInvariant, PTL

\* Revocation cascades: no mailbox shared from a record opens the file unless the
\* mailbox of the record does, at every depth of the sharing tree.
THEOREM RevocationCascades == Spec => []AccessFlowsDown
<1>1. TreeInv => AccessFlowsDown
  BY DEF TreeInv
<1> QED
  BY <1>1, TreeInvariant, PTL

(***************************************************************************)
(* Inodes and blocks.                                                       *)
(***************************************************************************)
\* The blocks WriteBlocks wrote open under the key they were sealed with.
LEMMA WrittenBlocksOpen ==
    ASSUME NEW first \in Nat \ {0}, NEW content \in Content, NEW k \in Id,
           NEW b \in Id, b \in first .. first + Len(content) - 1
    PROVE  decryptAndVerify(WriteBlocks(first, content, k)[b], k)
<1>1. content[b - first + 1] \in Chunk
  <2>1. Len(content) \in Nat /\ \A n \in 1 .. Len(content) : content[n] \in Chunk
    BY ContentIsSeq
  <2>2. b - first + 1 \in 1 .. Len(content)
    BY <2>1 DEF Id
  <2> QED
    BY <2>1, <2>2
<1>2. encryptAndMAC(content[b - first + 1], k) \in SealedBlock
  BY <1>1 DEF encryptAndMAC, SealedBlock
<1>3. WriteBlocks(first, content, k)[b] = encryptAndMAC(content[b - first + 1], k)
  BY DEF WriteBlocks
<1> QED
  BY <1>2, <1>3, NoneAssumption DEF decryptAndVerify, encryptAndMAC

\* The blocks of a stored inode are stored, so none is a number yet to be drawn.
LEMMA BlocksAreDrawn ==
    ASSUME TypeOK, FreshUnused, KeyCoherent, NEW x \in Id, inode[x] # None
    PROVE  \A b \in Range(inode[x].plain) :
               b \in Id /\ b < next /\ block[b] # None /\ block[b].key = inode[x].key
<1>1. inode[x].plain \in Seq(Id)
  BY Typed DEF SealedInode
<1>2. Range(inode[x].plain) \subseteq Id
  BY <1>1, IdsOfSeq
<1> QED
  BY <1>2, StoredIsDrawn DEF KeyCoherent, decryptAndVerify

\* StoreFile and AppendToFile: an inode gains new blocks sealed under its key.
LEMMA NewBlocksKeepBlockInv ==
    ASSUME TypeOK, FreshUnused, BlockInv,
           NEW i \in Id, NEW k \in Id, NEW first \in Nat \ {0}, NEW content \in Content,
           first >= next, first + Len(content) <= MaxId + 1,
           NEW old \in Seq(Id),
           \A b \in Range(old) : b < next,
           \A b \in Range(old) : decryptAndVerify(block[b], k),
           \A x \in Id : inode[x] # None /\ x # i => Range(old) \cap Range(inode[x].plain) = {},
           inode' = [inode EXCEPT ![i] =
                        encryptAndMAC(old \o NewBlocks(first, Len(content)), k)],
           block' = WriteBlocks(first, content, k)
    PROVE  BlockInv'
<1> DEFINE n == Len(content)
           new == NewBlocks(first, n)
           ids == old \o new
<1>1. n \in Nat /\ next \in Nat
  BY Typed, ContentIsSeq
<1>2. new \in Seq(Id) /\ Range(new) = first .. first + n - 1
  BY <1>1, NewBlocksProperties
<1>3. ids \in Seq(Id) /\ Range(ids) = Range(old) \cup Range(new)
  BY <1>2, IdsOfConcat
<1>4. /\ inode'[i] # None /\ inode'[i].key = k /\ inode'[i].plain = ids
      /\ \A x \in Id : x # i => inode'[x] = inode[x]
  <2>1. inode'[i] = encryptAndMAC(ids, k)
    BY DEF TypeOK
  <2>2. encryptAndMAC(ids, k) # None
    BY <1>3, SealedIsStored
  <2> QED
    BY <2>1, <2>2 DEF TypeOK, encryptAndMAC
<1>5. \A x \in Id : inode[x] # None =>
         \A b \in Range(inode[x].plain) :
            b \in Id /\ b < next /\ block[b] # None /\ block[b].key = inode[x].key
  BY BlocksAreDrawn DEF BlockInv
<1>6. \A b \in Id : b < next => block'[b] = block[b]
  BY <1>1, WriteBlocksElsewhere DEF Id
<1>7. \A x \in Id : inode[x] # None => Range(new) \cap Range(inode[x].plain) = {}
  <2>1. ASSUME NEW x \in Id, inode[x] # None, NEW b \in Range(inode[x].plain)
        PROVE  b \notin Range(new)
    <3>1. b \in Id /\ b < next
      BY <1>5, <2>1
    <3> QED
      BY <1>1, <1>2, <3>1 DEF Id
  <2> QED
    BY <2>1
<1>8. BlocksApart'
  <2>1. \A x \in Id : x # i /\ inode[x] # None => Range(ids) \cap Range(inode[x].plain) = {}
    BY <1>3, <1>7
  <2>2. ASSUME NEW x \in Id, NEW y \in Id, inode'[x] # None, inode'[y] # None, x # y
        PROVE  Range(inode'[x].plain) \cap Range(inode'[y].plain) = {}
    <3>1. CASE x = i
      BY <1>4, <2>1, <2>2, <3>1
    <3>2. CASE y = i
      BY <1>4, <2>1, <2>2, <3>2
    <3>3. CASE x # i /\ y # i
      BY <1>4, <2>2, <3>3 DEF BlockInv, BlocksApart
    <3> QED
      BY <3>1, <3>2, <3>3
  <2> QED
    BY <2>2 DEF BlocksApart
<1>9. KeyCoherent'
  <2>1. ASSUME NEW b \in Range(old) PROVE decryptAndVerify(block'[b], k)
    <3>1. b \in Id
      BY IdsOfSeq
    <3> QED
      BY <1>6, <3>1
  <2>2. ASSUME NEW b \in Range(new) PROVE decryptAndVerify(block'[b], k)
    <3>1. b \in Id /\ b \in first .. first + Len(content) - 1
      BY <1>2, IdsOfSeq
    <3> QED
      BY <3>1, WrittenBlocksOpen
  <2>3. ASSUME NEW x \in Id, inode[x] # None, NEW b \in Range(inode[x].plain)
        PROVE  decryptAndVerify(block'[b], inode[x].key)
    BY <1>5, <1>6, <2>3 DEF decryptAndVerify
  <2>4. ASSUME NEW x \in Id, inode'[x] # None, NEW b \in Range(inode'[x].plain)
        PROVE  decryptAndVerify(block'[b], inode'[x].key)
    <3>1. CASE x = i
      BY <1>3, <1>4, <2>1, <2>2, <2>4, <3>1
    <3>2. CASE x # i
      BY <1>4, <2>3, <2>4, <3>2
    <3> QED
      BY <3>1, <3>2
  <2> QED
    BY <2>4 DEF KeyCoherent, decryptAndVerify
<1> QED
  BY <1>8, <1>9 DEF BlockInv

LEMMA StoreFileBlocks ==
    ASSUME TypeOK, FreshUnused, BlockInv,
           NEW c \in Client, NEW f \in Filename, NEW content \in Content,
           StoreFile(c, f, content)
    PROVE  BlockInv'
<1> DEFINE n == Len(content)
           new == NewBlocks(next + 3, n)
<1>1. /\ n \in Nat /\ next \in Nat \ {0} /\ next + 3 + n <= MaxId + 1
      /\ next \in Id /\ next + 1 \in Id /\ next + 3 \in Nat \ {0} /\ next + 3 >= next
  BY Typed, ContentIsSeq, BoundsAssumption DEF StoreFile, CanDraw, Id
<1>2. /\ inode' = [inode EXCEPT ![next + 1] = encryptAndMAC(new, next)]
      /\ block' = WriteBlocks(next + 3, content, next)
  BY DEF StoreFile
<1>3. <<>> \in Seq(Id) /\ Range(<<>>) = {}
  BY EmptySeq DEF Range
<1>4. <<>> \o new = new
  BY <1>1, NewBlocksProperties, ConcatEmptySeq
<1> QED
  BY <1>1, <1>2, <1>3, <1>4, NewBlocksKeepBlockInv

LEMMA AppendToFileBlocks ==
    ASSUME TypeOK, FreshUnused, BlockInv,
           NEW c \in Client, NEW f \in Filename, NEW content \in Content,
           AppendToFile(c, f, content)
    PROVE  BlockInv'
<1> DEFINE h == <<session[c].name, f>>
           box == mailbox[access[h].mailbox]
           i == box.inode
           n == Len(content)
<1>1. /\ h \in Handle /\ n \in Nat /\ next \in Nat \ {0} /\ next + n <= MaxId + 1
      /\ access[h] # None /\ Opens(access[h].mailbox)
  BY Typed, ContentIsSeq DEF AppendToFile, Session, Handle, CanDraw
<1>2. /\ box.fileKey \in Id /\ i \in Id
      /\ inode[i] # None /\ inode[i].key = box.fileKey /\ inode[i].plain \in Seq(Id)
  <2>1. access[h].mailbox \in Id
    BY <1>1, Typed DEF Access
  <2>2. box \in MailboxNode
    BY <1>1, <2>1, Typed DEF Opens
  <2>3. i \in Id /\ box.fileKey \in Id
    BY <2>2 DEF MailboxNode
  <2>4. inode[i] # None /\ inode[i].key = box.fileKey
    BY <1>1 DEF Opens, decryptAndVerify
  <2> QED
    BY <2>3, <2>4, Typed DEF SealedInode
<1>3. /\ inode' = [inode EXCEPT ![i] =
                       encryptAndMAC(inode[i].plain \o NewBlocks(next, n), box.fileKey)]
      /\ block' = WriteBlocks(next, content, box.fileKey)
  BY DEF AppendToFile
<1>4. /\ \A b \in Range(inode[i].plain) : b < next
      /\ \A b \in Range(inode[i].plain) : decryptAndVerify(block[b], box.fileKey)
  BY <1>2, BlocksAreDrawn DEF BlockInv, decryptAndVerify
<1>5. \A x \in Id : inode[x] # None /\ x # i =>
          Range(inode[i].plain) \cap Range(inode[x].plain) = {}
  BY <1>2 DEF BlockInv, BlocksApart
<1>6. next >= next
  BY <1>1
<1> QED
  BY <1>1, <1>2, <1>3, <1>4, <1>5, <1>6, NewBlocksKeepBlockInv

\* RevokeAccess: all blocks of the one inode are sealed again, no other block.
LEMMA RevokeAccessBlocks ==
    ASSUME TypeOK, FreshUnused, BlockInv,
           NEW c \in Client, NEW f \in Filename, NEW r \in User,
           RevokeAccess(c, f, r)
    PROVE  BlockInv'
<1>1. PICK i \in Id : i = mailbox[access[<<session[c].name, f>>].mailbox].inode
  <2>1. <<session[c].name, f>> \in Handle /\ access[<<session[c].name, f>>] # None
    BY Typed DEF RevokeAccess, Session, Handle
  <2>2. access[<<session[c].name, f>>].mailbox \in Id
    BY <2>1, Typed DEF Access
  <2>3. mailbox[access[<<session[c].name, f>>].mailbox] # None
    BY DEF RevokeAccess, Opens
  <2> QED
    BY <2>2, <2>3, Typed DEF MailboxNode
<1>2. PICK k \in Id : k = next
  <2>1. CanDraw(2)
    BY DEF RevokeAccess
  <2> QED
    BY <2>1, Typed, BoundsAssumption DEF CanDraw, Id
<1>3. inode[i] # None /\ inode[i].plain \in Seq(Id)
  <2>1. inode[i] # None
    BY <1>1 DEF RevokeAccess, Opens, decryptAndVerify
  <2> QED
    BY <2>1, Typed DEF SealedInode
<1>4. /\ inode' = [inode EXCEPT ![i] = encryptAndMAC(inode[i].plain, k)]
      /\ block' = Reencrypt(inode[i].plain, k)
  BY <1>1, <1>2 DEF RevokeAccess
<1>5. /\ inode'[i] # None /\ inode'[i].key = k /\ inode'[i].plain = inode[i].plain
      /\ \A x \in Id : x # i => inode'[x] = inode[x]
  <2>1. inode'[i] = encryptAndMAC(inode[i].plain, k)
    BY <1>4 DEF TypeOK
  <2>2. encryptAndMAC(inode[i].plain, k) # None
    BY <1>3, SealedIsStored
  <2> QED
    BY <1>4, <2>1, <2>2 DEF TypeOK, encryptAndMAC
<1>6. BlocksApart'
  BY <1>3, <1>5 DEF BlockInv, BlocksApart
<1>7. \A x \in Id : inode[x] # None =>
         \A b \in Range(inode[x].plain) :
            b \in Id /\ block[b] # None /\ block[b].key = inode[x].key
  BY BlocksAreDrawn DEF BlockInv
<1>8. ASSUME NEW b \in Range(inode[i].plain)
      PROVE  decryptAndVerify(block'[b], k)
  <2>1. b \in Id /\ block[b] \in SealedBlock
    BY <1>3, <1>7, Typed
  <2>2. encryptAndMAC(block[b].plain, k) \in SealedBlock
    BY <2>1 DEF encryptAndMAC, SealedBlock
  <2>3. block'[b] = encryptAndMAC(block[b].plain, k)
    BY <1>4, <2>1 DEF Reencrypt
  <2> QED
    BY <2>2, <2>3, NoneAssumption DEF decryptAndVerify, encryptAndMAC
<1>9. ASSUME NEW x \in Id, x # i, inode[x] # None, NEW b \in Range(inode[x].plain)
      PROVE  decryptAndVerify(block'[b], inode[x].key)
  <2>1. b \in Id /\ b \notin Range(inode[i].plain)
    BY <1>3, <1>7, <1>9 DEF BlockInv, BlocksApart
  <2>2. block'[b] = block[b]
    BY <1>4, <2>1 DEF Reencrypt
  <2> QED
    BY <1>7, <1>9, <2>2 DEF decryptAndVerify
<1>10. KeyCoherent'
  <2>1. ASSUME NEW x \in Id, inode'[x] # None, NEW b \in Range(inode'[x].plain)
        PROVE  decryptAndVerify(block'[b], inode'[x].key)
    <3>1. CASE x = i
      BY <1>5, <1>8, <2>1, <3>1
    <3>2. CASE x # i
      BY <1>5, <1>9, <2>1, <3>2
    <3> QED
      BY <3>1, <3>2
  <2> QED
    BY <2>1 DEF KeyCoherent, decryptAndVerify
<1> QED
  BY <1>6, <1>10 DEF BlockInv

LEMMA BlockStep ==
    ASSUME TypeOK, TreeInv, BlockInv, [Next]_vars
    PROVE  BlockInv'
<1>0. FreshUnused
  BY DEF TreeInv
<1>1. ASSUME UNCHANGED <<inode, block>>
      PROVE  BlockInv'
  BY <1>1 DEF BlockInv, BlocksApart, KeyCoherent, decryptAndVerify
<1>2. ASSUME NEW c \in Client, NEW u \in User, InitUser(c, u) \/ GetUser(c, u)
      PROVE  BlockInv'
  BY <1>1, <1>2 DEF InitUser, GetUser
<1>3. ASSUME NEW c \in Client, NEW f \in Filename, NEW r \in User, CreateInvitation(c, f, r)
      PROVE  BlockInv'
  BY <1>1, <1>3 DEF CreateInvitation
<1>4. ASSUME NEW c \in Client, NEW f \in Filename, NEW s \in User, NEW j \in Id,
             AcceptInvitation(c, s, j, f)
      PROVE  BlockInv'
  BY <1>1, <1>4 DEF AcceptInvitation
<1>5. CASE UNCHANGED vars
  BY <1>1, <1>5 DEF vars
<1> QED
  BY <1>0, <1>2, <1>3, <1>4, <1>5, StoreFileBlocks, AppendToFileBlocks,
     RevokeAccessBlocks DEF Next

\* SharingInv is the inductive invariant of the services.
THEOREM Invariance == Spec => []SharingInv
<1>1. Init => BlockInv
  BY DEF Init, BlockInv, BlocksApart, KeyCoherent
<1>2. SharingInv /\ [Next]_vars => SharingInv'
  BY TypeStep, TreeStep, BlockStep DEF SharingInv
<1> QED
  BY <1>1, <1>2, TreeInit, PTL DEF Spec, SharingInv

\* An inode and its blocks are always sealed under one key: whoever can open an
\* inode can read the whole file, and a RevokeAccess whose caller can open the
\* inode never stops half way at a block it cannot decrypt. This is about calls
\* that do not overlap.
THEOREM FilesAreReadable == Spec => []KeyCoherent
<1>1. SharingInv => KeyCoherent
  BY DEF SharingInv, BlockInv
<1> QED
  BY <1>1, Invariance, PTL
=============================================================================
