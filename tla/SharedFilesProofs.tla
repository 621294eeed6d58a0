------------------------- MODULE SharedFilesProofs -------------------------
(***************************************************************************)
(* What the sharing services promise their users, proved from the invariant *)
(* of SharingProofs: the file list, who loses access and when, the          *)
(* refinement of SharedFiles, and what the blocks of a file are in bytes.   *)
(***************************************************************************)
EXTENDS SharingProofs, Blocks, WellFoundedInduction

(***************************************************************************)
(* The file list.                                                           *)
(***************************************************************************)
\* No two clients are logged in as one user.
OneClientPerUser ==
    \A c, d \in Client :
        session[c] # None /\ session[d] # None /\ session[c].name = session[d].name => c = d

\* A session's list is the stored one, and only users have access records.
ListInv ==
    /\ ListComplete
    /\ \A c \in Client : session[c] # None =>
          account[session[c].name] = [files |-> session[c].files]
    /\ \A u \in User, f \in Filename : account[u] = None => access[<<u, f>>] = None

\* saveUser with a handle that has an access record afterwards.
LEMMA SaveUserListed ==
    ASSUME TypeOK, ListInv, OneClientPerUser, NEW c \in Client, NEW f \in Filename,
           session[c] # None, SaveUser(c, f), NEW a, a # None,
           access' = [access EXCEPT ![<<session[c].name, f>>] = a]
    PROVE  ListInv'
<1> DEFINE u == session[c].name
           files == session[c].files \cup {f}
<1>1. session[c] \in Session
  BY Typed
<1>2. u \in User /\ files \subseteq Filename
  BY <1>1 DEF Session
<1>3. /\ session' = [session EXCEPT ![c] = [name |-> u, files |-> files]]
      /\ account' = [account EXCEPT ![u] = [files |-> files]]
  BY DEF SaveUser
<1>4. account[u] = [files |-> session[c].files] /\ account[u] # None
  <2>1. account[u] = [files |-> session[c].files]
    BY DEF ListInv
  <2>2. account[u] \in UserRecord
    BY <1>1, <2>1 DEF Session, UserRecord
  <2> QED
    BY <2>1, <2>2, NoneAssumption
<1>5. /\ account'[u] = [files |-> files] /\ \A v \in User \ {u} : account'[v] = account[v]
  BY <1>2, <1>3 DEF TypeOK
<1>6. \A v \in User, g \in Filename :
          access'[<<v, g>>] = IF v = u /\ g = f THEN a ELSE access[<<v, g>>]
  BY <1>2 DEF TypeOK, Handle
<1>7. ListComplete'
  <2> SUFFICES ASSUME NEW v \in User, account'[v] # None
               PROVE  account'[v].files = {g \in Filename : access'[<<v, g>>] # None}
    BY DEF ListComplete, ListFiles
  <2>1. CASE v = u
    <3>1. session[c].files = {g \in Filename : access[<<u, g>>] # None}
      BY <1>2, <1>4 DEF ListInv, ListComplete, ListFiles
    <3>2. account'[v].files = files
      BY <1>5, <2>1
    <3> QED
      BY <1>6, <2>1, <3>1, <3>2
  <2>2. CASE v # u
    <3>1. account[v].files = {g \in Filename : access[<<v, g>>] # None}
      BY <1>5, <2>2 DEF ListInv, ListComplete, ListFiles
    <3> QED
      BY <1>5, <1>6, <2>2, <3>1
  <2> QED
    BY <2>1, <2>2
<1>8. ASSUME NEW d \in Client, session'[d] # None
      PROVE  account'[session'[d].name] = [files |-> session'[d].files]
  <2>1. CASE d = c
    BY <1>3, <1>5, <2>1 DEF TypeOK
  <2>2. CASE d # c
    <3>1. session'[d] = session[d]
      BY <1>3, <2>2 DEF TypeOK
    <3>2. session[d] \in Session /\ session[d].name \in User
      BY <1>8, <3>1, Typed DEF Session
    <3>3. session[d].name # u
      BY <1>8, <2>2, <3>1 DEF OneClientPerUser
    <3> QED
      BY <1>5, <1>8, <3>1, <3>2, <3>3 DEF ListInv
  <2> QED
    BY <2>1, <2>2
<1>9. ASSUME NEW v \in User, NEW g \in Filename, account'[v] = None
      PROVE  access'[<<v, g>>] = None
  <2>1. v # u
    <3>1. [files |-> files] \in UserRecord
      BY <1>2 DEF UserRecord
    <3> QED
      BY <1>5, <1>9, <3>1, NoneAssumption
  <2> QED
    BY <1>5, <1>6, <1>9, <2>1 DEF ListInv
<1> QED
  BY <1>7, <1>8, <1>9 DEF ListInv

\* Every service call keeps the lists complete.
LEMMA ListStep ==
    ASSUME TypeOK, TypeOK', ListInv, OneClientPerUser, [Next]_vars
    PROVE  ListInv'
<1>1. ASSUME UNCHANGED <<session, account>>,
             \A h \in Handle : access'[h] = None <=> access[h] = None
      PROVE  ListInv'
  <2>1. \A u \in User, f \in Filename : access'[<<u, f>>] = None <=> access[<<u, f>>] = None
    BY <1>1 DEF Handle
  <2>2. ListComplete'
    BY <1>1, <2>1 DEF ListInv, ListComplete, ListFiles
  <2> QED
    BY <1>1, <2>1, <2>2 DEF ListInv
<1>2. ASSUME NEW c \in Client, NEW u \in User, InitUser(c, u)
      PROVE  ListInv'
  <2>1. /\ account[u] = None /\ account' = [account EXCEPT ![u] = [files |-> {}]]
        /\ session' = [session EXCEPT ![c] = [name |-> u, files |-> {}]]
        /\ UNCHANGED access
    BY <1>2 DEF InitUser
  <2>2. /\ account'[u] = [files |-> {}] /\ \A v \in User \ {u} : account'[v] = account[v]
    BY <2>1 DEF TypeOK
  <2>3. \A f \in Filename : access[<<u, f>>] = None
    BY <2>1 DEF ListInv
  <2>4. ListComplete'
    BY <2>1, <2>2, <2>3 DEF ListInv, ListComplete, ListFiles
  <2>5. ASSUME NEW d \in Client, session'[d] # None
        PROVE  account'[session'[d].name] = [files |-> session'[d].files]
    <3>1. CASE d = c
      BY <2>1, <2>2, <3>1 DEF TypeOK
    <3>2. CASE d # c
      <4>1. session'[d] = session[d]
        BY <2>1, <3>2 DEF TypeOK
      <4>2. session[d] \in Session
        BY <2>5, <4>1, Typed
      <4>3. /\ session[d].name \in User /\ [files |-> session[d].files] \in UserRecord
            /\ account[session[d].name] = [files |-> session[d].files]
        BY <2>5, <4>1, <4>2 DEF Session, UserRecord, ListInv
      <4>4. session[d].name # u
        BY <2>1, <4>3, NoneAssumption
      <4> QED
        BY <2>2, <4>1, <4>3, <4>4
    <3> QED
      BY <3>1, <3>2
  <2>6. \A v \in User, f \in Filename : account'[v] = None => access'[<<v, f>>] = None
    BY <2>1, <2>2, <2>3 DEF ListInv
  <2> QED
    BY <2>4, <2>5, <2>6 DEF ListInv
<1>3. ASSUME NEW c \in Client, NEW u \in User, GetUser(c, u)
      PROVE  ListInv'
  <2>1. /\ account[u] # None
        /\ session' = [session EXCEPT ![c] = [name |-> u, files |-> account[u].files]]
        /\ UNCHANGED <<account, access>>
    BY <1>3 DEF GetUser
  <2>2. account[u] = [files |-> account[u].files]
    BY <2>1, Typed DEF UserRecord
  <2>3. ListComplete'
    BY <2>1 DEF ListInv, ListComplete, ListFiles
  <2>4. \A d \in Client : session'[d] # None =>
            account'[session'[d].name] = [files |-> session'[d].files]
    BY <2>1, <2>2 DEF ListInv, TypeOK
  <2> QED
    BY <2>1, <2>3, <2>4 DEF ListInv
<1>4. ASSUME NEW c \in Client, NEW f \in Filename, NEW content \in Content,
             StoreFile(c, f, content)
      PROVE  ListInv'
  <2> DEFINE h == <<session[c].name, f>>
             a == NewRecord(h, next + 2)
  <2>1. /\ session[c] # None /\ SaveUser(c, f) /\ access' = [access EXCEPT ![h] = a]
    BY <1>4 DEF StoreFile
  <2>2. h \in Handle
    BY <2>1, Typed DEF Session, Handle
  <2>3. a # None
    <3>1. CanDraw(3 + Len(content)) /\ Len(content) \in Nat
      BY <1>4, ContentIsSeq DEF StoreFile
    <3>2. next + 2 \in Id
      BY <3>1, Typed, BoundsAssumption DEF CanDraw, Id
    <3>3. a \in Access
      BY <3>2 DEF NewRecord, NoChildren, Access, ChildrenMap
    <3> QED
      BY <3>3, NoneAssumption
  <2> QED
    BY <2>1, <2>3, SaveUserListed
<1>5. ASSUME NEW c \in Client, NEW f \in Filename, NEW s \in User, NEW j \in Id,
             AcceptInvitation(c, s, j, f)
      PROVE  ListInv'
  <2> DEFINE h == <<session[c].name, f>>
             a == NewRecord(h, invitation[j].mailbox)
  <2>1. /\ session[c] # None /\ SaveUser(c, f) /\ access' = [access EXCEPT ![h] = a]
        /\ invitation[j] # None
    BY <1>5 DEF AcceptInvitation
  <2>2. a # None
    <3>1. invitation[j].mailbox \in Id
      BY <2>1, Typed DEF Invitation
    <3>2. a \in Access
      BY <3>1 DEF NewRecord, NoChildren, Access, ChildrenMap
    <3> QED
      BY <3>2, NoneAssumption
  <2> QED
    BY <2>1, <2>2, SaveUserListed
<1>6. ASSUME NEW c \in Client, NEW f \in Filename, NEW r \in User, RevokeAccess(c, f, r)
      PROVE  ListInv'
  <2> DEFINE h == <<session[c].name, f>>
             a == WithoutChild(access[h], r, next + 1)
  <2>1. /\ session[c] # None /\ SaveUser(c, f) /\ access' = [access EXCEPT ![h] = a]
        /\ access[h] # None /\ CanDraw(2)
    BY <1>6 DEF RevokeAccess
  <2>2. h \in Handle /\ access[h] \in Access
    BY <2>1, Typed DEF Session, Handle
  <2>3. a # None
    <3>1. next + 1 \in Id
      BY <2>1, Typed, BoundsAssumption DEF CanDraw, Id
    <3>2. a \in Access
      BY <2>2, <3>1 DEF WithoutChild, Access, ChildrenMap
    <3> QED
      BY <3>2, NoneAssumption
  <2> QED
    BY <2>1, <2>3, SaveUserListed
<1>7. ASSUME NEW c \in Client, NEW f \in Filename, NEW content \in Content,
             AppendToFile(c, f, content)
      PROVE  ListInv'
  BY <1>1, <1>7 DEF AppendToFile
<1>8. ASSUME NEW c \in Client, NEW f \in Filename, NEW r \in User, CreateInvitation(c, f, r)
      PROVE  ListInv'
  <2> DEFINE h == <<session[c].name, f>>
             a == WithChild(access[h], r, next)
  <2>1. /\ session[c] # None /\ access[h] # None /\ CanDraw(2) /\ UNCHANGED <<session, account>>
        /\ access' = [access EXCEPT ![h] = a] \/ UNCHANGED access
    BY <1>8 DEF CreateInvitation
  <2>2. h \in Handle /\ access[h] \in Access
    BY <2>1, Typed DEF Session, Handle
  <2>3. a # None
    <3>1. next \in Id
      BY <2>1, Typed, BoundsAssumption DEF CanDraw, Id
    <3>2. a \in Access
      BY <2>2, <3>1 DEF WithChild, Access, ChildrenMap
    <3> QED
      BY <3>2, NoneAssumption
  <2>4. \A g \in Handle : access'[g] = None <=> access[g] = None
    BY <2>1, <2>2, <2>3 DEF TypeOK
  <2> QED
    BY <1>1, <2>1, <2>4
<1>9. CASE UNCHANGED vars
  BY <1>1, <1>9 DEF vars
<1> QED
  BY <1>2, <1>3, <1>4, <1>5, <1>6, <1>7, <1>8, <1>9 DEF Next

\* What a login lists is what the user has an access record for, whatever the user
\* and others store, accept and revoke, as long as no two clients are logged in as
\* one user.
THEOREM ListsAreComplete == Spec /\ []OneClientPerUser => []ListComplete
<1>1. Init => ListInv
  <2> SUFFICES ASSUME Init PROVE ListInv
    OBVIOUS
  <2>1. \A u \in User, f \in Filename : access[<<u, f>>] = None
    BY DEF Init, Handle
  <2> QED
    BY <2>1 DEF Init, ListInv, ListComplete
<1>2. TypeOK /\ TypeOK' /\ ListInv /\ OneClientPerUser /\ [Next]_vars => ListInv'
  BY ListStep
<1>3. ListInv => ListComplete
  BY DEF ListInv
<1> QED
  BY <1>1, <1>2, <1>3, TypeCorrect, PTL DEF Spec

(***************************************************************************)
(* Who stops loading a file.                                                *)
(***************************************************************************)
\* Whoever can open the inode can load the file.
LEMMA LoadsWhatOpens ==
    ASSUME SharingInv, NEW h \in Handle
    PROVE  LoadFileSucceeds(h) <=> access[h] # None /\ Opens(access[h].mailbox)
<1> SUFFICES ASSUME access[h] # None, Opens(access[h].mailbox)
             PROVE  BlocksOpen(access[h].mailbox)
  BY DEF LoadFileSucceeds
<1> DEFINE m == access[h].mailbox
<1>1. m \in Id /\ mailbox[m] # None
  BY RecordFacts DEF SharingInv
<1>2. mailbox[m].inode \in Id
  BY <1>1, Typed DEF SharingInv, MailboxNode
<1> QED
  BY <1>1, <1>2 DEF SharingInv, BlockInv, KeyCoherent, Opens, BlocksOpen, decryptAndVerify

\* A mailbox that is there opens after a StoreFile, an AppendToFile or a
\* CreateInvitation exactly when it opened before.
LEMMA StoreKeepsOpen ==
    ASSUME SharingInv, NEW c \in Client, NEW f \in Filename, NEW content \in Content,
           StoreFile(c, f, content), NEW m \in Id, mailbox[m] # None
    PROVE  Opens(m)' <=> Opens(m)
<1>1. TypeOK /\ FreshUnused /\ NoDanglingReference
  BY DEF SharingInv, TreeInv
<1>2. CanDraw(3 + Len(content)) /\ Len(content) \in Nat /\ next \in Nat \ {0}
  BY <1>1, Typed, ContentIsSeq DEF StoreFile
<1>3. next + 1 \in Id /\ next + 2 \in Id
  BY <1>2, BoundsAssumption DEF CanDraw, Id
<1>4. m # next + 2 /\ mailbox[m].inode # next + 1
  BY <1>1, <1>2, <1>3 DEF FreshUnused, NoDanglingReference
<1>5. mailbox'[m] = mailbox[m]
  BY <1>1, <1>3, <1>4 DEF StoreFile, TypeOK
<1>6. mailbox[m].inode \in Id
  BY <1>1, Typed DEF MailboxNode
<1>7. inode'[mailbox[m].inode] = inode[mailbox[m].inode]
  BY <1>1, <1>3, <1>4, <1>6 DEF StoreFile, TypeOK
<1> QED
  BY <1>5, <1>7 DEF Opens, decryptAndVerify

\* An append opens and closes no mailbox.
LEMMA AppendKeepsOpen ==
    ASSUME SharingInv, SharingInv', NEW c \in Client, NEW f \in Filename, NEW content \in Content,
           AppendToFile(c, f, content), NEW m \in Id
    PROVE  Opens(m)' <=> Opens(m)
<1> DEFINE h == <<session[c].name, f>>
           box == mailbox[access[h].mailbox]
           i == box.inode
<1>1. /\ session[c] # None /\ access[h] # None /\ Opens(access[h].mailbox)
      /\ inode' = [inode EXCEPT ![i] =
            encryptAndMAC(inode[i].plain \o NewBlocks(next, Len(content)), box.fileKey)]
      /\ UNCHANGED mailbox /\ TypeOK /\ TypeOK'
  BY DEF AppendToFile, SharingInv
<1>2. h \in Handle
  BY <1>1, Typed DEF Session, Handle
<1>3. access[h].mailbox \in Id
  BY <1>1, <1>2, RecordFacts DEF SharingInv
<1>4. i \in Id /\ inode[i] # None /\ inode[i].key = box.fileKey
  BY <1>1, <1>3, Typed DEF Opens, decryptAndVerify, MailboxNode
<1>5. inode'[i].key = inode[i].key
  BY <1>1, <1>4 DEF TypeOK, encryptAndMAC
<1>6. inode'[i] # None
  BY <1>1, <1>3, <1>4 DEF SharingInv, TreeInv, NoDanglingReference, Opens
<1>7. \A x \in Id \ {i} : inode'[x] = inode[x]
  BY <1>1 DEF TypeOK
<1>8. CASE mailbox[m] = None
  BY <1>1, <1>8 DEF Opens
<1>9. CASE mailbox[m] # None
  <2>1. mailbox[m].inode \in Id
    BY <1>1, <1>9, Typed DEF MailboxNode
  <2> QED
    BY <1>1, <1>4, <1>5, <1>6, <1>7, <2>1, ZenonT(60) DEF Opens, decryptAndVerify
<1> QED
  BY <1>8, <1>9

\* An invitation opens and closes no mailbox that was there.
LEMMA InvitationKeepsOpen ==
    ASSUME SharingInv, NEW c \in Client, NEW f \in Filename, NEW r \in User,
           CreateInvitation(c, f, r), NEW m \in Id, mailbox[m] # None
    PROVE  /\ next \in Id /\ m # next /\ mailbox'[m] = mailbox[m]
           /\ Opens(m)' <=> Opens(m)
<1>1. TypeOK /\ FreshUnused
  BY DEF SharingInv, TreeInv
<1>2. CanDraw(2) /\ next \in Nat \ {0}
  BY <1>1, Typed DEF CreateInvitation
<1>3. next \in Id
  BY <1>2, BoundsAssumption DEF CanDraw, Id
<1>4. m # next
  BY <1>2, <1>3, <1>1 DEF FreshUnused
<1>5. mailbox'[m] = mailbox[m] /\ UNCHANGED inode
  BY <1>1, <1>3, <1>4 DEF CreateInvitation, TypeOK
<1> QED
  BY <1>3, <1>4, <1>5 DEF Opens, decryptAndVerify

\* RevokeAccess seals the file of handle h under a fresh key, which the new mailbox
\* and the kept ones hold; the mailboxes of other files are as they were.
RevokeEffect(h, g, i, r) ==
    /\ h \in Handle /\ access[h] # None /\ access[h] \in Access
    /\ g \in Id /\ i \in Id /\ Opens(g) /\ mailbox[g] # None /\ inode[i] # None
    /\ next \in Id /\ next + 1 \in Id /\ mailbox[next + 1] = None
    /\ access' = [access EXCEPT ![h] = WithoutChild(access[h], r, next + 1)]
    /\ mailbox'[next + 1] = [fileKey |-> next, inode |-> i]
    /\ inode'[i] = encryptAndMAC(inode[i].plain, next)
    /\ inode'[i] # None /\ inode'[i].key = next
    /\ \A x \in Id \ {i} : inode'[x] = inode[x]
    /\ \A m \in Kept(h, r) : m \in Id /\ mailbox[m] # None /\ mailbox[m].inode = i
    /\ \A m \in Id : mailbox[m] # None =>
          /\ m # next + 1
          /\ mailbox[m].fileKey # next
          /\ mailbox'[m] = IF m \in Kept(h, r) THEN [fileKey |-> next, inode |-> i]
                           ELSE mailbox[m]
    /\ \A m \in Id : m = next + 1 => Opens(m)'

\* RevokeAccess has that effect.
LEMMA RevocationEffect ==
    ASSUME SharingInv, NEW c \in Client, NEW f \in Filename, NEW r \in User,
           RevokeAccess(c, f, r)
    PROVE  LET h == <<session[c].name, f>>
               g == access[h].mailbox
           IN  RevokeEffect(h, g, mailbox[g].inode, r)
<1> DEFINE h == <<session[c].name, f>>
           g == access[h].mailbox
           i == mailbox[g].inode
<1>1. /\ session[c] # None /\ access[h] # None /\ Opens(g) /\ CanDraw(2)
      /\ \A m \in Kept(h, r) : mailbox[m] # None
      /\ inode' = [inode EXCEPT ![i] = encryptAndMAC(inode[i].plain, next)]
      /\ mailbox' = [m \in Id |->
              IF m = next + 1 THEN [fileKey |-> next, inode |-> i]
              ELSE IF m \in Kept(h, r) THEN [fileKey |-> next, inode |-> mailbox[m].inode]
              ELSE mailbox[m]]
      /\ access' = [access EXCEPT ![h] = WithoutChild(access[h], r, next + 1)]
  BY DEF RevokeAccess
<1>2. /\ TypeOK /\ FreshUnused /\ NoDanglingReference /\ ChildrenShareTheFile /\ next \in Nat \ {0}
  BY Typed DEF SharingInv, TreeInv
<1>3. h \in Handle /\ access[h] \in Access /\ g \in Id /\ mailbox[g] # None
  BY <1>1, <1>2, Typed DEF Session, Handle, Access, Opens
<1>4. i \in Id /\ inode[i] # None /\ inode[i].plain \in Seq(Id)
  BY <1>1, <1>2, <1>3, Typed DEF MailboxNode, Opens, decryptAndVerify, SealedInode
<1>5. next \in Id /\ next + 1 \in Id
  BY <1>1, <1>2, BoundsAssumption DEF CanDraw, Id
<1>6. mailbox[next + 1] = None
  BY <1>2, <1>5 DEF FreshUnused
<1>7. encryptAndMAC(inode[i].plain, next) # None /\ encryptAndMAC(inode[i].plain, next).key = next
  BY <1>4, <1>5, SealedIsStored
<1>8. /\ inode'[i] = encryptAndMAC(inode[i].plain, next)
      /\ \A x \in Id \ {i} : inode'[x] = inode[x]
  BY <1>1, <1>2, <1>4 DEF TypeOK
<1>9. ASSUME NEW m \in Kept(h, r) PROVE m \in Id /\ mailbox[m] # None /\ mailbox[m].inode = i
  <2>1. PICK u \in User : m = access[h].children[u] /\ m # None
    BY DEF Kept
  <2> QED
    BY <1>1, <1>2, <1>3, <2>1 DEF Access, ChildrenMap, ChildrenShareTheFile
<1>10. ASSUME NEW m \in Id, mailbox[m] # None
       PROVE  /\ m # next + 1 /\ mailbox[m].fileKey # next
              /\ mailbox'[m] = IF m \in Kept(h, r) THEN [fileKey |-> next, inode |-> i]
                               ELSE mailbox[m]
  <2>1. m # next + 1
    BY <1>6, <1>10
  <2>2. mailbox[m].fileKey # next
    <3>1. mailbox[m].fileKey \in Id /\ mailbox[m].fileKey < next
      BY <1>2, <1>10, Typed DEF MailboxNode, NoDanglingReference
    <3> QED
      BY <1>2, <3>1 DEF Id
  <2> QED
    BY <1>1, <1>9, <2>1, <2>2
<1>11. mailbox'[next + 1] = [fileKey |-> next, inode |-> i]
  BY <1>1, <1>5
<1>12. ASSUME NEW m \in Id, m = next + 1 PROVE Opens(m)'
  <2>1. [fileKey |-> next, inode |-> i] \in MailboxNode
    BY <1>4, <1>5 DEF MailboxNode
  <2>2. mailbox'[next + 1] # None
    BY <1>11, <2>1, NoneAssumption
  <2>3. decryptAndVerify(inode'[i], next)
    BY <1>7, <1>8 DEF decryptAndVerify
  <2> QED
    BY <1>11, <1>12, <2>2, <2>3 DEF Opens
<1> QED
  BY <1>1, <1>3, <1>4, <1>5, <1>6, <1>7, <1>8, <1>9, <1>10, <1>11, <1>12 DEF RevokeEffect

\* Why a handle that loaded its file no longer does.
LossExplained(h) ==
    \/ \E j \in Id : /\ invitation[j] # None
                     /\ invitation[j].to = h[1]
                     /\ access'[h] = NewRecord(h, invitation[j].mailbox)
    \/ \E g \in Handle \ {h} :
          /\ LoadFileSucceeds(g) /\ SameFile(g, h)
          /\ access'[g].mailbox # access[g].mailbox
          /\ \A u \in User : access'[g].children[u] # access[h].mailbox

LossesExplained ==
    \A h \in Handle : LoadFileSucceeds(h) /\ ~LoadFileSucceeds(h)' => LossExplained(h)

\* A handle whose mailbox opens after a step loads after it.
LEMMA LoadsAfter ==
    ASSUME SharingInv', NEW h \in Handle, NEW m \in Id,
           access'[h] # None, access'[h].mailbox = m, Opens(m)'
    PROVE  LoadFileSucceeds(h)'
<1>1. (access[h] # None /\ Opens(access[h].mailbox))'
  BY DEF Opens
<1>2. (SharingInv /\ h \in Handle =>
          (LoadFileSucceeds(h) <=> access[h] # None /\ Opens(access[h].mailbox)))'
  BY LoadsWhatOpens, PTL
<1> QED
  BY <1>1, <1>2 DEF Handle

\* A handle that loads has a record, whose mailbox opens.
LEMMA Loads ==
    ASSUME SharingInv, NEW g \in Handle, LoadFileSucceeds(g)
    PROVE  /\ access[g] # None /\ access[g] \in Access /\ access[g].mailbox \in Id
           /\ mailbox[access[g].mailbox] # None /\ Opens(access[g].mailbox)
  BY RecordFacts, Typed DEF SharingInv, LoadFileSucceeds

\* Storing a file takes no handle its file.
LEMMA StoreLosesNone ==
    ASSUME SharingInv, SharingInv', NEW c \in Client, NEW f \in Filename, NEW content \in Content,
           StoreFile(c, f, content), NEW g \in Handle, LoadFileSucceeds(g)
    PROVE  LoadFileSucceeds(g)'
<1> DEFINE h == <<session[c].name, f>>
<1>1. TypeOK /\ access' = [access EXCEPT ![h] = NewRecord(h, next + 2)]
  BY DEF SharingInv, StoreFile
<1>2. CASE g # h
  <2>1. access'[g] = access[g]
    BY <1>1, <1>2 DEF TypeOK
  <2>2. PICK m \in Id : m = access[g].mailbox /\ mailbox[m] # None /\ Opens(m) /\ access[g] # None
    BY Loads
  <2>3. Opens(m)'
    BY <2>2, StoreKeepsOpen
  <2> QED
    BY <2>1, <2>2, <2>3, LoadsAfter
<1>3. CASE g = h
  <2>1. CanDraw(3 + Len(content)) /\ Len(content) \in Nat /\ next \in Nat \ {0}
    BY <1>1, Typed, ContentIsSeq DEF StoreFile
  <2>2. next \in Id /\ next + 1 \in Id /\ next + 2 \in Id
    BY <2>1, BoundsAssumption DEF CanDraw, Id
  <2>3. /\ mailbox'[next + 2] = [fileKey |-> next, inode |-> next + 1]
        /\ inode'[next + 1] = encryptAndMAC(NewBlocks(next + 3, Len(content)), next)
    BY <1>1, <2>2 DEF StoreFile, TypeOK
  <2>4. NewBlocks(next + 3, Len(content)) \in Seq(Id)
    BY <2>1, NewBlocksProperties DEF CanDraw
  <2>5. inode'[next + 1] # None /\ inode'[next + 1].key = next
    BY <2>2, <2>3, <2>4, SealedIsStored
  <2>6. mailbox'[next + 2] # None
    BY <2>2, <2>3, NoneAssumption DEF MailboxNode
  <2>7. PICK m \in Id : m = next + 2
    BY <2>2
  <2>8. Opens(m)'
    BY <2>3, <2>5, <2>6, <2>7 DEF Opens, decryptAndVerify
  <2>9. access'[h] = NewRecord(h, next + 2)
    BY <1>1, <1>3 DEF TypeOK
  <2>10. access'[h] # None /\ access'[h].mailbox = m
    <3>1. NewRecord(h, next + 2) \in Access
      BY <2>2 DEF NewRecord, NoChildren, Access, ChildrenMap
    <3> QED
      BY <2>7, <2>9, <3>1, NoneAssumption DEF NewRecord
  <2> QED
    BY <1>3, <2>8, <2>10, LoadsAfter
<1> QED
  BY <1>2, <1>3

\* An append takes no handle its file.
LEMMA AppendLosesNone ==
    ASSUME SharingInv, SharingInv', NEW c \in Client, NEW f \in Filename, NEW content \in Content,
           AppendToFile(c, f, content), NEW g \in Handle, LoadFileSucceeds(g)
    PROVE  LoadFileSucceeds(g)'
<1>1. PICK m \in Id : m = access[g].mailbox /\ Opens(m) /\ access[g] # None
  BY Loads
<1>2. Opens(m)'
  BY <1>1, AppendKeepsOpen
<1>3. access' = access
  BY DEF AppendToFile
<1> QED
  BY <1>1, <1>2, <1>3, LoadsAfter

\* An invitation takes no handle its file.
LEMMA InvitationLosesNone ==
    ASSUME SharingInv, SharingInv', NEW c \in Client, NEW f \in Filename, NEW r \in User,
           CreateInvitation(c, f, r), NEW g \in Handle, LoadFileSucceeds(g)
    PROVE  LoadFileSucceeds(g)'
<1> DEFINE h == <<session[c].name, f>>
<1>1. TypeOK /\ TypeOK'
  BY DEF SharingInv
<1>2. PICK m \in Id : /\ m = access[g].mailbox /\ mailbox[m] # None /\ Opens(m)
                      /\ access[g] # None /\ access[g] \in Access
  BY Loads
<1>3. next \in Id /\ Opens(m)'
  BY <1>2, InvitationKeepsOpen
<1>4. access' = access \/ access' = [access EXCEPT ![h] = WithChild(access[h], r, next)]
  BY DEF CreateInvitation
<1>5. WithChild(access[g], r, next) # None /\ WithChild(access[g], r, next).mailbox = m
  <2>1. WithChild(access[g], r, next) \in Access
    BY <1>2, <1>3 DEF WithChild, Access, ChildrenMap
  <2> QED
    BY <1>2, <2>1, NoneAssumption DEF WithChild
<1>6. access'[g] = access[g] \/ access'[g] = WithChild(access[g], r, next)
  BY <1>1, <1>4 DEF TypeOK
<1> QED
  BY <1>2, <1>3, <1>5, <1>6, LoadsAfter

\* Accepting an invitation can take a file away only from the handle it replaces.
LEMMA AcceptLossExplained ==
    ASSUME SharingInv, SharingInv', NEW c \in Client, NEW f \in Filename, NEW s \in User,
           NEW j \in Id, AcceptInvitation(c, s, j, f), NEW g \in Handle, LoadFileSucceeds(g),
           ~LoadFileSucceeds(g)'
    PROVE  LossExplained(g)
<1> DEFINE h == <<session[c].name, f>>
<1>1. /\ TypeOK /\ access' = [access EXCEPT ![h] = NewRecord(h, invitation[j].mailbox)]
      /\ invitation[j] # None /\ invitation[j].to = session[c].name
      /\ UNCHANGED <<mailbox, inode, block>>
  BY DEF SharingInv, AcceptInvitation, decryptFor
<1>2. CASE g # h
  <2>1. access'[g] = access[g]
    BY <1>1, <1>2 DEF TypeOK
  <2>2. PICK m \in Id : m = access[g].mailbox /\ Opens(m) /\ access[g] # None
    BY Loads
  <2>3. Opens(m)'
    BY <1>1, <2>2 DEF Opens, decryptAndVerify
  <2> QED
    BY <2>1, <2>2, <2>3, LoadsAfter
<1>3. CASE g = h
  <2>1. access'[g] = NewRecord(g, invitation[j].mailbox)
    BY <1>1, <1>3 DEF TypeOK
  <2> QED
    BY <1>1, <1>3, <2>1 DEF LossExplained
<1> QED
  BY <1>2, <1>3

\* RevokeAccess at handle h takes the file from handles of the same file whose
\* mailbox it does not keep.
LEMMA RevokeLossExplained ==
    ASSUME SharingInv, SharingInv', NEW c \in Client, NEW f \in Filename, NEW r \in User,
           RevokeAccess(c, f, r), NEW g \in Handle, LoadFileSucceeds(g),
           ~LoadFileSucceeds(g)'
    PROVE  LossExplained(g)
<1> DEFINE h == <<session[c].name, f>>
           i == mailbox[access[h].mailbox].inode
           a == WithoutChild(access[h], r, next + 1)
<1>0. RevokeEffect(h, access[h].mailbox, i, r)
  BY RevocationEffect
<1>1. /\ h \in Handle /\ access[h] # None /\ access[h] \in Access /\ access[h].mailbox \in Id
      /\ i \in Id /\ Opens(access[h].mailbox) /\ mailbox[access[h].mailbox] # None
      /\ next + 1 \in Id /\ next \in Id
      /\ access' = [access EXCEPT ![h] = a]
      /\ inode'[i] # None /\ inode'[i].key = next
      /\ \A x \in Id \ {i} : inode'[x] = inode[x]
  BY <1>0 DEF RevokeEffect
<1>2. /\ \A m \in Kept(h, r) : m \in Id /\ mailbox[m] # None /\ mailbox[m].inode = i
      /\ \A m \in Id : mailbox[m] # None =>
            /\ m # next + 1
            /\ mailbox'[m] = IF m \in Kept(h, r) THEN [fileKey |-> next, inode |-> i]
                             ELSE mailbox[m]
      /\ \A m \in Id : m = next + 1 => Opens(m)'
  BY <1>0 DEF RevokeEffect
<1>3. TypeOK
  BY DEF SharingInv
<1>4. access'[h] = a /\ \A x \in Handle \ {h} : access'[x] = access[x]
  BY <1>1, <1>3 DEF TypeOK
<1>5. a \in Access /\ a # None /\ a.mailbox = next + 1
      /\ \A u \in User : a.children[u] = IF u = r THEN None ELSE access[h].children[u]
  <2>1. a \in Access
    BY <1>1 DEF WithoutChild, Access, ChildrenMap
  <2>2. access[h].children \in [User -> Id \cup {None}]
    BY <1>1 DEF Access, ChildrenMap
  <2> QED
    BY <2>1, <2>2, NoneAssumption DEF WithoutChild
<1> HIDE DEF a
<1>6. g # h
  <2> SUFFICES ASSUME g = h PROVE FALSE
    OBVIOUS
  <2>1. PICK m \in Id : m = next + 1
    BY <1>1
  <2> QED
    BY <1>2, <1>4, <1>5, <2>1, LoadsAfter
<1>7. PICK m \in Id : /\ m = access[g].mailbox /\ mailbox[m] # None /\ Opens(m)
                      /\ access[g] # None
  BY Loads
<1>8. access'[g] = access[g]
  BY <1>4, <1>6
<1>9. ~Opens(m)'
  BY <1>7, <1>8, LoadsAfter
<1>10. m \notin Kept(h, r)
  <2> SUFFICES ASSUME m \in Kept(h, r) PROVE FALSE
    OBVIOUS
  <2>1. mailbox'[m] = [fileKey |-> next, inode |-> i]
    BY <1>2, <1>7
  <2>2. mailbox'[m] # None
    BY <1>1, <2>1, NoneAssumption DEF MailboxNode
  <2>3. mailbox'[m].fileKey = next /\ mailbox'[m].inode = i
    BY <2>1
  <2>4. Opens(m)'
    BY <1>1, <2>2, <2>3 DEF Opens, decryptAndVerify
  <2> QED
    BY <1>9, <2>4
<1>11. mailbox'[m] = mailbox[m]
  BY <1>2, <1>7, <1>10
<1>12. mailbox[m].inode = i
  <2> SUFFICES ASSUME mailbox[m].inode # i PROVE FALSE
    OBVIOUS
  <2>1. mailbox[m].inode \in Id
    BY <1>3, <1>7, Typed DEF MailboxNode
  <2>2. inode'[mailbox[m].inode] = inode[mailbox[m].inode]
    BY <1>1, <2>1
  <2> QED
    BY <1>7, <1>9, <1>11, <2>2 DEF Opens, decryptAndVerify
<1>13. LoadFileSucceeds(h) /\ SameFile(h, g)
  BY <1>1, <1>7, <1>12, LoadsWhatOpens DEF SameFile
<1>14. access'[h].mailbox # access[h].mailbox
  BY <1>1, <1>2, <1>4, <1>5
<1>15. \A u \in User : access'[h].children[u] # access[g].mailbox
  <2> SUFFICES ASSUME NEW u \in User, access'[h].children[u] = m PROVE FALSE
    BY <1>7
  <2>1. u # r /\ m = access[h].children[u] /\ m # None
    BY <1>4, <1>5, NoneAssumption
  <2> QED
    BY <1>10, <2>1 DEF Kept
<1> QED
  BY <1>1, <1>6, <1>13, <1>14, <1>15 DEF LossExplained

\* Every step explains the handles that lose their file.
LEMMA LossStep ==
    ASSUME SharingInv, SharingInv', [Next]_vars
    PROVE  LossesExplained \/ UNCHANGED vars
<1> SUFFICES ASSUME Next, NEW h \in Handle, LoadFileSucceeds(h), ~LoadFileSucceeds(h)'
             PROVE  LossExplained(h)
  BY DEF LossesExplained
<1>1. ASSUME UNCHANGED <<access, mailbox, inode, block>> PROVE FALSE
  BY <1>1 DEF LoadFileSucceeds, Opens, BlocksOpen, decryptAndVerify
<1>2. ASSUME NEW c \in Client, NEW u \in User, InitUser(c, u) \/ GetUser(c, u) PROVE FALSE
  BY <1>1, <1>2 DEF InitUser, GetUser
<1> QED
  BY <1>2, StoreLosesNone, AppendLosesNone, InvitationLosesNone, AcceptLossExplained,
     RevokeLossExplained DEF Next

\* A handle stops loading its file only because its user accepted another invitation
\* under the name, or because another handle of the file was re-keyed and did not
\* keep its mailbox.
THEOREM AccessIsLostByRekeyOnly == Spec => AccessLostByRekeyOnly
<1>1. SharingInv /\ SharingInv' /\ [Next]_vars => [LossesExplained]_vars
  BY LossStep
<1>2. Spec => [][LossesExplained]_vars
  BY <1>1, Invariance, PTL DEF Spec
<1> QED
  BY <1>2 DEF AccessLostByRekeyOnly, LossesExplained, LossExplained

(***************************************************************************)
(* The refinement of SharedFiles.                                           *)
(***************************************************************************)
\* A record's own mailbox is not among its children.
NotOwnChild ==
    \A h \in Handle : access[h] # None =>
        \A u \in User : access[h].children[u] # access[h].mailbox

\* Records that are left alone, or written without children or with one fresh child
\* or under a fresh mailbox.
LEMMA NotOwnChildStep ==
    ASSUME SharingInv, NotOwnChild, [Next]_vars
    PROVE  NotOwnChild'
<1>1. TypeOK /\ TreeInv /\ FreshUnused /\ next \in Nat \ {0}
  BY Typed DEF SharingInv, TreeInv
<1>2. ASSUME NEW h \in Handle, NEW a, access' = [access EXCEPT ![h] = a],
             \A u \in User : a.children[u] # a.mailbox
      PROVE  NotOwnChild'
  <2>1. access'[h] = a /\ \A g \in Handle \ {h} : access'[g] = access[g]
    BY <1>1, <1>2 DEF TypeOK
  <2> QED
    BY <1>2, <2>1 DEF NotOwnChild
<1>3. ASSUME NEW h, NEW m \in Id
      PROVE  \A u \in User : NewRecord(h, m).children[u] # NewRecord(h, m).mailbox
  BY <1>3, NoneAssumption DEF NewRecord, NoChildren
<1>4. ASSUME UNCHANGED access PROVE NotOwnChild'
  BY <1>4 DEF NotOwnChild
<1>5. ASSUME NEW c \in Client, session[c] # None, NEW f \in Filename
      PROVE  <<session[c].name, f>> \in Handle
  BY <1>1, <1>5, Typed DEF Session, Handle
<1>6. ASSUME NEW c \in Client, NEW f \in Filename, NEW content \in Content,
             StoreFile(c, f, content)
      PROVE  NotOwnChild'
  <2> DEFINE h == <<session[c].name, f>>
  <2>1. /\ session[c] # None /\ access' = [access EXCEPT ![h] = NewRecord(h, next + 2)]
        /\ CanDraw(3 + Len(content)) /\ Len(content) \in Nat
    BY <1>6, ContentIsSeq DEF StoreFile
  <2>2. h \in Handle /\ next + 2 \in Id
    BY <1>1, <1>5, <2>1, BoundsAssumption DEF CanDraw, Id
  <2> QED
    BY <1>2, <1>3, <2>1, <2>2
<1>7. ASSUME NEW c \in Client, NEW f \in Filename, NEW s \in User, NEW j \in Id,
             AcceptInvitation(c, s, j, f)
      PROVE  NotOwnChild'
  <2> DEFINE h == <<session[c].name, f>>
  <2>1. /\ session[c] # None /\ invitation[j] # None
        /\ access' = [access EXCEPT ![h] = NewRecord(h, invitation[j].mailbox)]
    BY <1>7 DEF AcceptInvitation
  <2>2. h \in Handle /\ invitation[j].mailbox \in Id
    BY <1>1, <1>5, <2>1, Typed DEF Invitation
  <2> QED
    BY <1>2, <1>3, <2>1, <2>2
<1>8. ASSUME NEW c \in Client, NEW f \in Filename, NEW r \in User, CreateInvitation(c, f, r)
      PROVE  NotOwnChild'
  <2> DEFINE h == <<session[c].name, f>>
             a == WithChild(access[h], r, next)
  <2>1. /\ session[c] # None /\ access[h] # None /\ CanDraw(2)
        /\ access' = [access EXCEPT ![h] = a] \/ UNCHANGED access
    BY <1>8 DEF CreateInvitation
  <2>2. h \in Handle /\ next \in Id
    BY <1>1, <1>5, <2>1, BoundsAssumption DEF CanDraw, Id
  <2>3. access[h].mailbox # next /\ access[h].children \in [User -> Id \cup {None}]
    <3>1. access[h] \in Access /\ mailbox[access[h].mailbox] # None
      BY <1>1, <2>1, <2>2, Typed, RecordFacts
    <3>2. mailbox[next] = None
      BY <1>1, <2>2 DEF FreshUnused
    <3> QED
      BY <3>1, <3>2 DEF Access, ChildrenMap
  <2>4. \A u \in User : a.children[u] # a.mailbox
    BY <2>1, <2>2, <2>3 DEF WithChild, NotOwnChild
  <2> QED
    BY <1>2, <1>4, <2>1, <2>2, <2>4
<1>9. ASSUME NEW c \in Client, NEW f \in Filename, NEW r \in User, RevokeAccess(c, f, r)
      PROVE  NotOwnChild'
  <2> DEFINE h == <<session[c].name, f>>
             a == WithoutChild(access[h], r, next + 1)
  <2>1. RevokeEffect(h, access[h].mailbox, mailbox[access[h].mailbox].inode, r)
    BY <1>9, RevocationEffect
  <2>2. /\ h \in Handle /\ access[h] # None /\ access[h] \in Access /\ next + 1 \in Id
        /\ mailbox[next + 1] = None /\ access' = [access EXCEPT ![h] = a]
    BY <2>1 DEF RevokeEffect
  <2>3. /\ access[h].children \in [User -> Id \cup {None}]
        /\ \A u \in User : access[h].children[u] # next + 1
    BY <1>1, <2>2, RecordFacts, NoneAssumption DEF Access, ChildrenMap
  <2>4. \A u \in User : a.children[u] # a.mailbox
    BY <2>2, <2>3, NoneAssumption DEF WithoutChild
  <2> QED
    BY <1>2, <2>2, <2>4
<1>10. ASSUME NEW c \in Client, NEW u \in User, InitUser(c, u) \/ GetUser(c, u)
       PROVE  NotOwnChild'
  BY <1>4, <1>10 DEF InitUser, GetUser
<1>11. ASSUME NEW c \in Client, NEW f \in Filename, NEW content \in Content,
              AppendToFile(c, f, content)
       PROVE  NotOwnChild'
  BY <1>4, <1>11 DEF AppendToFile
<1>12. CASE UNCHANGED vars
  BY <1>4, <1>12 DEF vars
<1> QED
  BY <1>6, <1>7, <1>8, <1>9, <1>10, <1>11, <1>12 DEF Next

\* What the files and the mailboxes of the store stand for.
Contents == [i \in Id |-> IF inode[i] = None THEN None ELSE PlainContent(i)]
Grants == [m \in Id |-> IF mailbox[m] = None THEN None
                        ELSE [file |-> mailbox[m].inode, standing |-> StandingOf(m)]]

\* The content of a file, chunk by chunk.
LEMMA PlainShape ==
    ASSUME SharingInv, NEW i \in Id, inode[i] # None
    PROVE  /\ inode[i].plain \in Seq(Id) /\ Len(inode[i].plain) \in Nat
           /\ PlainContent(i) \in Seq(Chunk)
           /\ Len(PlainContent(i)) = Len(inode[i].plain)
           /\ \A n \in 1 .. Len(inode[i].plain) :
                 /\ inode[i].plain[n] \in Range(inode[i].plain)
                 /\ PlainContent(i)[n] = block[inode[i].plain[n]].plain
<1> DEFINE ids == inode[i].plain
           p == PlainContent(i)
<1>1. TypeOK /\ FreshUnused /\ KeyCoherent
  BY DEF SharingInv, TreeInv, BlockInv
<1>2. ids \in Seq(Id) /\ Len(ids) \in Nat /\ DOMAIN ids = 1 .. Len(ids)
  BY <1>1, Typed, LenProperties DEF SealedInode
<1>3. ASSUME NEW n \in 1 .. Len(ids)
      PROVE  /\ ids[n] \in Range(ids)
             /\ decryptAndVerify(block[ids[n]], inode[i].key)
             /\ block[ids[n]].plain \in Chunk
  <2>1. ids[n] \in Range(ids)
    BY <1>2 DEF Range
  <2>2. ids[n] \in Id /\ block[ids[n]] # None /\ block[ids[n]].key = inode[i].key
    BY <1>1, <2>1, BlocksAreDrawn
  <2>3. block[ids[n]] \in SealedBlock
    BY <1>1, <2>2, Typed
  <2> QED
    BY <2>1, <2>2, <2>3 DEF decryptAndVerify, SealedBlock
<1>4. p = [n \in 1 .. Len(ids) |-> block[ids[n]].plain]
  BY <1>3 DEF PlainContent
<1>5. p \in [1 .. Len(ids) -> Chunk]
  BY <1>3, <1>4
<1>6. p \in Seq(Chunk)
  BY <1>2, <1>5, SeqDef
<1>7. Len(p) = Len(ids)
  BY <1>2, <1>5, <1>6, LenProperties
<1> QED
  BY <1>2, <1>3, <1>4, <1>6, <1>7

LEMMA PlainShapeAfter ==
    ASSUME SharingInv', NEW i \in Id, inode'[i] # None
    PROVE  /\ inode'[i].plain \in Seq(Id) /\ Len(inode'[i].plain) \in Nat
           /\ PlainContent(i)' \in Seq(Chunk)
           /\ Len(PlainContent(i)') = Len(inode'[i].plain)
           /\ \A n \in 1 .. Len(inode'[i].plain) :
                 /\ inode'[i].plain[n] \in Range(inode'[i].plain)
                 /\ PlainContent(i)'[n] = block'[inode'[i].plain[n]].plain
<1>1. (SharingInv /\ inode[i] # None =>
           /\ inode[i].plain \in Seq(Id) /\ Len(inode[i].plain) \in Nat
           /\ PlainContent(i) \in Seq(Chunk)
           /\ Len(PlainContent(i)) = Len(inode[i].plain)
           /\ \A n \in 1 .. Len(inode[i].plain) :
                 /\ inode[i].plain[n] \in Range(inode[i].plain)
                 /\ PlainContent(i)[n] = block[inode[i].plain[n]].plain)'
  BY PlainShape, PTL
<1> QED
  BY <1>1

\* A file whose block list and whose chunks stay has the content it had.
LEMMA ContentStays ==
    ASSUME SharingInv, SharingInv', NEW i \in Id, inode[i] # None, inode'[i] # None,
           inode'[i].plain = inode[i].plain,
           \A b \in Range(inode[i].plain) : block'[b].plain = block[b].plain
    PROVE  PlainContent(i)' = PlainContent(i)
<1>1. /\ PlainContent(i) \in Seq(Chunk) /\ PlainContent(i)' \in Seq(Chunk)
      /\ Len(PlainContent(i)') = Len(PlainContent(i))
      /\ Len(PlainContent(i)') = Len(inode[i].plain)
  BY PlainShape, PlainShapeAfter
<1>2. \A n \in 1 .. Len(PlainContent(i)') : PlainContent(i)'[n] = PlainContent(i)[n]
  BY <1>1, PlainShape, PlainShapeAfter
<1> QED
  BY <1>1, <1>2, SeqEqual

\* Two states in which the same files exist, with the same contents.
LEMMA SameContents ==
    ASSUME \A i \in Id : inode'[i] = None <=> inode[i] = None,
           \A i \in Id : inode[i] # None => PlainContent(i)' = PlainContent(i)
    PROVE  Contents' = Contents
  BY DEF Contents

\* What the grant of a mailbox says.
LEMMA GrantOf ==
    ASSUME TypeOK, NEW m \in Id, mailbox[m] # None
    PROVE  /\ Grants[m] # None /\ Grants[m].file = mailbox[m].inode
           /\ Grants[m].standing = StandingOf(m) /\ StandingOf(m) \in Abstract!Standing
           /\ Abstract!IsLive(m) <=> Opens(m)
<1>1. mailbox[m].inode \in Id
  BY Typed DEF MailboxNode
<1>2. StandingOf(m) \in Abstract!Standing /\ (StandingOf(m) = "live" <=> Opens(m))
  BY DEF StandingOf, Abstract!Standing
<1>3. Grants[m] = [file |-> mailbox[m].inode, standing |-> StandingOf(m)]
  BY DEF Grants
<1>4. Grants[m] # None
  BY <1>1, <1>2, <1>3, GrantAssumption
<1>5. Grants[m].file = mailbox[m].inode /\ Grants[m].standing = StandingOf(m)
  BY <1>3
<1>6. Abstract!IsLive(m) <=> Grants[m] # None /\ Grants[m].standing = "live"
  BY DEF Abstract!IsLive, Grants
<1> QED
  BY <1>2, <1>4, <1>5, <1>6

\* New blocks leave the content of every file that does not list them.
LEMMA NewBlocksElsewhere ==
    ASSUME SharingInv, SharingInv', NEW first \in Nat \ {0}, NEW content \in Content, NEW k \in Id,
           first >= next, block' = WriteBlocks(first, content, k),
           NEW x \in Id, inode[x] # None, inode'[x] = inode[x]
    PROVE  PlainContent(x)' = PlainContent(x)
<1>1. TypeOK /\ FreshUnused /\ KeyCoherent /\ next \in Nat
  BY Typed DEF SharingInv, TreeInv, BlockInv
<1>2. ASSUME NEW b \in Range(inode[x].plain) PROVE block'[b] = block[b]
  <2>1. b \in Id /\ b < next
    BY <1>1, BlocksAreDrawn
  <2>2. b < first
    BY <1>1, <2>1 DEF Id
  <2> QED
    BY <2>1, <2>2, WriteBlocksElsewhere
<1> QED
  BY <1>2, ContentStays

\* File i lists the blocks old as before and the blocks new, just written.
GainsBlocks(first, content, k, i, old, new) ==
    /\ first \in Nat \ {0} /\ content \in Content /\ k \in Id
    /\ first + Len(content) <= MaxId + 1
    /\ block' = WriteBlocks(first, content, k)
    /\ i \in Id /\ old \in Seq(Id) /\ new \in Seq(Id)
    /\ new = NewBlocks(first, Len(content))
    /\ inode'[i] # None /\ inode'[i].plain = old \o new

\* A file that gains new blocks gains the content they were written with.
LEMMA NewBlocksRead ==
    ASSUME SharingInv', NEW first, NEW content, NEW k, NEW i, NEW old, NEW new,
           GainsBlocks(first, content, k, i, old, new)
    PROVE  /\ Len(PlainContent(i)') = Len(old) + Len(content)
           /\ \A n \in 1 .. Len(content) : PlainContent(i)'[Len(old) + n] = content[n]
           /\ \A n \in 1 .. Len(old) : PlainContent(i)'[n] = block'[old[n]].plain
<1> USE DEF GainsBlocks
<1>1. Len(content) \in Nat /\ Len(old) \in Nat
  BY ContentIsSeq, LenProperties
<1>2. Len(new) = Len(content) /\ \A n \in 1 .. Len(content) : new[n] = first + n - 1
  BY <1>1, NewBlocksProperties
<1> DEFINE cat == old \o new
<1>3. /\ Len(cat) = Len(old) + Len(new)
      /\ \A n \in 1 .. Len(old) + Len(new) : cat[n] =
             IF n <= Len(old) THEN old[n] ELSE new[n - Len(old)]
  BY ConcatProperties
<1>4. /\ Len(PlainContent(i)') = Len(cat)
      /\ \A n \in 1 .. Len(cat) : PlainContent(i)'[n] = block'[cat[n]].plain
  BY PlainShapeAfter, ZenonT(60)
<1> HIDE DEF cat
<1>5. ASSUME NEW n \in 1 .. Len(content) PROVE PlainContent(i)'[Len(old) + n] = content[n]
  <2>1. Len(old) + n \in 1 .. Len(old) + Len(new) /\ ~(Len(old) + n <= Len(old))
    BY <1>1, <1>2
  <2>2. cat[Len(old) + n] = new[n]
    BY <1>1, <1>3, <2>1
  <2>3. new[n] = first + n - 1 /\ new[n] \in Id
    BY <1>1, <1>2, BoundsAssumption DEF Id
  <2>4. block'[new[n]] = encryptAndMAC(content[n], k)
    BY <1>1, <2>3 DEF WriteBlocks
  <2>5. block'[new[n]].plain = content[n]
    BY <2>4 DEF encryptAndMAC
  <2> QED
    BY <1>3, <1>4, <2>1, <2>2, <2>5
<1>6. ASSUME NEW n \in 1 .. Len(old) PROVE PlainContent(i)'[n] = block'[old[n]].plain
  <2>1. n \in 1 .. Len(old) + Len(new) /\ n <= Len(old)
    BY <1>1, <1>2
  <2> QED
    BY <1>3, <1>4, <2>1
<1> QED
  BY <1>2, <1>3, <1>4, <1>5, <1>6

\* StoreFile puts a new file with one live grant.
LEMMA PutStep ==
    ASSUME SharingInv, SharingInv', NEW first \in Nat \ {0}, NEW content \in Content, NEW k \in Id,
           first + Len(content) <= MaxId + 1, first >= next,
           NEW i \in Id, NEW g \in Id, inode[i] = None, mailbox[g] = None, revoked' = revoked,
           mailbox' = [mailbox EXCEPT ![g] = [fileKey |-> k, inode |-> i]],
           inode' = [inode EXCEPT ![i] = encryptAndMAC(NewBlocks(first, Len(content)), k)],
           block' = WriteBlocks(first, content, k)
    PROVE  Abstract!AbsNext
<1> DEFINE new == NewBlocks(first, Len(content))
<1>1. TypeOK /\ NoDanglingReference
  BY DEF SharingInv, TreeInv
<1>2. new \in Seq(Id) /\ content \in Seq(Chunk) /\ Len(content) \in Nat
  BY ContentIsSeq, NewBlocksProperties
<1>3. inode'[i] = encryptAndMAC(new, k) /\ \A x \in Id \ {i} : inode'[x] = inode[x]
  BY <1>1 DEF TypeOK
<1>4. inode'[i] # None /\ inode'[i].key = k /\ inode'[i].plain = new
  BY <1>2, <1>3, SealedIsStored DEF encryptAndMAC
<1>5. /\ mailbox'[g] = [fileKey |-> k, inode |-> i] /\ mailbox'[g] # None
      /\ \A m \in Id \ {g} : mailbox'[m] = mailbox[m]
  <2>1. [fileKey |-> k, inode |-> i] \in MailboxNode
    BY DEF MailboxNode
  <2> QED
    BY <1>1, <2>1, NoneAssumption DEF TypeOK
<1>6. PlainContent(i)' = content
  <2>1. PICK none \in Seq(Id) : none = << >>
    BY EmptySeq
  <2>2. PICK t \in Seq(Id) : t = new
    BY <1>2
  <2>3. none \o t = t /\ Len(none) = 0
    BY <2>1, ConcatEmptySeq
  <2>4. /\ Len(PlainContent(i)') = Len(none) + Len(content)
        /\ \A n \in 1 .. Len(content) : PlainContent(i)'[Len(none) + n] = content[n]
    <3>1. GainsBlocks(first, content, k, i, none, t)
      BY <1>4, <2>2, <2>3 DEF GainsBlocks
    <3> QED
      BY <3>1, NewBlocksRead
  <2>5. /\ Len(PlainContent(i)') = Len(content)
        /\ \A n \in 1 .. Len(content) : PlainContent(i)'[n] = content[n]
    BY <1>2, <2>3, <2>4
  <2>6. PlainContent(i)' \in Seq(Chunk)
    BY <1>4, PlainShapeAfter
  <2> QED
    BY <1>2, <2>5, <2>6, SeqEqual
<1>7. \A x \in Id \ {i} : inode[x] # None => PlainContent(x)' = PlainContent(x)
  BY <1>3, NewBlocksElsewhere
<1>8. Contents[i] = None /\ Contents' = [Contents EXCEPT ![i] = content]
  BY <1>3, <1>4, <1>6, <1>7 DEF Contents
<1>9. ASSUME NEW m \in Id \ {g}, mailbox[m] # None PROVE StandingOf(m)' = StandingOf(m)
  <2>1. mailbox[m].inode \in Id /\ mailbox[m].inode # i
    BY <1>1, <1>9, Typed DEF MailboxNode, NoDanglingReference
  <2>2. inode'[mailbox[m].inode] = inode[mailbox[m].inode]
    BY <1>3, <2>1
  <2> QED
    BY <1>5, <2>2 DEF StandingOf, Opens, decryptAndVerify
<1>10. StandingOf(g)' = "live"
  <2>1. mailbox'[g].fileKey = k /\ mailbox'[g].inode = i
    BY <1>5
  <2> QED
    BY <1>4, <1>5, <2>1 DEF StandingOf, Opens, decryptAndVerify
<1>11. /\ Grants[g] = None
       /\ Grants' = [Grants EXCEPT ![g] = [file |-> i, standing |-> "live"]]
  <2>1. mailbox'[g].inode = i
    BY <1>5
  <2>2. Grants'[g] = [file |-> i, standing |-> "live"]
    BY <1>5, <1>10, <2>1 DEF Grants
  <2>3. \A m \in Id \ {g} : Grants'[m] = Grants[m]
    BY <1>5, <1>9 DEF Grants
  <2>4. Grants[g] = None
    BY DEF Grants
  <2>5. Grants' = [m \in Id |-> Grants'[m]] /\ Grants = [m \in Id |-> Grants[m]]
    BY DEF Grants
  <2> QED
    BY <2>2, <2>3, <2>4, <2>5
<1>12. Abstract!Put(i, g)
  BY <1>8, <1>11 DEF Abstract!Put, Contents, Grants
<1> QED
  BY <1>12 DEF Abstract!AbsNext

LEMMA StorePuts ==
    ASSUME SharingInv, SharingInv', NEW c \in Client, NEW f \in Filename, NEW content \in Content,
           StoreFile(c, f, content)
    PROVE  Abstract!AbsNext
<1>1. TypeOK /\ FreshUnused /\ next \in Nat \ {0}
  BY Typed DEF SharingInv, TreeInv
<1>2. CanDraw(3 + Len(content)) /\ Len(content) \in Nat
  BY ContentIsSeq DEF StoreFile
<1>3. PICK k \in Id, i \in Id, g \in Id, first \in Nat \ {0} :
          k = next /\ i = next + 1 /\ g = next + 2 /\ first = next + 3
  BY <1>1, <1>2, BoundsAssumption DEF CanDraw, Id
<1>4. first + Len(content) <= MaxId + 1 /\ first >= next
  BY <1>1, <1>2, <1>3, BoundsAssumption DEF CanDraw
<1>5. inode[i] = None /\ mailbox[g] = None
  BY <1>1, <1>3 DEF FreshUnused
<1>6. /\ mailbox' = [mailbox EXCEPT ![g] = [fileKey |-> k, inode |-> i]]
      /\ inode' = [inode EXCEPT ![i] = encryptAndMAC(NewBlocks(first, Len(content)), k)]
      /\ block' = WriteBlocks(first, content, k) /\ revoked' = revoked
  BY <1>3 DEF StoreFile
<1> QED
  BY <1>4, <1>5, <1>6, PutStep

\* AppendToFile extends the file through the caller's grant.
LEMMA AppendExtends ==
    ASSUME SharingInv, SharingInv', NEW c \in Client, NEW f \in Filename, NEW content \in Content,
           AppendToFile(c, f, content)
    PROVE  Abstract!AbsNext
<1>1. TypeOK /\ next \in Nat \ {0} /\ FreshUnused /\ KeyCoherent
  BY Typed DEF SharingInv, TreeInv, BlockInv
<1>2. PICK h \in Handle : h = <<session[c].name, f>>
  BY <1>1, Typed DEF AppendToFile, Session, Handle
<1>3. access[h] # None /\ Opens(access[h].mailbox)
  BY <1>2 DEF AppendToFile
<1>4. PICK g \in Id : g = access[h].mailbox /\ mailbox[g] # None
  BY <1>3, RecordFacts DEF SharingInv
<1>5. PICK i \in Id, k \in Id : i = mailbox[g].inode /\ k = mailbox[g].fileKey
  BY <1>1, <1>4, Typed DEF MailboxNode
<1>6. inode[i] # None /\ inode[i].key = k
  BY <1>3, <1>4, <1>5 DEF Opens, decryptAndVerify
<1>7. PICK first \in Nat \ {0} : first = next
  BY <1>1
<1>8. /\ first + Len(content) <= MaxId + 1
      /\ block' = WriteBlocks(first, content, k)
      /\ inode' = [inode EXCEPT ![i] =
                      encryptAndMAC(inode[i].plain \o NewBlocks(first, Len(content)), k)]
      /\ UNCHANGED <<mailbox, revoked>>
  BY <1>2, <1>4, <1>5, <1>7 DEF AppendToFile, CanDraw
<1>9. content \in Seq(Chunk) /\ Len(content) \in Nat
  BY ContentIsSeq
<1>9a. PICK old \in Seq(Id), new \in Seq(Id) :
          old = inode[i].plain /\ new = NewBlocks(first, Len(content))
  BY <1>6, <1>8, <1>9, PlainShape, NewBlocksProperties
<1>9b. Len(old) \in Nat /\ old \o new \in Seq(Id)
  BY IdsOfConcat, LenProperties
<1>10. inode'[i] = encryptAndMAC(old \o new, k) /\ \A x \in Id \ {i} : inode'[x] = inode[x]
  BY <1>1, <1>8, <1>9a DEF TypeOK
<1>11. inode'[i] # None /\ inode'[i].plain = old \o new
  <2>1. PICK s \in Seq(Id) : s = old \o new
    BY <1>9b
  <2>2. encryptAndMAC(s, k) # None /\ encryptAndMAC(s, k).plain = s
    BY SealedIsStored DEF encryptAndMAC
  <2> QED
    BY <1>10, <2>1, <2>2
<1>12. PlainContent(i)' = PlainContent(i) \o content
  <2>1. PlainContent(i)' \in Seq(Chunk)
    BY <1>11, PlainShapeAfter
  <2>2. /\ PlainContent(i) \in Seq(Chunk) /\ Len(PlainContent(i)) = Len(old)
        /\ \A n \in 1 .. Len(old) : /\ old[n] \in Range(old)
                                    /\ PlainContent(i)[n] = block[old[n]].plain
    BY <1>6, <1>9a, PlainShape
  <2>3. /\ Len(PlainContent(i)') = Len(old) + Len(content)
        /\ \A n \in 1 .. Len(content) : PlainContent(i)'[Len(old) + n] = content[n]
        /\ \A n \in 1 .. Len(old) : PlainContent(i)'[n] = block'[old[n]].plain
    <3>1. GainsBlocks(first, content, k, i, old, new)
      BY <1>8, <1>11, <1>9a DEF GainsBlocks
    <3> QED
      BY <3>1, NewBlocksRead
  <2>4. /\ PlainContent(i) \o content \in Seq(Chunk)
        /\ Len(PlainContent(i) \o content) = Len(old) + Len(content)
        /\ \A n \in 1 .. Len(old) + Len(content) : (PlainContent(i) \o content)[n] =
               IF n <= Len(old) THEN PlainContent(i)[n] ELSE content[n - Len(old)]
    <3>1. PICK p \in Seq(Chunk) : p = PlainContent(i)
      BY <2>2
    <3>2. /\ p \o content \in Seq(Chunk)
          /\ Len(p \o content) = Len(p) + Len(content)
          /\ \A n \in 1 .. Len(p) + Len(content) : (p \o content)[n] =
                 IF n <= Len(p) THEN p[n] ELSE content[n - Len(p)]
      BY <1>9, ConcatProperties
    <3> QED
      BY <2>2, <3>1, <3>2
  <2>5. ASSUME NEW b \in Range(old) PROVE block'[b] = block[b]
    <3>1. b \in Id /\ b < next
      BY <1>1, <1>6, <1>9a, BlocksAreDrawn
    <3> QED
      BY <1>7, <1>8, <3>1, WriteBlocksElsewhere
  <2>6. ASSUME NEW n \in 1 .. Len(old) + Len(content)
        PROVE  PlainContent(i)'[n] = (PlainContent(i) \o content)[n]
    <3>1. CASE n <= Len(old)
      <4>1. n \in 1 .. Len(old)
        BY <1>9, <1>9b, <3>1
      <4>2. PlainContent(i)'[n] = block'[old[n]].plain
        BY <2>3, <4>1
      <4>3. old[n] \in Range(old) /\ PlainContent(i)[n] = block[old[n]].plain
        BY <2>2, <4>1
      <4>4. block'[old[n]] = block[old[n]]
        BY <2>5, <4>3
      <4>5. (PlainContent(i) \o content)[n] = PlainContent(i)[n]
        BY <2>4, <3>1
      <4> QED
        BY <4>2, <4>3, <4>4, <4>5
    <3>2. CASE ~(n <= Len(old))
      <4>1. n - Len(old) \in 1 .. Len(content) /\ Len(old) + (n - Len(old)) = n
        BY <1>9, <1>9b, <3>2
      <4> QED
        BY <2>3, <2>4, <3>2, <4>1
    <3> QED
      BY <3>1, <3>2
  <2> QED
    BY <2>1, <2>3, <2>4, <2>6, SeqEqual
<1>13. \A x \in Id \ {i} : inode[x] # None => PlainContent(x)' = PlainContent(x)
  <2>1. first >= next
    BY <1>1, <1>7
  <2> QED
    BY <1>8, <1>10, <2>1, NewBlocksElsewhere
<1>14. Contents' = [Contents EXCEPT ![i] = Contents[i] \o content]
  BY <1>6, <1>10, <1>11, <1>12, <1>13 DEF Contents
<1>15. \A m \in Id : StandingOf(m)' = StandingOf(m)
  BY <1>8, AppendKeepsOpen DEF StandingOf
<1>16. Grants' = Grants
  BY <1>8, <1>15 DEF Grants
<1>17. Abstract!IsLive(g) /\ Grants[g].file = i
  BY <1>1, <1>3, <1>4, <1>5, GrantOf
<1>18. Abstract!Extend(g)
  BY <1>14, <1>16, <1>17 DEF Abstract!Extend, Contents, Grants
<1> QED
  BY <1>18 DEF Abstract!AbsNext

\* CreateInvitation shares the caller's grant, whether or not the recipient exists.
LEMMA InvitationShares ==
    ASSUME SharingInv, NEW c \in Client, NEW f \in Filename, NEW r \in User,
           CreateInvitation(c, f, r)
    PROVE  Abstract!AbsNext
<1>1. TypeOK /\ FreshUnused /\ NoDanglingReference /\ next \in Nat \ {0}
  BY Typed DEF SharingInv, TreeInv
<1>2. session[c] # None /\ CanDraw(2) /\ UNCHANGED <<inode, block, revoked>>
  BY DEF CreateInvitation
<1>3. PICK h \in Handle : h = <<session[c].name, f>>
  BY <1>1, <1>2, Typed DEF Session, Handle
<1>4. access[h] # None
  BY <1>3 DEF CreateInvitation
<1>5. PICK g \in Id : g = access[h].mailbox /\ mailbox[g] # None
  BY <1>4, RecordFacts DEF SharingInv
<1>6. PICK copy \in Id : copy = next
  BY <1>1, <1>2, BoundsAssumption DEF CanDraw, Id
<1>7. mailbox[copy] = None /\ copy \notin revoked /\ copy # g
  BY <1>1, <1>5, <1>6 DEF FreshUnused, NoDanglingReference
<1>8. mailbox' = [mailbox EXCEPT ![copy] = mailbox[g]]
  BY <1>3, <1>5, <1>6 DEF CreateInvitation
<1>9. mailbox'[copy] = mailbox[g] /\ \A m \in Id \ {copy} : mailbox'[m] = mailbox[m]
  BY <1>1, <1>8 DEF TypeOK
<1>10. Opens(copy)' <=> Opens(g)
  BY <1>2, <1>9 DEF Opens, decryptAndVerify
<1>11. \A m \in Id \ {copy} : StandingOf(m)' = StandingOf(m)
  BY <1>2, <1>9 DEF StandingOf, Opens, decryptAndVerify
<1>12. StandingOf(copy)' = IF Opens(g) THEN "live" ELSE "stale"
  BY <1>2, <1>7, <1>10 DEF StandingOf
<1>13. Contents' = Contents
  BY <1>2 DEF Contents, PlainContent, decryptAndVerify
<1>14. /\ Grants[g] # None /\ Grants[g].file = mailbox[g].inode /\ Grants[copy] = None
       /\ Abstract!IsLive(g) <=> Opens(g)
  BY <1>1, <1>5, <1>7, GrantOf DEF Grants
<1>15. Grants' = [Grants EXCEPT ![copy] =
             [file |-> Grants[g].file,
              standing |-> IF Abstract!IsLive(g) THEN "live" ELSE "stale"]]
  <2>1. Grants'[copy] = [file |-> Grants[g].file,
                         standing |-> IF Abstract!IsLive(g) THEN "live" ELSE "stale"]
    <3>1. mailbox'[copy] # None /\ mailbox'[copy].inode = Grants[g].file
      BY <1>5, <1>9, <1>14
    <3>2. StandingOf(copy)' = IF Abstract!IsLive(g) THEN "live" ELSE "stale"
      BY <1>12, <1>14
    <3> QED
      BY <3>1, <3>2 DEF Grants
  <2>2. \A m \in Id \ {copy} : Grants'[m] = Grants[m]
    BY <1>9, <1>11 DEF Grants
  <2>3. Grants' = [m \in Id |-> Grants'[m]] /\ Grants = [m \in Id |-> Grants[m]]
    BY DEF Grants
  <2> QED
    BY <2>1, <2>2, <2>3
<1>16. Abstract!Share(g, copy)
  BY <1>13, <1>14, <1>15 DEF Abstract!Share, Contents, Grants
<1> QED
  BY <1>16 DEF Abstract!AbsNext

\* RevokeAccess seals the blocks of the file again and leaves what they hold.
LEMMA RevokeKeepsContents ==
    ASSUME SharingInv, SharingInv', NEW c \in Client, NEW f \in Filename, NEW r \in User,
           RevokeAccess(c, f, r)
    PROVE  Contents' = Contents
<1>1. TypeOK /\ FreshUnused /\ KeyCoherent
  BY DEF SharingInv, TreeInv, BlockInv
<1>2. PICK h, g, i : /\ h = <<session[c].name, f>> /\ g = access[h].mailbox
                     /\ i = mailbox[g].inode /\ RevokeEffect(h, g, i, r)
  BY RevocationEffect
<1>3. /\ i \in Id /\ inode[i] # None /\ inode'[i] # None /\ next \in Id
      /\ inode'[i] = encryptAndMAC(inode[i].plain, next)
      /\ \A x \in Id \ {i} : inode'[x] = inode[x]
  BY <1>2 DEF RevokeEffect
<1>4. inode'[i].plain = inode[i].plain
  BY <1>3 DEF encryptAndMAC
<1>5. block' = Reencrypt(inode[i].plain, next)
  BY <1>2 DEF RevokeAccess
<1>6. \A b \in Id : block'[b].plain = block[b].plain
  BY <1>5 DEF Reencrypt, encryptAndMAC
<1>7. ASSUME NEW x \in Id, inode[x] # None PROVE PlainContent(x)' = PlainContent(x)
  <2>1. inode'[x] # None /\ inode'[x].plain = inode[x].plain
    BY <1>3, <1>4, <1>7
  <2>2. \A b \in Range(inode[x].plain) : block'[b].plain = block[b].plain
    BY <1>1, <1>6, <1>7, BlocksAreDrawn
  <2> QED
    BY <1>7, <2>1, <2>2, ContentStays
<1>8. \A x \in Id : inode'[x] = None <=> inode[x] = None
  BY <1>3
<1> QED
  BY <1>7, <1>8, SameContents

\* RevokeAccess withdraws: the caller's grant goes stale and is replaced by a fresh one.
LEMMA RevokeWithdraws ==
    ASSUME SharingInv, SharingInv', NotOwnChild,
           NEW c \in Client, NEW f \in Filename, NEW r \in User, RevokeAccess(c, f, r)
    PROVE  Abstract!AbsNext
<1>1. /\ TypeOK /\ TypeOK' /\ FreshUnused /\ NoDanglingReference /\ ChildrenShareTheFile
      /\ RevokedNeverReopens /\ RevokedNeverReopens'
  BY DEF SharingInv, TreeInv
<1>2. PICK h, g, i : /\ h = <<session[c].name, f>> /\ g = access[h].mailbox
                     /\ i = mailbox[g].inode /\ RevokeEffect(h, g, i, r)
  BY RevocationEffect
<1>3. /\ h \in Handle /\ access[h] # None /\ g \in Id /\ i \in Id
      /\ Opens(g) /\ mailbox[g] # None /\ inode'[i] # None /\ inode'[i].key = next
      /\ \A x \in Id \ {i} : inode'[x] = inode[x]
  BY <1>2 DEF RevokeEffect
<1>4. PICK fresh \in Id : fresh = next + 1
  BY <1>2 DEF RevokeEffect
<1>5. PICK k \in Id : k = next
  BY <1>2 DEF RevokeEffect
<1>6. mailbox[fresh] = None /\ Opens(fresh)' /\ mailbox'[fresh] = [fileKey |-> k, inode |-> i]
  BY <1>2, <1>4, <1>5 DEF RevokeEffect
<1>7. ASSUME NEW m \in Id, mailbox[m] # None
      PROVE  /\ m # fresh /\ mailbox[m].fileKey # k
             /\ mailbox'[m] = IF m \in Kept(h, r) THEN [fileKey |-> k, inode |-> i]
                              ELSE mailbox[m]
  BY <1>2, <1>4, <1>5, <1>7 DEF RevokeEffect
<1>8. \A m \in Kept(h, r) : m \in Id /\ mailbox[m] # None /\ mailbox[m].inode = i
  BY <1>2 DEF RevokeEffect
<1>9. revoked' = revoked \cup ({access[h].children[r]} \ {None})
  BY <1>2 DEF RevokeAccess
<1>10. g \notin Kept(h, r) /\ access[h].children[r] # g
  BY <1>2, <1>3 DEF NotOwnChild, Kept
<1>11. ~Opens(g)' /\ g \notin revoked'
  <2>1. mailbox'[g] = mailbox[g] /\ mailbox[g].fileKey # k
    BY <1>3, <1>7, <1>10
  <2>2. ~Opens(g)'
    BY <1>2, <1>3, <1>5, <2>1 DEF Opens, decryptAndVerify
  <2>3. g \notin revoked
    BY <1>1, <1>3 DEF RevokedNeverReopens
  <2> QED
    BY <1>9, <1>10, <2>2, <2>3
<1>12. /\ Abstract!IsLive(g) /\ Grants[g].file = i /\ Grants[fresh] = None
  BY <1>1, <1>2, <1>3, <1>6, GrantOf DEF Grants
<1>13. Grants'[fresh] = [file |-> i, standing |-> "live"]
  <2>1. mailbox'[fresh] \in MailboxNode /\ mailbox'[fresh].inode = i
    BY <1>3, <1>6 DEF MailboxNode
  <2>2. mailbox'[fresh] # None
    BY <2>1, NoneAssumption
  <2>3. StandingOf(fresh)' = "live"
    BY <1>6 DEF StandingOf
  <2> QED
    BY <2>1, <2>2, <2>3 DEF Grants
<1>14. Grants'[g] = [file |-> i, standing |-> "stale"]
  <2>1. mailbox'[g] = mailbox[g]
    BY <1>3, <1>7, <1>10
  <2>2. StandingOf(g)' = "stale"
    BY <1>11 DEF StandingOf
  <2> QED
    BY <1>2, <1>3, <2>1, <2>2 DEF Grants
<1>15. ASSUME NEW x \in Id \ {fresh}, mailbox[x] # None, mailbox[x].inode = i
       PROVE  /\ Grants'[x] \in [file : {i}, standing : Abstract!Standing]
              /\ Grants[x].standing = "revoked" => Grants'[x].standing = "revoked"
  <2>1. mailbox'[x] = IF x \in Kept(h, r) THEN [fileKey |-> k, inode |-> i] ELSE mailbox[x]
    BY <1>7, <1>15
  <2>2. mailbox'[x].inode = i
    BY <1>15, <2>1
  <2>3. mailbox'[x] # None
    <3>1. [fileKey |-> k, inode |-> i] \in MailboxNode
      BY <1>3 DEF MailboxNode
    <3> QED
      BY <1>15, <2>1, <3>1, NoneAssumption
  <2>4. Grants'[x] = [file |-> i, standing |-> StandingOf(x)']
    BY <2>2, <2>3 DEF Grants
  <2>5. StandingOf(x)' \in Abstract!Standing
    BY DEF StandingOf, Abstract!Standing
  <2>6. ASSUME Grants[x].standing = "revoked" PROVE StandingOf(x)' = "revoked"
    <3>1. StandingOf(x) = "revoked"
      BY <1>1, <1>15, <2>6, GrantOf
    <3>2. x \in revoked
      BY <3>1 DEF StandingOf
    <3>3. x \in revoked' /\ ~Opens(x)'
      BY <1>1, <1>9, <3>2 DEF RevokedNeverReopens
    <3> QED
      BY <3>3 DEF StandingOf
  <2> QED
    BY <2>4, <2>5, <2>6
<1>16. ASSUME NEW x \in Id \ {fresh}, mailbox[x] # None => mailbox[x].inode # i
       PROVE  Grants'[x] = Grants[x]
  <2>1. x \notin Kept(h, r)
    BY <1>8, <1>16
  <2>2. CASE mailbox[x] = None
    <3>1. mailbox'[x] = None
      BY <1>2, <1>4, <2>1, <2>2 DEF RevokeAccess
    <3> QED
      BY <2>2, <3>1 DEF Grants
  <2>3. CASE mailbox[x] # None
    <3>1. mailbox'[x] = mailbox[x]
      BY <1>7, <2>1, <2>3
    <3>2. mailbox[x].inode \in Id \ {i}
      BY <1>1, <1>16, <2>3, Typed DEF MailboxNode
    <3>3. inode'[mailbox[x].inode] = inode[mailbox[x].inode]
      BY <1>3, <3>2
    <3>4. x # access[h].children[r]
      BY <1>1, <1>2, <1>3, <1>16, <2>3, NoneAssumption DEF ChildrenShareTheFile
    <3>5. StandingOf(x)' = StandingOf(x)
      BY <1>9, <3>1, <3>3, <3>4 DEF StandingOf, Opens, decryptAndVerify
    <3> QED
      BY <3>1, <3>5 DEF Grants
  <2> QED
    BY <2>2, <2>3
<1>17. ASSUME NEW x \in Id \ {fresh}
       PROVE  IF Grants[x] # None /\ Grants[x].file = i
              THEN /\ Grants'[x] \in [file : {i}, standing : Abstract!Standing]
                   /\ Grants[x].standing = "revoked" => Grants'[x].standing = "revoked"
              ELSE Grants'[x] = Grants[x]
  <2>1. CASE mailbox[x] # None
    <3>1. Grants[x] # None /\ Grants[x].file = mailbox[x].inode
      BY <1>1, <2>1, GrantOf
    <3> QED
      BY <1>15, <1>16, <2>1, <3>1
  <2>2. CASE mailbox[x] = None
    <3>1. Grants[x] = None
      BY <2>2 DEF Grants
    <3> QED
      BY <1>16, <2>2, <3>1
  <2> QED
    BY <2>1, <2>2
<1>18. Contents' = Contents
  BY RevokeKeepsContents
<1>19. Abstract!Withdraw(g, fresh)
  BY <1>12, <1>13, <1>14, <1>17, <1>18 DEF Abstract!Withdraw, Contents, Grants
<1> QED
  BY <1>3, <1>19 DEF Abstract!AbsNext

\* The steps of the services are steps of SharedFiles or change nothing there.
LEMMA ServiceStepSimulated ==
    ASSUME SharingInv, SharingInv', NotOwnChild, [Next]_vars
    PROVE  Abstract!AbsNext \/ UNCHANGED <<Contents, Grants>>
<1>1. ASSUME UNCHANGED <<mailbox, inode, block, revoked>> PROVE UNCHANGED <<Contents, Grants>>
  BY <1>1 DEF Contents, Grants, PlainContent, StandingOf, Opens, decryptAndVerify
<1>2. ASSUME NEW c \in Client, NEW u \in User, InitUser(c, u) \/ GetUser(c, u)
      PROVE  UNCHANGED <<mailbox, inode, block, revoked>>
  BY <1>2 DEF InitUser, GetUser
<1>3. ASSUME NEW c \in Client, NEW f \in Filename, NEW s \in User, NEW j \in Id,
             AcceptInvitation(c, s, j, f)
      PROVE  UNCHANGED <<mailbox, inode, block, revoked>>
  BY <1>3 DEF AcceptInvitation
<1>4. CASE UNCHANGED vars
  BY <1>1, <1>4 DEF vars
<1> QED
  BY <1>1, <1>2, <1>3, <1>4, StorePuts, AppendExtends, InvitationShares, RevokeWithdraws DEF Next

\* The initial states are those of SharedFiles.
LEMMA InitHasNoFiles == Init => Abstract!AbsInit /\ NotOwnChild
  BY DEF Init, Abstract!AbsInit, NotOwnChild

\* The services implement SharedFiles: for any number of users, clients, files and
\* blocks, a content is only ever extended, and through a live grant; re-encryption
\* leaves every content as it is; and a withdrawn grant stays withdrawn.
THEOREM SharedFilesImplemented == Spec => ImplementsSharedFiles
<1>1. SharingInv /\ SharingInv' /\ NotOwnChild /\ [Next]_vars => NotOwnChild'
  BY NotOwnChildStep
<1>2. Spec => []NotOwnChild
  BY <1>1, Invariance, InitHasNoFiles, PTL DEF Spec
<1>3. SharingInv /\ SharingInv' /\ NotOwnChild /\ [Next]_vars
          => [Abstract!AbsNext]_<<Contents, Grants>>
  BY ServiceStepSimulated
<1>4. Spec => [][Abstract!AbsNext]_<<Contents, Grants>>
  BY <1>2, <1>3, Invariance, PTL DEF Spec
<1> QED
  BY <1>4, InitHasNoFiles, PTL DEF Spec, ImplementsSharedFiles, Abstract!AbsSpec, Contents, Grants

(***************************************************************************)
(* What the blocks of a file are in bytes.  FlattenSeq is a recursion, so   *)
(* its value is found as that of a function which follows the recursion,    *)
(* by induction over the first place where two such functions could differ. *)
(***************************************************************************)
\* A set of numbers has a least one.
LEMMA LeastNumber ==
    ASSUME NEW S, S \subseteq Nat, S # {}
    PROVE  \E m \in S : \A k \in S : m <= k
<1> DEFINE R == OpToRel(<, Nat)
<1>1. \A x, y \in Nat : y < x => <<y, x>> \in R
  BY DEF OpToRel
<1>2. IsWellFoundedOn(R, Nat)
  BY NatLessThanWellFounded
<1> HIDE DEF R
<1>3. PICK m \in S : \A y \in S : ~(<<y, m>> \in R)
  BY <1>2, WFMin
<1>4. \A y \in S : ~(y < m)
  BY <1>1, <1>3
<1> QED
  BY <1>4

\* The number of blocks is the size over the block size, rounded up.
LEMMA RoundedUp ==
    ASSUME NEW size \in Nat
    PROVE  /\ blockNum(size) \in Nat
           /\ size <= blockNum(size) * BlockSize
           /\ (blockNum(size) - 1) * BlockSize < size
           /\ size = 0 => blockNum(size) = 0
<1>1. BlockSize \in Nat \ {0}
  BY SizeAssumption
<1>2. PICK q \in Int : /\ q = blockNum(size) /\ q * BlockSize <= size + BlockSize - 1
                       /\ size + BlockSize - 1 < q * BlockSize + BlockSize
  BY <1>1 DEF blockNum
<1>3. q \in Nat
  <2>1. SUFFICES ASSUME q <= -1 PROVE FALSE
    OBVIOUS
  <2>2. q * BlockSize + BlockSize <= 0
    BY <1>1, <2>1
  <2> QED
    BY <1>1, <1>2, <2>2
<1>4. size <= q * BlockSize /\ (q - 1) * BlockSize < size
  BY <1>1, <1>2
<1>5. size = 0 => q = 0
  <2>1. SUFFICES ASSUME size = 0, q >= 1 PROVE FALSE
    BY <1>3
  <2>2. q * BlockSize >= BlockSize
    BY <1>1, <2>1
  <2> QED
    BY <1>1, <1>2, <2>1, <2>2
<1> QED
  BY <1>2, <1>3, <1>4, <1>5

\* Where round i of ByteToBlock stops.
LEMMA RoundEnds ==
    ASSUME NEW size \in Nat, NEW i \in 1 .. blockNum(size)
    PROVE  /\ (i - 1) * BlockSize \in Nat
           /\ i < blockNum(size) => BlockEnd((i - 1) * BlockSize, size) = i * BlockSize
           /\ i = blockNum(size) => BlockEnd((i - 1) * BlockSize, size) = size
           /\ BlockEnd((i - 1) * BlockSize, size) \in Nat
           /\ BlockEnd((i - 1) * BlockSize, size) <= size
           /\ (i - 1) * BlockSize < BlockEnd((i - 1) * BlockSize, size)
           /\ BlockEnd((i - 1) * BlockSize, size) <= (i - 1) * BlockSize + BlockSize
<1>1. BlockSize \in Nat \ {0}
  BY SizeAssumption
<1>2. PICK n \in Nat : n = blockNum(size) /\ size <= n * BlockSize /\ (n - 1) * BlockSize < size
  BY RoundedUp
<1>3. PICK start \in Nat : start = (i - 1) * BlockSize /\ start + BlockSize = i * BlockSize
  BY <1>1, <1>2
<1>4. CASE i < n
  <2>1. i * BlockSize <= (n - 1) * BlockSize
    BY <1>1, <1>2, <1>4
  <2>2. i * BlockSize \in Nat /\ i * BlockSize < size
    BY <1>1, <1>2, <1>3, <2>1
  <2>3. BlockEnd(start, size) = i * BlockSize
    BY <1>1, <1>3, <2>2 DEF BlockEnd
  <2> QED
    BY <1>1, <1>2, <1>3, <1>4, <2>2, <2>3
<1>5. CASE i = n
  <2>1. start < size /\ size <= start + BlockSize
    BY <1>1, <1>2, <1>3, <1>5
  <2>2. BlockEnd(start, size) = size
    BY <1>1, <1>3, <2>1 DEF BlockEnd
  <2> QED
    BY <1>1, <1>2, <1>3, <1>5, <2>1, <2>2
<1> QED
  BY <1>2, <1>4, <1>5

\* The bytes after a up to b of a content.
Piece(size, a, b) == SubSeq(Data(size), a + 1, b)

\* The bytes before b are those before a and those from a to b.
LEMMA DataParts ==
    ASSUME NEW size \in Nat, NEW a \in Nat, NEW b \in Nat, a <= b, b <= size
    PROVE  /\ Data(size) \in Seq(Nat) /\ Len(Data(size)) = size
           /\ Piece(size, a, b) \in Seq(Nat) /\ Len(Piece(size, a, b)) = b - a
           /\ Data(a) \o Piece(size, a, b) = Data(b)
<1>1. /\ Data(size) \in Seq(Nat) /\ Len(Data(size)) = size /\ Data(a) \in Seq(Nat) /\ Len(Data(a)) = a
      /\ Data(b) \in Seq(Nat) /\ Len(Data(b)) = b
      /\ \A x \in 1 .. size : Data(size)[x] = x
      /\ \A x \in 1 .. a : Data(a)[x] = x
      /\ \A x \in 1 .. b : Data(b)[x] = x
  BY DEF Data
<1>2. PICK d \in Seq(Nat) : d = Data(size)
  BY <1>1
<1>3. PICK s \in Seq(Nat) : /\ s = SubSeq(d, a + 1, b) /\ Len(s) = b - a
                            /\ \A x \in 1 .. b - a : s[x] = d[a + x]
  <2>1. \A x \in a + 1 .. b : d[x] \in Nat
    BY <1>1, <1>2
  <2>2. /\ SubSeq(d, a + 1, b) \in Seq(Nat)
        /\ Len(SubSeq(d, a + 1, b)) = IF a + 1 <= b THEN b - (a + 1) + 1 ELSE 0
        /\ \A x \in 1 .. b - (a + 1) + 1 : SubSeq(d, a + 1, b)[x] = d[(a + 1) + x - 1]
    BY <2>1, SubSeqProperties
  <2>3. b - (a + 1) + 1 = b - a /\ \A x \in 1 .. b - a : (a + 1) + x - 1 = a + x
    OBVIOUS
  <2>4. Len(SubSeq(d, a + 1, b)) = b - a
    BY <2>2
  <2>5. \A x \in 1 .. b - a : SubSeq(d, a + 1, b)[x] = d[a + x]
    BY <2>2, <2>3
  <2> QED
    BY <2>2, <2>4, <2>5
<1>4. PICK p \in Seq(Nat) : p = Data(a) /\ Len(p) = a /\ \A x \in 1 .. a : p[x] = x
  BY <1>1
<1>5. /\ p \o s \in Seq(Nat) /\ Len(p \o s) = b
      /\ \A x \in 1 .. b : (p \o s)[x] = IF x <= a THEN p[x] ELSE s[x - a]
  <2>1. Len(p) + Len(s) = b
    BY <1>3, <1>4
  <2> QED
    BY <1>4, <2>1, ConcatProperties
<1>6. \A x \in 1 .. b : (p \o s)[x] = x
  <2>1. SUFFICES ASSUME NEW x \in 1 .. b PROVE (p \o s)[x] = x
    OBVIOUS
  <2>2. CASE x <= a
    BY <1>4, <1>5, <2>2
  <2>3. CASE ~(x <= a)
    <3>1. x - a \in 1 .. b - a /\ a + (x - a) = x /\ x \in 1 .. size
      BY <2>3
    <3>2. s[x - a] = d[x]
      BY <1>3, <3>1
    <3> QED
      BY <1>1, <1>2, <1>5, <2>3, <3>1, <3>2
  <2> QED
    BY <2>2, <2>3
<1>7. p \o s = Data(b)
  BY <1>1, <1>5, <1>6, SeqEqual
<1> QED
  BY <1>1, <1>2, <1>3, <1>4, <1>7 DEF Piece

\* Joining is what the recursion of FlattenSeq says: any g that follows it ends in the result.
LEMMA FlattenUnique ==
    ASSUME NEW s, NEW n \in Nat \ {0}, Len(s) = n, NEW g,
           \A i \in 1 .. n : g[i] = IF i = 1 THEN s[i] ELSE g[i - 1] \o s[i]
    PROVE  FlattenSeq(s) = g[n]
<1> DEFINE flatten[i \in 1 .. Len(s)] == IF i = 1 THEN s[i] ELSE flatten[i - 1] \o s[i]
<1>1. FlattenSeq(s) = flatten[Len(s)]
  BY DEF FlattenSeq
<1>2. flatten = [i \in 1 .. Len(s) |-> IF i = 1 THEN s[i] ELSE flatten[i - 1] \o s[i]]
  <2> DEFINE h == [i \in 1 .. Len(s) |-> g[i]]
  <2>1. ASSUME NEW i \in 1 .. Len(s)
        PROVE  h[i] = IF i = 1 THEN s[i] ELSE h[i - 1] \o s[i]
    <3>1. CASE i = 1
      BY <3>1
    <3>2. CASE i # 1
      <4>1. i - 1 \in 1 .. Len(s)
        BY <3>2
      <4> QED
        BY <3>2, <4>1
    <3> QED
      BY <3>1, <3>2
  <2>2. h = [i \in 1 .. Len(s) |-> IF i = 1 THEN s[i] ELSE h[i - 1] \o s[i]]
    BY <2>1
  <2> HIDE DEF h
  <2> QED
    BY <2>2, Zenon
<1> HIDE DEF flatten
<1> DEFINE Wrong == {i \in 1 .. n : flatten[i] # g[i]}
<1>3. Wrong = {}
  <2>1. SUFFICES ASSUME Wrong # {} PROVE FALSE
    OBVIOUS
  <2>2. PICK m \in Wrong : \A k \in Wrong : m <= k
    <3>1. Wrong \subseteq Nat
      OBVIOUS
    <3> HIDE DEF Wrong
    <3> QED
      BY <2>1, <3>1, LeastNumber
  <2>3. m \in 1 .. n /\ flatten[m] # g[m]
    BY <2>2
  <2>4. m # 1
    BY <1>2, <2>3
  <2>5. m - 1 \in 1 .. n /\ m - 1 \notin Wrong
    BY <2>2, <2>3, <2>4
  <2>6. flatten[m - 1] = g[m - 1]
    BY <2>5
  <2>7. flatten[m] = flatten[m - 1] \o s[m]
    BY <1>2, <2>3, <2>4
  <2>8. g[m] = g[m - 1] \o s[m]
    BY <2>3, <2>4
  <2> QED
    BY <2>3, <2>6, <2>7, <2>8
<1>4. n \in 1 .. n
  OBVIOUS
<1>5. flatten[n] = g[n]
  BY <1>3, <1>4
<1> QED
  BY <1>1, <1>5

\* What ByteToBlock cuts, joined again.
LEMMA CutJoins ==
    ASSUME NEW size \in Nat
    PROVE  /\ ByteToBlock(Data(size)) \in Seq(Seq(Nat))
           /\ Len(ByteToBlock(Data(size))) = blockNum(size)
           /\ \A i \in 1 .. blockNum(size) :
                 /\ Len(ByteToBlock(Data(size))[i]) \in 1 .. BlockSize
                 /\ i < blockNum(size) => Len(ByteToBlock(Data(size))[i]) = BlockSize
           /\ FlattenSeq(ByteToBlock(Data(size))) = Data(size)
<1>1. BlockSize \in Nat \ {0}
  BY SizeAssumption
<1>2. PICK n \in Nat : n = blockNum(size) /\ size <= n * BlockSize /\ (size = 0 => n = 0)
  BY RoundedUp
<1> DEFINE start(i) == (i - 1) * BlockSize
           end(i) == BlockEnd(start(i), size)
           blocks == ByteToBlock(Data(size))
<1>3. Len(Data(size)) = size /\ Data(0) = << >>
  BY DataParts DEF Data
<1>4. blocks = [i \in 1 .. n |-> SubSeq(Data(size), start(i) + 1, end(i))]
  BY <1>2, <1>3 DEF ByteToBlock
<1>5. ASSUME NEW i \in 1 .. n
      PROVE  /\ start(i) \in Nat /\ end(i) \in Nat /\ start(i) < end(i) /\ end(i) <= size
             /\ end(i) <= start(i) + BlockSize
             /\ i < n => end(i) = start(i + 1) /\ end(i) = start(i) + BlockSize
             /\ i = n => end(i) = size
  <2>1. PICK x : x = (i - 1) * BlockSize /\ x \in Nat /\ x + BlockSize = i * BlockSize
                 /\ ((i + 1) - 1) * BlockSize = i * BlockSize
    BY <1>1, <1>2
  <2>2. /\ BlockEnd(x, size) \in Nat /\ x < BlockEnd(x, size) /\ BlockEnd(x, size) <= size
        /\ BlockEnd(x, size) <= x + BlockSize
        /\ i < n => BlockEnd(x, size) = i * BlockSize
        /\ i = n => BlockEnd(x, size) = size
    BY <1>2, <2>1, RoundEnds
  <2> QED
    BY <2>1, <2>2
<1> HIDE DEF start, end, blocks
<1>6. \A i \in 1 .. n : blocks[i] \in Seq(Nat) /\ Len(blocks[i]) = end(i) - start(i)
                        /\ Data(start(i)) \o blocks[i] = Data(end(i))
  <2>1. SUFFICES ASSUME NEW i \in 1 .. n
                 PROVE  /\ blocks[i] \in Seq(Nat) /\ Len(blocks[i]) = end(i) - start(i)
                        /\ Data(start(i)) \o blocks[i] = Data(end(i))
    OBVIOUS
  <2>2. PICK a \in Nat, b \in Nat : a = start(i) /\ b = end(i) /\ a <= b /\ b <= size
    BY <1>5
  <2>3. blocks[i] = Piece(size, a, b)
    BY <1>4, <2>2 DEF Piece
  <2>4. /\ Piece(size, a, b) \in Seq(Nat) /\ Len(Piece(size, a, b)) = b - a
        /\ Data(a) \o Piece(size, a, b) = Data(b)
    <3>1. a <= b /\ b <= size
      BY <2>2
    <3> QED
      BY <3>1, DataParts
  <2> QED
    BY <2>2, <2>3, <2>4
<1>7. blocks \in Seq(Seq(Nat)) /\ Len(blocks) = n
  BY <1>4, <1>6
<1>8. FlattenSeq(blocks) = Data(size)
  <2>1. CASE n = 0
    <3>1. size = 0
      <4>1. size <= 0
        BY <1>1, <1>2, <2>1
      <4> QED
        BY <4>1
    <3>2. blocks = << >>
      BY <1>7, <2>1
    <3> QED
      BY <1>3, <3>1, <3>2 DEF FlattenSeq
  <2>2. CASE n # 0
    <3> DEFINE g == [i \in 1 .. n |-> Data(end(i))]
    <3>1. ASSUME NEW i \in 1 .. n
          PROVE  g[i] = IF i = 1 THEN blocks[i] ELSE g[i - 1] \o blocks[i]
      <4>1. CASE i = 1
        <5>1. start(1) = 0
          BY <1>1 DEF start
        <5>2. << >> \o blocks[1] = blocks[1]
          BY <1>6, <4>1
        <5> QED
          BY <1>3, <1>6, <4>1, <5>1, <5>2
      <4>2. CASE i # 1
        <5>1. i - 1 \in 1 .. n /\ i - 1 < n /\ (i - 1) + 1 = i
          BY <4>2
        <5>2. end(i - 1) = start(i)
          BY <1>5, <5>1
        <5>3. g[i - 1] = Data(start(i))
          BY <5>1, <5>2
        <5> QED
          BY <1>6, <4>2, <5>3
      <4> QED
        BY <4>1, <4>2
    <3>3. n \in 1 .. n /\ g[n] = Data(size)
      BY <1>5, <2>2
    <3> HIDE DEF g
    <3>4. n \in Nat \ {0} /\ Len(blocks) = n
      BY <1>7, <2>2
    <3>5. FlattenSeq(blocks) = g[n]
      BY <3>1, <3>4, FlattenUnique
    <3> QED
      BY <3>3, <3>5
  <2> QED
    BY <2>1, <2>2
<1>9. \A i \in 1 .. n : Len(blocks[i]) \in 1 .. BlockSize /\ (i < n => Len(blocks[i]) = BlockSize)
  <2>1. SUFFICES ASSUME NEW i \in 1 .. n
                 PROVE  Len(blocks[i]) \in 1 .. BlockSize /\ (i < n => Len(blocks[i]) = BlockSize)
    OBVIOUS
  <2>2. PICK a \in Nat, b \in Nat : /\ a = start(i) /\ b = end(i) /\ a < b /\ b <= a + BlockSize
                                    /\ i < n => b = a + BlockSize
    BY <1>5
  <2>3. Len(blocks[i]) = b - a
    BY <1>6, <2>2
  <2> QED
    BY <1>1, <2>2, <2>3
<1> QED
  BY <1>2, <1>7, <1>8, <1>9 DEF blocks

\* For every block size and every content that the blocks of a stored file can hold,
\* ByteToBlock cuts it into blocks that are full but for the last, none of them empty, and
\* that give every byte back once and in order when LoadFile or BlockYToByte joins them.
THEOREM BlocksAreCutAndJoined == Spec => []CutAndJoined
<1>1. TypeOK => CutAndJoined
  <2>1. SUFFICES ASSUME TypeOK, NEW i \in Id, inode[i] # None,
                        NEW size \in 0 .. BlockSize * Len(inode[i].plain)
                 PROVE  LET blocks == ByteToBlock(Data(size))
                        IN  /\ Len(blocks) <= Len(inode[i].plain)
                            /\ \A n \in 1 .. Len(blocks) :
                                  /\ Len(blocks[n]) \in 1 .. BlockSize
                                  /\ n < Len(blocks) => Len(blocks[n]) = BlockSize
                            /\ FlattenSeq(blocks) = Data(size)
                            /\ \A t \in 0 .. size :
                                  BlockYToByte(blocks, t) = SubSeq(Data(size), 1, t)
    BY DEF CutAndJoined
  <2>2. BlockSize \in Nat \ {0}
    BY SizeAssumption
  <2>3. PICK len \in Nat : len = Len(inode[i].plain)
    BY <2>1 DEF TypeOK, SealedInode
  <2>4. size \in Nat /\ size <= BlockSize * len
    BY <2>2, <2>3
  <2>5. PICK n \in Nat : /\ n = blockNum(size) /\ (n - 1) * BlockSize < size
                         /\ size <= n * BlockSize
    BY <2>4, RoundedUp
  <2>6. n <= len
    <3>1. SUFFICES ASSUME n - 1 >= len PROVE FALSE
      BY <2>3
    <3>2. (n - 1) * BlockSize >= len * BlockSize
      BY <2>2, <3>1
    <3> QED
      BY <2>2, <2>4, <2>5, <3>2
  <2>7. PICK blocks \in Seq(Seq(Nat)) :
           /\ blocks = ByteToBlock(Data(size)) /\ Len(blocks) = n
           /\ FlattenSeq(blocks) = Data(size)
           /\ \A j \in 1 .. n : /\ Len(blocks[j]) \in 1 .. BlockSize
                                /\ j < n => Len(blocks[j]) = BlockSize
    BY <2>4, <2>5, CutJoins
  <2>8. PICK d \in Seq(Nat) : d = Data(size) /\ Len(d) = size
    BY <2>4, DataParts
  <2>9. ASSUME NEW t \in 0 .. size PROVE BlockYToByte(blocks, t) = SubSeq(d, 1, t)
    <3>1. CASE t = 0
      <4>1. SubSeq(d, 1, 0) = << >>
        OBVIOUS
      <4> QED
        BY <3>1, <4>1 DEF BlockYToByte
    <3>2. CASE t # 0
      <4>1. blocks # << >>
        <5>1. n # 0
          BY <2>2, <2>4, <2>5, <3>2
        <5> QED
          BY <2>7, <5>1
      <4>2. SubSeq(d, 1, size) = d
        BY <2>4, <2>8
      <4>3. t = size \/ size > t
        BY <2>4
      <4>4. BlockYToByte(blocks, t) = IF size > t THEN SubSeq(d, 1, t) ELSE d
        BY <2>4, <2>7, <2>8, <3>2, <4>1 DEF BlockYToByte
      <4> QED
        BY <2>4, <4>2, <4>3, <4>4
    <3> QED
      BY <3>1, <3>2
  <2> QED
    BY <2>3, <2>6, <2>7, <2>8, <2>9
<1> QED
  BY <1>1, TypeCorrect, PTL
=============================================================================
