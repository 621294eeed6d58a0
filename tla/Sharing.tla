------------------------------ MODULE Sharing ------------------------------
(***************************************************************************)
(* The client's encryption services (internal/client/encryption): accounts, *)
(* files, invitations and revocation, over a key-value store that holds    *)
(* sealed objects only.  Every service call is one atomic step here: the    *)
(* calls of different clients interleave, the storage operations inside a   *)
(* call do not.                                                             *)
(*                                                                          *)
(* The store is split by the kind of object a UUID names.  A freshly drawn  *)
(* UUID or key is a number that was never drawn before (`next').  A mailbox *)
(* UUID and its mailbox key are drawn together, travel together and are     *)
(* never replaced separately, so one number stands for both.  Contents are  *)
(* sequences of chunks, the pieces ByteToBlock cuts.                        *)
(*                                                                          *)
(* A call that returns an error without having written anything changes     *)
(* nothing, so its conditions are guards.  The one error path that does     *)
(* leave something behind is CreateInvitation's unknown recipient.          *)
(***************************************************************************)
EXTENDS Integers, Sequences, Functions

CONSTANTS User,        \* usernames
          Client,      \* app.Client values: one process or session each
          Filename,    \* the names users give to files
          Chunk,       \* contents of a block of at most 512 bytes
          None,        \* what Get answers for an absent key
          MaxId,       \* bound: how many UUIDs and keys may be drawn
          MaxContent   \* bound: blocks written by one StoreFile or AppendToFile

Id == 1 .. MaxId
Handle == User \X Filename

encryptAndMAC(data, k) == [key |-> k, plain |-> data]
\* The payload opens under k exactly when it was sealed under k.
decryptAndVerify(payload, k) == payload # None /\ payload.key = k

UserRecord == [files : SUBSET Filename]
Session == [name : User, files : SUBSET Filename]
MailboxNode == [fileKey : Id, inode : Id]
ChildrenMap == [User -> Id \cup {None}]
Access == [mailbox : Id, children : ChildrenMap]
SealedInode == [key : Id, plain : Seq(Id)]
SealedBlock == [key : Id, plain : Chunk]
Invitation == [from : User, name : Filename, to : User, mailbox : Id]
Content == UNION {[1 .. n -> Chunk] : n \in 0 .. MaxContent}

ASSUME BoundsAssumption == MaxId \in Nat /\ MaxContent \in Nat
ASSUME NoneAssumption ==
    /\ None \notin Id
    /\ None \notin UserRecord
    /\ None \notin Session
    /\ None \notin MailboxNode
    /\ None \notin Access
    /\ None \notin SealedInode
    /\ None \notin SealedBlock
    /\ None \notin Invitation

VARIABLES
    session,     \* c.user of each client: the in-memory copy of the user record
    account,     \* stored user records; the public keys exist when the record does
    access,      \* access records, at accessID(username, filename)
    mailbox,     \* mailbox nodes
    inode,       \* inodes: the block list, sealed under the file key
    block,       \* data blocks, sealed under the file key
    invitation,  \* invitations; name is a history field, not in the payload
    revoked,     \* history: the mailboxes RevokeAccess took out of a Children map
    next         \* the next number that was never drawn

vars == <<session, account, access, mailbox, inode, block, invitation, revoked, next>>

Init ==
    /\ session = [c \in Client |-> None]
    /\ account = [u \in User |-> None]
    /\ access = [h \in Handle |-> None]
    /\ mailbox = [m \in Id |-> None]
    /\ inode = [i \in Id |-> None]
    /\ block = [b \in Id |-> None]
    /\ invitation = [j \in Id |-> None]
    /\ revoked = {}
    /\ next = 1

(***************************************************************************)
(* Reading: what a mailbox, and what a handle (user, filename) opens.       *)
(***************************************************************************)
Opens(m) ==
    /\ mailbox[m] # None
    /\ decryptAndVerify(inode[mailbox[m].inode], mailbox[m].fileKey)

\* Every block the mailbox leads to can be read with the mailbox's file key.
BlocksOpen(m) ==
    \A b \in Range(inode[mailbox[m].inode].plain) :
        decryptAndVerify(block[b], mailbox[m].fileKey)

LoadFileSucceeds(h) ==
    /\ access[h] # None
    /\ Opens(access[h].mailbox)
    /\ BlocksOpen(access[h].mailbox)

\* What LoadFile returns once it opened inode i; None where a block fails.
PlainContent(i) ==
    [n \in 1 .. Len(inode[i].plain) |->
        LET b == block[inode[i].plain[n]]
        IN  IF decryptAndVerify(b, inode[i].key) THEN b.plain ELSE None]

ListFiles(userdata) == userdata.files

(***************************************************************************)
(* Operations.                                                              *)
(***************************************************************************)
\* Drawing n fresh numbers is possible while the bound lasts.
CanDraw(n) == next + n <= MaxId + 1

\* Variant of SaveUser: the file list is updated in memory only.
SaveUserInMemoryOnly(c, f) ==
    /\ session' = [session EXCEPT ![c] = [name |-> session[c].name,
                                         files |-> session[c].files \cup {f}]]
    /\ UNCHANGED account

\* userdata.Files[filename] = accessUUID, then saveUser: the whole in-memory
\* record replaces the stored one.
SaveUser(c, f) ==
    LET files == session[c].files \cup {f}
    IN  /\ session' = [session EXCEPT ![c] = [name |-> session[c].name, files |-> files]]
        /\ account' = [account EXCEPT ![session[c].name] = [files |-> files]]

InitUser(c, u) ==
    /\ account[u] = None
    /\ account' = [account EXCEPT ![u] = [files |-> {}]]
    /\ session' = [session EXCEPT ![c] = [name |-> u, files |-> {}]]
    /\ UNCHANGED <<access, mailbox, inode, block, invitation, revoked, next>>

\* With the right password; a wrong one fails to open the record.
GetUser(c, u) ==
    /\ account[u] # None
    /\ session' = [session EXCEPT ![c] = [name |-> u, files |-> account[u].files]]
    /\ UNCHANGED <<account, access, mailbox, inode, block, invitation, revoked, next>>

NoChildren == [u \in User |-> None]

\* Variants of NewRecord: the Children map is left nil; a record that is replaced
\* keeps its Children map.
NewRecordNilChildren(h, m) == [mailbox |-> m, children |-> None]
NewRecordKeepsChildren(h, m) ==
    [mailbox |-> m,
     children |-> IF access[h] = None THEN NoChildren ELSE access[h].children]

\* The access record StoreFile and AcceptInvitation write at handle h.
NewRecord(h, m) == [mailbox |-> m, children |-> NoChildren]

\* Variant of NewBlocks: every block is listed under the next one's UUID.
NewBlocksOffByOne(first, n) == [x \in 1 .. n |-> first + x]

\* The UUIDs of n new blocks, drawn from the number first on.
NewBlocks(first, n) == [x \in 1 .. n |-> first + x - 1]

\* The block store after content was written to the blocks first, first + 1, ...
WriteBlocks(first, content, k) ==
    [b \in Id |-> IF b \in first .. first + Len(content) - 1
                  THEN encryptAndMAC(content[b - first + 1], k)
                  ELSE block[b]]

StoreFile(c, f, content) ==
    LET h == <<session[c].name, f>>
        fileKey == next
        newInode == next + 1
        newMailbox == next + 2
        first == next + 3
    IN  /\ session[c] # None
        /\ CanDraw(3 + Len(content))
        /\ mailbox' = [mailbox EXCEPT ![newMailbox] =
                          [fileKey |-> fileKey, inode |-> newInode]]
        /\ access' = [access EXCEPT ![h] = NewRecord(h, newMailbox)]
        /\ block' = WriteBlocks(first, content, fileKey)
        /\ inode' = [inode EXCEPT ![newInode] =
                          encryptAndMAC(NewBlocks(first, Len(content)), fileKey)]
        /\ SaveUser(c, f)
        /\ next' = next + 3 + Len(content)
        /\ UNCHANGED <<invitation, revoked>>

\* AppendToFile neither reads the old blocks nor saves the user record.
AppendToFile(c, f, content) ==
    LET h == <<session[c].name, f>>
        box == mailbox[access[h].mailbox]
        node == inode[box.inode]
    IN  /\ session[c] # None
        /\ access[h] # None
        /\ Opens(access[h].mailbox)
        /\ CanDraw(Len(content))
        /\ block' = WriteBlocks(next, content, box.fileKey)
        /\ inode' = [inode EXCEPT ![box.inode] =
                        encryptAndMAC(node.plain \o NewBlocks(next, Len(content)), box.fileKey)]
        /\ next' = next + Len(content)
        /\ UNCHANGED <<session, account, access, mailbox, invitation, revoked>>

\* Variant of WithChild: the child gets the record's own mailbox.
WithChildOwnMailbox(a, r, m) ==
    [mailbox |-> a.mailbox, children |-> [a.children EXCEPT ![r] = a.mailbox]]

\* The record a once access.Children[r] is the mailbox m.
WithChild(a, r, m) ==
    [mailbox |-> a.mailbox, children |-> [a.children EXCEPT ![r] = m]]

\* The mailbox's UUID and key, encrypted for `to' and signed by `from'.
SealedInvitation(from, f, to, m) == [from |-> from, name |-> f, to |-> to, mailbox |-> m]
verify(inv, signer) == inv.from = signer
decryptFor(inv, u) == inv.to = u

\* The inviter needs its own mailbox, not the inode: a stale mailbox is copied
\* as it is.  The recipient's mailbox is stored before the recipient's public
\* key is looked up.
CreateInvitation(c, f, r) ==
    LET h == <<session[c].name, f>>
        newMailbox == next
        pointer == next + 1
    IN  /\ session[c] # None
        /\ access[h] # None
        /\ mailbox[access[h].mailbox] # None
        /\ CanDraw(2)
        /\ mailbox' = [mailbox EXCEPT ![newMailbox] = mailbox[access[h].mailbox]]
        /\ \/ /\ account[r] # None
              /\ invitation' = [invitation EXCEPT ![pointer] =
                    SealedInvitation(session[c].name, f, r, newMailbox)]
              /\ access' = [access EXCEPT ![h] = WithChild(access[h], r, newMailbox)]
              /\ next' = next + 2
           \/ /\ account[r] = None
              /\ next' = next + 1
              /\ UNCHANGED <<invitation, access>>
        /\ UNCHANGED <<session, account, inode, block, revoked>>

\* The pointer j must lead to an invitation signed by s and sealed for the
\* caller.  A record the caller already has under f is replaced.
AcceptInvitation(c, s, j, f) ==
    /\ session[c] # None
    /\ invitation[j] # None
    /\ account[s] # None
    /\ verify(invitation[j], s)
    /\ decryptFor(invitation[j], session[c].name)
    /\ LET h == <<session[c].name, f>>
       IN  access' = [access EXCEPT ![h] = NewRecord(h, invitation[j].mailbox)]
    /\ SaveUser(c, f)
    /\ UNCHANGED <<mailbox, inode, block, invitation, revoked, next>>

\* Variants of Kept: the revoked child is not skipped; no child is updated.
KeptWithRevoked(h, r) == {access[h].children[u] : u \in User} \ {None}
KeptNone(h, r) == {}

\* The mailboxes in h's Children map that stay when r is revoked.
Kept(h, r) == {access[h].children[u] : u \in User \ {r}} \ {None}

\* Variant of Reencrypt: the last block keeps the old key.
ReencryptAllButLast(ids, k) ==
    [b \in Id |-> IF b \in Range(SubSeq(ids, 1, Len(ids) - 1))
                  THEN encryptAndMAC(block[b].plain, k) ELSE block[b]]

\* The block store after the blocks of an inode were sealed again under k.
Reencrypt(ids, k) ==
    [b \in Id |-> IF b \in Range(ids) THEN encryptAndMAC(block[b].plain, k) ELSE block[b]]

\* The record a once r is deleted from Children and m is its own mailbox.
WithoutChild(a, r, m) ==
    [mailbox |-> m, children |-> [a.children EXCEPT ![r] = None]]

\* Re-encrypt the blocks and the inode under a new file key, give the caller a
\* new mailbox, put the new key into the mailboxes of the other children, drop
\* r from Children.  Whether r is a child at all is never checked.
RevokeAccess(c, f, r) ==
    LET h == <<session[c].name, f>>
        box == mailbox[access[h].mailbox]
        node == inode[box.inode]
        newFileKey == next
        newMailbox == next + 1
    IN  /\ session[c] # None
        /\ access[h] # None
        /\ Opens(access[h].mailbox)
        /\ BlocksOpen(access[h].mailbox)
        /\ \A m \in Kept(h, r) : mailbox[m] # None
        /\ CanDraw(2)
        /\ block' = Reencrypt(node.plain, newFileKey)
        /\ inode' = [inode EXCEPT ![box.inode] = encryptAndMAC(node.plain, newFileKey)]
        /\ mailbox' = [m \in Id |->
              IF m = newMailbox THEN [fileKey |-> newFileKey, inode |-> box.inode]
              ELSE IF m \in Kept(h, r) THEN [fileKey |-> newFileKey, inode |-> mailbox[m].inode]
              ELSE mailbox[m]]
        /\ access' = [access EXCEPT ![h] = WithoutChild(access[h], r, newMailbox)]
        /\ revoked' = revoked \cup ({access[h].children[r]} \ {None})
        /\ SaveUser(c, f)
        /\ next' = next + 2
        /\ UNCHANGED invitation

Next ==
    \E c \in Client :
        \/ \E u \in User : InitUser(c, u) \/ GetUser(c, u)
        \/ \E f \in Filename :
              \/ \E content \in Content :
                    StoreFile(c, f, content) \/ AppendToFile(c, f, content)
              \/ \E r \in User : CreateInvitation(c, f, r) \/ RevokeAccess(c, f, r)
              \/ \E s \in User, j \in Id : AcceptInvitation(c, s, j, f)

Spec == Init /\ [][Next]_vars

(***************************************************************************)
(* Properties.                                                              *)
(***************************************************************************)
\* Type correctness of the session, the store and the history.
TypeOK ==
    /\ session \in [Client -> Session \cup {None}]
    /\ account \in [User -> UserRecord \cup {None}]
    /\ access \in [Handle -> Access \cup {None}]
    /\ mailbox \in [Id -> MailboxNode \cup {None}]
    /\ inode \in [Id -> SealedInode \cup {None}]
    /\ block \in [Id -> SealedBlock \cup {None}]
    /\ invitation \in [Id -> Invitation \cup {None}]
    /\ revoked \subseteq Id
    /\ next \in 1 .. MaxId + 1

\* An inode and all its blocks are sealed under one file key, whoever appended
\* and whoever re-keyed in between: RevokeAccess re-encrypts block by block,
\* AppendToFile seals its new blocks under the key it found in its mailbox.
\* So a client that can open the inode never meets a block it cannot open.  This is of
\* calls that do not overlap: an append that began before a re-keying and ends after it
\* breaks it (service.go:397).
KeyCoherent ==
    \A i \in Id : inode[i] # None =>
        \A b \in Range(inode[i].plain) : decryptAndVerify(block[b], inode[i].key)

\* A mailbox that RevokeAccess removed from a Children map never opens its
\* file again, whatever stores, appends, invitations, acceptances and later
\* revocations by any user follow.
RevokedNeverReopens == \A m \in revoked : ~Opens(m)

\* Access flows down the sharing tree: a mailbox in the Children map of a
\* record opens the file only while the record's own mailbox does.  Closing
\* a mailbox therefore closes everything that was shared from it, at any
\* depth, although RevokeAccess looks at its direct children only.
AccessFlowsDown ==
    \A h \in Handle : access[h] # None =>
        \A u \in User : LET m == access[h].children[u] IN
            m # None /\ Opens(m) => Opens(access[h].mailbox)

\* The inductive strengthening.  No object refers to one that is not stored, no
\* key in use is yet to be drawn, and nothing is stored under a UUID that is.
FreshUnused ==
    \A x \in Id : x >= next => mailbox[x] = None /\ inode[x] = None /\ block[x] = None

NoDanglingReference ==
    /\ \A m \in Id : mailbox[m] # None =>
          inode[mailbox[m].inode] # None /\ mailbox[m].fileKey < next
    /\ \A i \in Id : inode[i] # None => inode[i].key < next
    /\ \A h \in Handle : access[h] # None =>
          /\ mailbox[access[h].mailbox] # None
          /\ \A u \in User : access[h].children[u] # None =>
                mailbox[access[h].children[u]] # None
    /\ \A j \in Id : invitation[j] # None => mailbox[invitation[j].mailbox] # None
    /\ \A m \in revoked : mailbox[m] # None

\* A mailbox is in at most one place of the sharing tree.
OneParent ==
    \A g, h \in Handle : access[g] # None /\ access[h] # None =>
        \A u, v \in User :
            access[g].children[u] # None /\ access[g].children[u] = access[h].children[v]
                => g = h /\ u = v

\* The mailboxes of the children lead to the file of the record itself.
ChildrenShareTheFile ==
    \A h \in Handle : access[h] # None =>
        \A u \in User : access[h].children[u] # None =>
            mailbox[access[h].children[u]].inode = mailbox[access[h].mailbox].inode

\* A revoked mailbox has left the sharing tree for good.
RevokedUnlinked ==
    \A h \in Handle : access[h] # None =>
        \A u \in User : access[h].children[u] \notin revoked

\* Two inodes share no block.
BlocksApart ==
    \A i, j \in Id : inode[i] # None /\ inode[j] # None /\ i # j =>
        Range(inode[i].plain) \cap Range(inode[j].plain) = {}

TreeInv ==
    /\ FreshUnused
    /\ NoDanglingReference
    /\ OneParent
    /\ ChildrenShareTheFile
    /\ RevokedUnlinked
    /\ RevokedNeverReopens
    /\ AccessFlowsDown

BlockInv ==
    /\ BlocksApart
    /\ KeyCoherent

SharingInv == TypeOK /\ TreeInv /\ BlockInv

\* What ListFiles gives after a login is exactly what the user has an access
\* record for (service.go:404, main.go:567).  StoreFile, AcceptInvitation and
\* RevokeAccess save the whole in-memory list, so this holds while one client
\* at a time is logged in as the user, and fails with two.
ListComplete ==
    \A u \in User : account[u] # None =>
        ListFiles(account[u]) = {f \in Filename : access[<<u, f>>] # None}

\* h and g lead to the same inode.
SameFile(h, g) ==
    mailbox[access[h].mailbox].inode = mailbox[access[g].mailbox].inode

\* A handle that could load its file stops loading it in two ways only: its
\* user accepts another invitation under the same name, or another handle of
\* the same file is re-keyed by RevokeAccess and does not keep the mailbox of
\* this one among its children.  In particular the revoker and its remaining
\* children go on loading.
AccessLostByRekeyOnly ==
    [][\A h \in Handle : LoadFileSucceeds(h) /\ ~LoadFileSucceeds(h)' =>
          \/ \E j \in Id : /\ invitation[j] # None
                           /\ invitation[j].to = h[1]
                           /\ access'[h] = NewRecord(h, invitation[j].mailbox)
          \/ \E g \in Handle \ {h} :
                /\ LoadFileSucceeds(g) /\ SameFile(g, h)
                /\ access'[g].mailbox # access[g].mailbox
                /\ \A u \in User : access'[g].children[u] # access[h].mailbox]_vars

\* The services implement SharedFiles: mailboxes are the grants, live while
\* they open their inode; the content of a file is what the blocks of its
\* inode hold.  So re-encryption keeps every content, appends and nothing
\* else extend one, and a withdrawn mailbox is withdrawn for good.
StandingOf(m) ==
    IF Opens(m) THEN "live" ELSE IF m \in revoked THEN "revoked" ELSE "stale"

Abstract == INSTANCE SharedFiles WITH
    content <- [i \in Id |-> IF inode[i] = None THEN None ELSE PlainContent(i)],
    grant <- [m \in Id |-> IF mailbox[m] = None THEN None
                           ELSE [file |-> mailbox[m].inode, standing |-> StandingOf(m)]]

\* A grant is told apart from the absence of one.
ASSUME GrantAssumption == None \notin [file : Id, standing : Abstract!Standing]

ImplementsSharedFiles == Abstract!AbsSpec
=============================================================================
