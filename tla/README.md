# ShareLock: a TLA+ verification project

ShareLock is an end-to-end encrypted file sharing program: a command line client
that seals everything it stores, and a key-value server that sees sealed bytes
only. This project models the client's services, the storage protocol, the command
line client's files and the server's configuration, checks them with TLC and proves
every safety property the passing runs check, and both refinements, with TLAPS.

Paths below are relative to the repository root.

## Inventory

| Component | State | Operations | What makes it correct |
|---|---|---|---|
| User service (`internal/client/encryption/service.go`, `utils.go`) | the sealed user record, the public keys, the user record in memory | `InitUser`, `GetUser`, `saveUser` | the stored file list is the list of files; one key pair per name |
| File service (`service.go`, `File.go`) | access records, mailboxes, inodes, blocks | `StoreFile`, `LoadFile`, `AppendToFile`, `ListFiles` | whoever opens the inode opens every block; contents survive re-keying |
| Invitation service (`service.go`, `access.go`) | the `Children` maps (the sharing tree), invitations | `CreateInvitation`, `AcceptInvitation`, `RevokeAccess` | revocation is final and cascades; nobody else loses the file |
| Remote storage client (`internal/client/remote/store.go`, `memory.go`) | address, a connection per call, a local map when no host is configured | `Get`, `Set`, `Delete`, `Connect`, `Disconnect`, `Reset` | a call takes effect at most once; a success is real; every call returns |
| Server (`internal/server/server.go`, `handler/handler.go`, `store/store.go`) | a goroutine per connection, the Badger database | `Run`, `handleConn`, `Handle`, the three handlers | handlers end; store errors are reported |
| Command line client (`cmd/sharelock/main.go`, `internal/client/config/config.go`) | `.hosts`, `.session` | the commands, host management | several processes do not lose each other's changes |
| Block splitting (`internal/client/encryption/File.go`) | none | `ByteToBlock`, `BlockYToByte` | every byte once and in order |
| Server configuration (`cmd/sharelock-server`) | flags, environment, `.env` | `loadConfig` | the documented precedence |
| Netstream (`internal/client/netstream`) | none | two stream copies | nothing to check |

How they interact. A command line process loads the session, logs in (`GetUser`)
and makes one service call. A service call is a sequence of storage calls; each
storage call dials a connection of its own, and the server runs one handler per
connection. There is no lock, no transaction over several keys and no retry: all
coordination between clients goes through the contents of the store.

The sharing tree. `accessID(user, filename)` names the user's access record,
sealed under the user's master key. It holds the UUID and key of the user's own
mailbox and a `Children` map with the mailboxes made for the users it was shared
with. A mailbox holds the file key and the inode's UUID. The inode lists the
blocks; inode and blocks are sealed under the file key. `RevokeAccess` draws a
new file key, seals blocks and inode again, gives the caller a new mailbox, writes
the new key into the mailboxes of the other direct children and drops the revoked
one from `Children`. Sharees further down copy their parent's mailbox when they
are invited and are known to their parent only.

The hard behaviours: long orders of share, accept, share on, append, re-store and
revoke by several users; several clients of one user with stale records in memory;
storage calls whose reply is lost or whose request is served late; crashes between
two storage calls of one service call; overlapping calls that write back what they
read before the other; processes that rewrite the same files; waiting without
deadlines. `PROJECT.json` lists them as hazards with their lines.

## Modules

| Module | Models |
|---|---|
| `Sharing` | users, files, invitations and revocation; one atomic action per service call |
| `SharedFiles` | what `Sharing` promises, without keys, blocks or mailboxes |
| `SharingClaims` | what the documents say where the code does something else |
| `SharingProofs` | theorems about `Sharing`: types, the sharing tree, keys and blocks |
| `SharedFilesProofs` | theorems about `Sharing`: file lists, lost access, the refinement of `SharedFiles`, and what the blocks of `Blocks` are in bytes |
| `SharingSteps` | the same service calls, one storage operation at a time, overlapping, failing and dying |
| `SharingStepsProofs` | theorems about `SharingSteps`: types, blocks and inodes, references, the sharing tree |
| `SerialSteps` | `SharingSteps` beside the last state in which no call was under way: what a call amounts to in `Sharing`, and what an interruption leaves |
| `SerialStepsProofs` | theorems about `SerialSteps`: calls that take turns are atomic, interruptions are local |
| `StepClaims` | what the documents say of revocation where overlapping calls do something else |
| `Accounts` | `InitUser` Set by Set, and `GetUser` |
| `RemoteStore` | storage calls: client, network, accept loop, handlers, Badger store |
| `AtomicStore` | what `RemoteStore` promises: an atomic map whose calls may fail |
| `Hosts` | the command line client: `.hosts`, `.session`, the choice of the server |
| `Blocks` | what the chunks of `Sharing` are in bytes: cutting a content into blocks and joining it, as operators |
| `ServerConfig` | the server's options from flags, environment, `.env` file and defaults |
| `AccountsProofs`, `RemoteStoreProofs`, `HostsProofs`, `ServerConfigProofs` | theorems about the module each is named after |
| `MCSharing`, `MCSharingSteps`, `MCSerialSteps`, `MCAccounts`, `MCHosts`, `MCServerConfig` | instances for TLC (symmetry sets) |

How they fit together: `RemoteStore` implements `AtomicStore`, the map with failing
calls that `SharingSteps` is written against; `SerialSteps` shows that a call which does
not overlap another and runs to its end is the atomic call of `Sharing`; `Sharing` implements
`SharedFiles`. `Hosts` says as which user and at which server a call is made.

### Sharing

* `session[c]` is `Client.user` in `app.go`: the user record in memory. The CLI
  process is the case in which `GetUser` is followed by one call; a longer lived
  client (the tests, the library user) makes several.
* `account`, `access`, `mailbox`, `inode`, `block` and `invitation` are the store,
  split by the kind of object a key names. UUIDs made by `uuid.New` and random keys
  are numbers that were never drawn before (`next`). A mailbox's UUID and key are
  drawn together and always travel together; one number stands for both.
* A sealed payload is a record with the key that sealed it; `decryptAndVerify`
  succeeds exactly under that key. A signed invitation carries its signer and its
  recipient; `verify` and `decryptFor` compare them.
* Contents are sequences of chunks, the blocks `ByteToBlock` cuts. `Inode.Size` is
  written and never read by the client, and is left out.
* The error paths. A call that returns before its first `Set` changes nothing: its
  conditions are guards. `CreateInvitation` stores the recipient's mailbox before it
  looks the recipient up, so the unknown recipient is a disjunct of the action that
  leaves the mailbox behind. A storage call that fails in the middle of a service
  call is the subject of `SharingSteps`.
* `RevokeAccess` does not check that the user is a child, and neither does its action;
  any sharee may call it. `AcceptInvitation` replaces a record of that name,
  and an invitation can be accepted again and again.
* `revoked` and the `name` field of an invitation are history: they record which
  mailboxes `RevokeAccess` removed and which file an invitation was for. No guard
  reads them.

### SharingSteps

A service call is a record in `call`: what it read (`access`, `box`) and the storage
operations it has still to do (`plan`). The reads come first (`Begin`, `ReadMailbox`,
`ReadInode`), each a step; then the plan is fixed, because what a call writes depends on
what it read and on its arguments only. `RevokeAccess` reads every block and every
child's mailbox just before it writes it (`fetch`, followed by the `set` it leads to), and
goes through `Children` in any order, as Go's `range` over a map does. `CreateInvitation`
looks the recipient up between two `Set`s (`lookup`).

Between two steps other clients run. `Fault` says what else happens: a storage operation
fails and the call returns (`error`), the process dies (`crash`), or the `Set` of a failed
call takes effect later (`late`, which `AtomicStore` allows; one such `Set` at a time). A
failed `Set` may have taken effect. The user record in memory keeps the name that was
added to it before the failing `saveUser`, as the code does. `revoked` grows at the `Set`
of the access record, the moment the child is gone from it.

`LoadFile` changes nothing and has no steps here: what an overlapping one returns follows
from `LoadsSeeOneContent`. `InitUser` and `GetUser` are atomic; `Accounts` has their steps.
`issued` and `batch` are history: the pointers that reached their caller, and which blocks
were written by one call.

### Accounts

`InitUser` checks the name with one `Get` and then makes three `Set`s: two public keys and
the record. One number stands for the two key pairs, which are drawn together. A call
may fail or die at every `Set`, which took effect, never will, or takes effect later, as
`AtomicStore` allows (`late`, any number of them). `newest` and `raced` are history: which
`InitUser` of a name began last, and the names for which a `Set` of an older one was carried
out after it. That is where the damage begins: two calls that overlap, or the late `Set` of a
failed try, can leave the keys of one call with the record of another, or replace a record
whose creation was reported. Calls that failed before, and calls that overlap or are late
without such a `Set`, are not excepted.

### Hosts

Every command is a process that loads `.hosts` when it starts and then goes through a few
steps. `os.WriteFile` is two of them: the file is truncated (`Torn`) and then written;
over another process's longer content the write leaves a torn file too, and when `logout`
has removed the file in between it goes nowhere (`WriteNothing`). A host entry is
the server it leads to; its TLS flag is left out. Without an entry for the chosen host,
`at` is `None`: the process works on its own map, in which `init` finds every name free
and every login fails.

`init` is two steps at the server: the check of the name and the `Set` of the user record
(the keys are `Accounts`' subject). Other processes run in between, and the `Set` of a process
that failed or died may be carried out later (`late`). `raced` is history: the accounts that two
processes, or one and a late `Set`, could create; the later record replaces the earlier. A file
command reads `.session` (`LoadSession`), opens the user record at its server (`UseSession`) and
makes one call (`Act`) that succeeds or fails as the user that was loaded. `account` is what each
server knows.

The rest is history too. `added` are the hosts that should be listed; `unsafe` says that a write
of `.hosts` was cut short or that two host commands overlapped; `last` is the last `init` or
`host use` that printed ok. `user` is who is logged in after the last `init`, `login` or
`logout` that printed ok, and `Unclear` when that ok stands for a write or a removal that
failed: the code drops both errors.

### Blocks and ServerConfig

`Blocks` has `ByteToBlock` and `BlockYToByte` as operators. A byte is its position in the
content, so that a byte lost, repeated or moved shows. `LoadFile` joins the blocks itself;
`BlockYToByte` has no caller.

`ServerConfig` starts in the combinations of flags, environment variables, `.env` files
and forms of the `-env` option, and takes the steps of `loadDotEnv`, `loadConfig` and
`main`. `address` stands for itself and `dir`, which have a default of their own; `cert` and `key`
default to nothing. Flags, variables and lines of a file may be empty texts: an empty flag
counts, an empty variable hides the file and yields the default. A command line that
`flag.Parse` refuses is left out. All files that exist have the same content, or do not parse:
which of them is read shows in which exist.

### RemoteStore

Each call gets a connection of its own (`Dial`), so calls and connections are numbered
together. It waits in the listener's queue until `Run` accepts it, which it does while
fewer than `limit` connections are open (the process's file descriptors, any number up to
`MaxOpen`); a failing `Accept` changes nothing and is tried again. The request is written
in two parts (`sent`): op and key, and for a `Set` the value, as `Handle` and `handleSet`
read them. The handler goes from `reading` through `dispatched` and `executed` to
`listening`, where `handleConn` waits for another request that never comes. A connection
can break at any time, a client process can die in the middle of a call, the server can
die with all its handlers; the database survives (Badger commits a transaction before
`Update` returns). What the client wrote whole before it closed stays readable for the
handler: a `Set` can take effect after its caller was told it failed.

The local map used when no host is configured is in `Hosts`.

## Runs

| Run | Checks | Result |
|---|---|---|
| `sharing` | `TypeOK`, `KeyCoherent`, `RevokedNeverReopens`, `AccessFlowsDown`, `ListComplete`, `CutAndJoined`, `AccessLostByRekeyOnly`, `ImplementsSharedFiles` | pass, 86,770 states |
| `store` | `TypeOK`, `ImplementsAtomicStore`, `CallsReturn`, `HandlersEnd` | pass, 148,386 states |
| `steps_calls` | `CallsAreAtomic`, `InterruptionIsLocal` | pass, 463,882 states |
| `steps_tree` | `StepTypeOK`, `PointeesFirst`, `TreeShape` | pass, 895,469 states |
| `steps_files` | `PointeesFirst`, `AppendsWhole`, `LoadsSeeOneContent` | pass, 1,257,395 states |
| `accounts` | `TypeOK`, `KeysMatch`, `CreatedCanLogIn` | pass, 59,163 states |
| `hosts` | `TypeOK`, `AddedHostsListed`, `OkMeansDone`, `ActsAsLastLogin` | pass, 2,688,690 states |
| `server_config` | `Precedence` | pass, 794,880 states |
| `claim_sharees` | `RemainingShareesKeepAccess` | violated |
| `claim_revoked` | `RevokedStayOut` | violated |
| `claim_restored` | `RevokedUserLosesAccess` | violated |
| `claim_env` | `EnvFlagWins` | violated |

Run one with `tlc -config sharing.cfg MCSharing` in this directory; the module
of each run is in `PROJECT.json`.

What the passing runs show.

* `KeyCoherent`: no order of appends and re-keyings that do not overlap leaves a block under
  another key than its inode. Whoever can open the inode can load the file.
* `RevokedNeverReopens`: a mailbox taken out of a `Children` map stays closed.
* `AccessFlowsDown`: a child's mailbox opens only while the mailbox of the record
  above it does, so revoking a sharee locks out everyone below, at any depth.
* `AccessLostByRekeyOnly`: the only ways to lose a file are to accept another
  invitation under its name, or a re-keying by another holder that does not keep
  this mailbox. The revoker and its remaining children never lose it.
* `ListComplete`: with one client at a time, the list after a login names exactly the
  files the user has a record for.
* `ImplementsSharedFiles`: `Sharing` implements `SharedFiles`. A file is an inode, its
  content what the blocks hold in order; a grant is a mailbox, live while it opens
  its inode. Re-encryption keeps every content, only a live grant extends one,
  inviting copies a grant's standing and withdrawn grants stay withdrawn.
* `ImplementsAtomicStore`: `RemoteStore` implements `AtomicStore`, the map the services
  are written against: at most one effect per call, in one step, and an answer other
  than an error is that effect's outcome.
* `CallsReturn`, `HandlersEnd`: no call and no handler waits for ever, also while calls
  wait to be accepted because every connection is in use.
* `CallsAreAtomic`: a call that runs to its end without another beside it is the atomic call
  of `Sharing`, also in a state that calls cut short have left. So what is proved of `Sharing`
  holds of the code's own order of storage operations while calls do not overlap or break.
* `InterruptionIsLocal`: a call that fails or dies anywhere harms at most the name that
  `StoreFile` or `AcceptInvitation` was replacing and the file `RevokeAccess` was re-keying.
  An operation of `AppendToFile` or `CreateInvitation` that fails, and a crash anywhere in
  them, harm no file. A `Set` that is carried out only after the call failed is not in this
  run: an inode that lands late replaces what later calls wrote (below).
* `PointeesFirst`, `TreeShape`: overlapping and failing calls leave no reference to an object
  that was never stored (but for `StoreFile`'s inode) and never make a mailbox the child of
  two records or of a record of another file.
* `AppendsWhole`: no file shows part of a store or an append. Of two appends that overlap
  one can be lost whole, never a part.
* `LoadsSeeOneContent`: a stored block is sealed anew but never says anything else, so a
  `LoadFile` that overlaps other calls returns one version of the file or an error.
* `KeysMatch`, `CreatedCanLogIn`: after any number of tries to create a user that failed, died,
  overlapped or whose `Set`s come late, the published keys are those of the stored record and the
  password opens it, because the record, which makes the name taken, is written last. Only a
  `Set` that lands after a newer `InitUser` of the name began can change that.
* `AddedHostsListed`: no host entry is lost and `.hosts` stays readable, but when a write of it
  is cut short or two host commands overlap.
* `ActsAsLastLogin`: a file command takes up the session that the last `init`, `login` or
  `logout` to print ok has left, or none, however these truncate, write and remove `.session`
  under each other. An ok that changed nothing is excepted.
* `OkMeansDone`: after `host use` printed ok the default is set and the old name is gone;
  after `init` printed ok the server it was connected to has the account with that password,
  unless another process or a late `Set` could create it as well.
* `CutAndJoined`: the cut is exact at every length, and joining gives the content back.
* `Precedence`: the options come from the documented sources in their order, unless the file
  is named by `--env=path`.

What the violated ones show. Each states a sentence of the repository; `PROJECT.json`
quotes it under `findings`.

* `claim_sharees`: `RevokeAccess` updates the mailboxes in the caller's `Children` only. A
  sharee's sharee loses the file when somebody else is revoked; so does a sharee who was
  invited twice and uses the first mailbox, because `Children` holds the second.
* `claim_revoked`: an append that overlaps a revocation writes the inode back under the old
  key, which the removed mailbox holds.
* `claim_restored`: when the owner stores the file again the sharees stay on the old inode and
  out of `Children`; revoking one succeeds and the sharee still loads the old version.
* `claim_env`: `--env=path`, which the flag package accepts, is not seen by the scan that loads the
  file. The server runs with the file of `SHARELOCK_ENV_FILE` or `.env`, although the `-env` flag
  is documented to come first.

### Where the properties stop

The passing properties are stated with the exceptions the code makes. Each of these is
what the modelled code does:

* Two clients of one user: `saveUser` writes the list read at login, and a file the other
  client stored in between is no longer listed. `ListComplete` is checked with one client.
* Two appends that overlap: the later inode replaces the earlier, and one append is lost. An
  inode of a failed append that lands late replaces the appends made since in the same way, and
  after a re-keying it is under the old key. `KeyCoherent` is about calls that do not overlap.
* A call of another client of the owner that overlaps a revocation can also write the access
  record back with the old mailbox, and the owner loses the file.
* `StoreFile` writes the access record before the inode. A crash in between leaves a name
  without a file, also when there was one before; `PointeesFirst` and
  `InterruptionIsLocal` except it.
* Two overlapping `InitUser` calls for one name can both succeed and mix their keys; so can a
  late `Set` of a failed one and a later success. The record of the later `Set` replaces the
  other: of two `init` commands that printed ok one has no account.
* Two overlapping host commands: the later save drops the earlier entry.
* `host use default` removes the default. `init` without a host entry reports ok and the account
  ends with the process. `init` and `login` report ok when the session could not be saved.
  The next file command then runs with the session of before. The legacy file commands run
  without a user and panic.
* A variable that is set and empty hides the `.env` file and yields the default.

### Bounds

* `sharing`: three users give trees of depth two and pairs of siblings; two file names,
  two different chunks and contents of up to two blocks, so that order and position matter. Nine
  drawn numbers (`MaxId`) are enough to store, invite twice and revoke, to invite again
  after a revocation, to store again after sharing, and to store, append and revoke (a store
  draws three, an invitation and a revocation two, a block one). Longer chains are left to the
  theorems: all that is checked here is proved for all values of the constants.
* One client: clients differ in the record they hold in memory only; a single
  client logs in as any user at any time. The theorems hold for any set of clients.
* `store`: two calls, of one client one after the other or of two at once, on one key, with one
  or two connections open. Calls on different keys do not meet. Two are enough for a call
  that is served after a later one returned, and for one that waits to be accepted.
* `steps_calls`: two users and eight numbers, failing operations and crashes at every
  step: store a block, invite, accept, revoke. One client, since the properties are about
  calls that do not overlap.
* `steps_tree`: two clients of two users, empty contents (blocks do not touch the tree), seven
  numbers: store, invite and re-key, each overlapping another call.
* `steps_files`: one user with two clients, two different chunks and contents of two
  blocks, so that half a call and a changed order show; six numbers: a store and an append
  of two blocks, or a store of one, an append and a re-keying. Calls die and `Set`s land
  late; an operation that fails and returns leaves nothing in the store that a crash does
  not. `PointeesFirst` is checked here for its blocks, which `steps_tree` has none of.
* `accounts`: three draws, two clients, two users and two passwords: two tries that overlap
  or of which one is late, and a third that succeeds.
* `hosts`: two processes, the default and one other name, one server, one user, two passwords. With
  one name beside the default every host command meets every other on the same entry; two
  passwords tell two accounts of one name and two sessions apart. Servers do not share accounts.
* `CutAndJoined`: block size 4, for files of up to six blocks (`sharing` stores two and
  appends four), so every remainder and every length up to 24; the code's 512 differs in
  the number of bytes that behave alike.
* `server_config`, `claim_env`: a text of its own for each source tells the sources apart; each
  source gives all options alike, as text, as empty or not at all, or each in another way. `-env path` and
  `--env path` behave as `-env=path` and are left out of the runs.
* Users, file names and chunks are interchangeable, as are storage clients and values;
  the symmetry sets are used with safety properties only.
* Deadlock is not checked where the system may stop: `store` when all calls are made and
  answered, `accounts` when the draws are used up, `hosts` when a torn `.hosts` stops every
  command, `server_config` when the server runs or has ended.

### Fairness

`FairSpec` has weak fairness for the client's steps of a call (a process that can go on
does), for each handler's steps (Go schedules every runnable goroutine) and for the accept
loop, which tries again after every error. That an end
that lost its connection notices it rests on TCP: a closed or reset connection makes the
read fail, and Go turns TCP keep-alive on by default for dialled and accepted
connections, so a vanished peer is noticed too. Nothing is assumed of link breaks,
crashes and new calls. A client dies and a connection breaks at any moment or never.

## Proofs

All theorems hold for every set of users, clients, processes, names, keys and values, for every
bound and for every set of faults. What is assumed of the constants is named where they are
declared, and TLC evaluates it on every run: the bounds are natural numbers
(`BoundsAssumption`, `KeysAssumption`, `CallsAssumption`, `OpenAssumption`), so is the block size,
which is not zero (`SizeAssumption`), the default is a host
name (`DefaultAssumption`), flags, environments and files hold texts and `-env` has one of five forms (`StringsAssumption`, `EnvAssumption`), the faults are those the model knows
(`FaultAssumption` and its like), and `None`, `Torn`, `Unclear` and `Malformed` are told apart from what is
stored and from a call (`NoneAssumption`, `CallAssumption`, `GrantAssumption`,
`AccountNoneAssumption`, `StoreNoneAssumption`, `HostNoneAssumption`, `ConfigNoneAssumption`). The code tells these cases apart by an error
value, a boolean or a nil pointer.

| Module | Theorem | Statement |
|---|---|---|
| `SharingProofs` | `TypeCorrect` | `Spec => []TypeOK` |
| | `RevocationIsFinal` | `Spec => []RevokedNeverReopens` |
| | `RevocationCascades` | `Spec => []AccessFlowsDown` |
| | `FilesAreReadable` | `Spec => []KeyCoherent` |
| | `Invariance` | `Spec => []SharingInv` |
| `SharedFilesProofs` | `ListsAreComplete` | `Spec /\ []OneClientPerUser => []ListComplete` |
| | `AccessIsLostByRekeyOnly` | `Spec => AccessLostByRekeyOnly` |
| | `SharedFilesImplemented` | `Spec => ImplementsSharedFiles` |
| | `BlocksAreCutAndJoined` | `Spec => []CutAndJoined` |
| `SharingStepsProofs` | `CallTypes` | `StepSpec => []StepTypeOK` |
| | `LoadsAreConsistent` | `StepSpec => LoadsSeeOneContent` |
| | `FilesShowWholeAppends` | `StepSpec => []AppendsWhole` |
| | `ReferencesAreStored` | `StepSpec => []PointeesFirst` |
| | `TreeKeepsShape` | `StepSpec => []TreeShape` |
| | `FilesStayApart` | `StepSpec => [](FreshUnused /\ BlocksApart)` |
| `SerialStepsProofs` | `CallsTakeOneStep` | `SerialSpec`, in turns `=> CallsAreAtomic` |
| | `InterruptionStaysLocal` | `SerialSpec`, in turns `=> InterruptionIsLocal` |
| | `OneClientIsSerial` | one client, nothing late: `SerialSpec => CallsAreAtomic /\ InterruptionIsLocal` |
| `AccountsProofs` | `AccountTypes` | `Spec => []TypeOK` |
| | `PublishedKeysMatch` | `Spec => []KeysMatch` |
| | `AccountsLast` | `Spec => []CreatedCanLogIn` |
| `RemoteStoreProofs` | `StoreTypes` | `Spec => []TypeOK` |
| | `AtomicStoreImplemented` | `Spec => ImplementsAtomicStore` |
| `HostsProofs` | `HostTypes` | `Spec => []TypeOK` |
| | `HostsStayListed` | `Spec => []AddedHostsListed` |
| | `CommandsActAsLastLogin` | `Spec => ActsAsLastLogin` |
| | `ReportsAreTrue` | `Spec => []OkMeansDone` |
| `ServerConfigProofs` | `SourcesInOrder` | `Spec => []Precedence` |

### The sharing tree

`RevokedNeverReopens` and `AccessFlowsDown` are not inductive by themselves.
`RevokeAccess` puts the new key into the mailboxes of the children it keeps, so one must
know that no revoked mailbox is among them (`RevokedUnlinked`), which in turn needs
that a mailbox is in one place of the tree only (`OneParent`): otherwise a mailbox removed
here could still be kept there. That the kept children open the re-keyed inode needs
that they lead to the record's own inode (`ChildrenShareTheFile`). That a new key opens
nothing old needs that no stored key is still to be drawn (`NoDanglingReference`), and that
a new object overwrites nothing needs that fresh names are unused (`FreshUnused`). Together
they are `TreeInv`, which is inductive over `TypeOK`. `KeyCoherent` needs
`BlocksApart`: if two inodes shared a block, re-encrypting it for one would close it for
the other. These two are `BlockInv`; `SharingInv` is the whole.

The module proves types first, then the tree and last the blocks; each part has a lemma
per action and a step that combines them. Facts about block lists (`NewBlocksProperties`,
`IdsOfConcat`) are lemmas of their own.

### Lists, lost access and the abstract files

`ListsAreComplete` has a hypothesis, that no two clients are logged in as one user: with two of
them the code loses names (see above), and the run has one client. `ListInv` adds to the
property that the list in memory is the stored one, which is what the hypothesis is for, and
that only users have access records.

`AccessIsLostByRekeyOnly` follows from `SharingInv` before and after a step: for every service
call, which mailboxes it leaves open (the `...KeepsOpen` lemmas), and for `RevokeAccess` that the
caller's new mailbox and those of the kept children open the re-keyed inode.

`SharedFilesImplemented` maps an inode to the content its blocks hold and a mailbox to a grant,
live while it opens its inode. Each service call is one step of `SharedFiles`, or none: storing
makes a file and a live grant, appending extends a content through a live grant, inviting copies
a grant, revoking withdraws all grants of the file but those of the kept children and makes a
new one. Besides `SharingInv` it needs that no record is its own child (`NotOwnChild`): the
mailbox a revocation replaces must not be among those it re-keys.

`BlocksAreCutAndJoined` is about the bytes behind the chunks: for every content that the blocks of
a stored file can hold, the blocks `ByteToBlock` cuts are full but for the last, and joining them
gives the content back. `FlattenSeq` joins by a recursive function, and what a recursion computes
cannot be proved by the library's induction theorems here. The proof goes around them: it exhibits
the function that joins the first `n` blocks by arithmetic alone, shows that it follows the
recursion (`DataParts`), and that two functions which follow it cannot differ, since there would
be a least place where they do (`FlattenUnique`, with `LeastNumber` from the library's fact that
a set of naturals has a least element).

### Overlapping calls

`SharingSteps` is proved about by what a step may write later. `Puts` is the set of all `Set`s that
are in a plan or late, and `StepEffect` says of every step that it changes nothing in the store
and adds certain `Set`s to `Puts`, or that it carries out one of `Puts` and adds none. The types
need to know how far a call can be (`CallShape`: for instance that `CreateInvitation`'s argument is
a user until the lookup and a pointer after it) and that a returned pointer leads to an
invitation (`IssuedStored`, which `AcceptInvitation` relies on). Each action has one lemma, for its
types and its effect.

Blocks and inodes then have short inductive invariants, which no longer mention calls.
`OnePlain`: a block has at most one chunk, counting the chunk it holds and those that planned or
late `Set`s carry to it. (A re-keying plans a block's own chunk; a store or an append plans blocks
with new numbers.) `WholeLists`: every block list, stored, planned or late, holds all or none of the
blocks of each call, and only numbers that were drawn. The properties alone are not
inductive, because a `Set` can be planned long before it lands.

`ReferencesAreStored` is about the order within a plan, so it follows the calls themselves.
`Needs(p)` are the objects the `Set` `p` refers to and `Has` what is stored; `InOrder` says that each
`Set` of a plan needs only what is stored or an earlier `Set` of the plan stores. `OrderInv` adds
what makes this inductive: the access record a call has read, the list of files in a client's memory
and a `Set` that is late refer only to what is stored, and so does the mailbox that
`CreateInvitation` made once it comes to the lookup. The store only grows, so the steps of one client
disturb nothing of the others'. Plans are put together from parts in order (`OrderPair`,
`OrderConcat`) and worked off from the front (`OrderTail`).

`TreeKeepsShape` cannot look at the stored records alone: a call writes back the access record it
read, with another call's change in between, and a late `Set` brings an old version back. `Facts`
are therefore what any version of a record states, be it stored, planned, late or in the memory of a
call: that a mailbox is the child of a user at a handle (`link`), that two mailboxes are in one
record (`mates`), that a mailbox leads to an inode (`leads`). `FactsAgree` says that all of them
agree, as if every version were in force at once. It is inductive, because a step that writes
a stale record back states nothing new. What is new is one of a few kinds: a mailbox with a new
number that leads to an inode (`AgreeNewFile`), one that is also given a place (`AgreeNewChild`), one
that takes the place of another, with its children (`AgreeReplaced`), and two mailboxes of one inode
that come into one record (`AgreeMates`). `CreateInvitation` links its mailbox several steps after it
made it; its place counts as a fact from the first of these steps, so the link itself adds none. From
`FactsAgree` to `TreeShape` the proof needs `PointeesFirst`: the mailboxes of a stored record
are stored.

`FilesStayApart` extends two parts of `SharingInv` to overlapping calls. Its inductive form
`ApartInv` counts the block lists of all planned and late `Set`s with the stored ones (`Lists`): a
call lists, beside blocks its file has already, only numbers it draws.

### Calls that take turns

`CallsTakeOneStep` and `InterruptionStaysLocal` have a hypothesis, `[][TakeTurns]`: no call begins while
another is under way, and no `Set` lands late. Any number of clients, failing operations and
crashes remain. The hypothesis cannot be dropped: overlapping calls are not atomic in this code
(`claim_revoked`, and the lost appends above). `OneClientIsSerial` shows when it holds of every
behaviour: with one client and without late `Set`s, as in the run `steps_calls`.

The invariant is `Alone`. It compares the present state with `base`, the state `b` in which the call
began. A `...Goal` operator per service call says in which state `g` the atomic call of `Sharing` would
end; `Aim` says that `g` is the goal of this call, and `Toward` that the rest of its plan leads there:
each place of the store holds what `g` has, or what `b` had while a step for it is still in the plan
(`Near`), and each step left writes what `g` has in its place (`Leads`). So no induction over
the plan is needed: a step takes one element off the front (`DoSetAlone`), which keeps `Toward`, and
with an empty plan `Near` says that the store is `g`. The `Begin...Alone` and `Read...Alone` lemmas show
that a call starts with a plan that leads to its goal, and the `...IsAtomic` lemmas that the step
from `b` to `g` is a step of `Sharing`.

`Between` is what must be known of `b`. It has to hold in the states that calls cut short have left, so
it comes from the theorems about overlapping and failing calls: `ReferencesAreStored`,
`TreeKeepsShape`, and `FilesStayApart`. The last is needed because `RevokeAccess` seals a file's blocks
anew one by one, which must take none from another file.

For `InterruptionStaysLocal`, a call that is cut short does at most its next `Set`, so that what it
leaves is a mixture of `b` and `g`, place by place (`Mixed`). A handle whose record, mailbox, inode and
blocks `g` leaves as in `b` (`Keeps`) then loads as before; the `...Keeps` lemmas show this of every
handle that is not at risk, for each service call. The exception is an append to the same file: its
inode is written last (`InodeLast`), so either the handle still sees the old inode with the
old blocks, or every block of `g` is there (`CutShortAppend`) and it loads all that was appended.

### The other components

* `Accounts`: `Open` are the `InitUser`s under way or late. `Numbered` says that each has keys of
  its own, and `SetsDone` that, without a race, the newest of a name finds no record yet and has the
  keys it has published in the key store. They make `KeysMatch` and `CreatedCanLogIn` inductive:
  the record is stored over nothing, and beside keys that are its own. Once it is stored, a `Set`
  that is still open for its name is a race.
* `RemoteStore`: an abstract call takes effect when the handler executes it. `ExecutedOnce` says
  that a handler has no outcome before it executes, and that a reply is the outcome;
  `Undialled` and `InCall` say what the two ends hold before and during a call.
  Breaks, crashes and the steps of connections are stutters of `AtomicStore`.
* `Hosts`: `Shapes` says what a process holds at each of its steps. `FilePart` says, while nothing
  unsafe has happened, that one process at most saves `.hosts`, that what it will save and what
  the file holds list every host that was added. `SessionPart` says that a session that can be read
  is the user's last login. `AccountPart` says that, without a race, one process or late
  `Set` at most is to store the record of an account, which is not there yet (`OneCreator`), and that
  what an `init` has stored stays (`Created`).
* `ServerConfig`: `ConfigInv` says at each step which sources have been merged.

### Only model-checked

* `CallsReturn` and `HandlersEnd`: liveness under fairness, which these provers cannot show.

The violated claims are counterexamples and have nothing to prove.

## Plan

The modules of the plan are written, and every safety property of the passing runs is proved. What
would add most next: `CallsAreAtomic` for calls that overlap but touch different files, which needs
`base` to be kept per file.

## Not modelled

* The cryptographic primitives: the model assumes that a payload opens only under its
  key, and that signatures and fresh UUIDs and keys are never guessed or repeated.
* A store that changes sealed data by itself; the server here only stores.
* TLS, the netstream copy and the `read` command that calls it, build and deployment files,
  argument parsing and usage texts.
* Which directory `.hosts` and `.session` are in: one pair of files per user is assumed.
* The steps of `LoadFile` and `GetUser`, which only read.
* `Reset` of the remote store, which only tests call.
* `SetWithTTL` and `Exists` of the store wrapper, which only tests call.
