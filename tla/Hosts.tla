------------------------------- MODULE Hosts -------------------------------
(***************************************************************************)
(* The command line client: every command is a process that loads .hosts,   *)
(* chooses a server, loads or saves .session, and exits.  The two files are *)
(* shared by all processes of the user without a lock, and os.WriteFile     *)
(* truncates a file before it writes it.                                    *)
(*                                                                          *)
(* A host entry is the server it leads to.  A missing .hosts file loads as  *)
(* an empty table.  A process that finds no entry for its host name works   *)
(* on a map of its own (remote's `local'), which nobody else sees and which *)
(* ends with the process.  Of InitUser the check of the name and the Set of *)
(* the user record are steps here; its keys are Accounts' subject, and what *)
(* the file commands do at a server is Sharing's: here each is one call.    *)
(***************************************************************************)
EXTENDS Integers, FiniteSets

CONSTANTS Process, Name, Default, Server, User, Password,
          None,      \* no entry, no file, no process; the process's own map
          Torn,      \* the content of a file that was truncated or half overwritten
          Unclear,   \* who is logged in when the last command to say so did not get it done
          Fault      \* what can go wrong: a subset of {"disk", "net", "crash"}

ASSUME DefaultAssumption == Default \in Name
ASSUME HostFaultAssumption == Fault \subseteq {"disk", "net", "crash"}

Table == [Name -> Server \cup {None}]
Credentials == [user : User, password : Password]

\* A running process: its command, the table it will save, the server it talks to
\* (None: its own map), its next step, the user it acts as and the host it changes.
Command == {"add", "rm", "use", "init", "login", "logout", "user", "legacy"}
Step == {"save", "write", "call", "set", "keep", "kept", "gone", "clear",
         "login", "open", "act", "nil"}
Proc == [cmd : Command, cfg : Table \cup {None}, at : Server \cup {None}, step : Step,
         cred : Credentials \cup {None}, name : Name \cup {None}]
Report == [cmd : Command, cred : Credentials \cup {None}, at : Server \cup {None},
           name : Name \cup {None}]

\* The Set of a user record at a server.
RecordSet == [at : Server, cred : Credentials]

\* What is absent is told apart from what is there, and a torn file from a table.
ASSUME HostNoneAssumption ==
    /\ None \notin Server \cup Password \cup Proc \cup Credentials
    /\ Torn \notin Table \cup Credentials
    /\ Unclear \notin Credentials \cup {None}

VARIABLES
    hosts,      \* .hosts: the table, or Torn
    session,    \* .session: credentials, None or Torn
    account,    \* the users of each server, with their passwords
    late,       \* record Sets whose process is gone and that the server has yet to do
    proc,       \* the running processes
    added,      \* history: the names host commands put into the table and left there,
                \*          forgotten once a save is unsafe
    unsafe,     \* history: a write of .hosts was cut short, or two host commands overlapped
    user,       \* history: who is logged in after the last init, login or logout that
                \*          printed ok; Unclear if its change of .session failed
    raced,      \* history: the accounts that two InitUser calls could create
    last        \* history: the last command that ended, if it is an init or a host use
                \*          and printed ok

hostVars == <<hosts, added, unsafe>>
sessionVars == <<session, user>>
serverVars == <<account, late, raced>>

vars == <<hostVars, sessionVars, serverVars, proc, last>>

Init ==
    /\ hosts = [n \in Name |-> None]
    /\ session = None
    /\ account = [s \in Server |-> [u \in User |-> None]]
    /\ late = {}
    /\ proc = [p \in Process |-> None]
    /\ added = {}
    /\ unsafe = FALSE
    /\ user = None
    /\ raced = {}
    /\ last = None

\* Variant of NewProc: the host's name is taken for its address.
NewProcNameAsAddress(k, cfg, at, step, cred, name) ==
    [cmd |-> k, cfg |-> cfg, at |-> name, step |-> step, cred |-> cred, name |-> name]

\* A process for the command k: what it loaded, the server it talks to, its next step.
NewProc(k, cfg, at, step, cred, name) ==
    [cmd |-> k, cfg |-> cfg, at |-> at, step |-> step, cred |-> cred, name |-> name]

At(p, step) == proc[p] # None /\ proc[p].step = step

Goto(p, step) == proc' = [proc EXCEPT ![p].step = step]

\* The process ends, reporting outcome.
Exit(p, outcome) ==
    /\ proc' = [proc EXCEPT ![p] = None]
    /\ last' = IF outcome # "ok" \/ proc[p].cmd \notin {"init", "use"} THEN None
               ELSE [cmd |-> proc[p].cmd, cred |-> proc[p].cred, at |-> proc[p].at,
                     name |-> proc[p].name]

(***************************************************************************)
(* Starting.  config.Load fails on a torn file, and every command with it.  *)
(***************************************************************************)
CanStart(p) == proc[p] = None /\ hosts # Torn

\* host add, host rm and host use change the table in memory and save it.
AddHost(table, n, s) == [table EXCEPT ![n] = s]
RemoveHost(table, n) == [table EXCEPT ![n] = None]

\* Variants of UseHost: every other entry goes too; the original is removed first.
UseHostOnly(table, n) == [m \in Name |-> IF m = Default THEN table[n] ELSE None]
UseHostRemovedFirst(table, n) == AddHost(RemoveHost(table, n), Default, RemoveHost(table, n)[n])

\* The entry is copied to default, then the original is removed.
UseHost(table, n) == RemoveHost(AddHost(table, Default, table[n]), n)

HostCommand(p) ==
    /\ CanStart(p)
    /\ \E n \in Name :
          \/ \E s \in Server :
                proc' = [proc EXCEPT ![p] =
                    NewProc("add", AddHost(hosts, n, s), None, "save", None, n)]
          \/ proc' = [proc EXCEPT ![p] =
                NewProc("rm", RemoveHost(hosts, n), None, "save", None, n)]
          \/ /\ hosts[n] # None
             /\ proc' = [proc EXCEPT ![p] =
                    NewProc("use", UseHost(hosts, n), None, "save", None, n)]
    /\ unsafe' = (unsafe \/ \E q \in Process : At(q, "save") \/ At(q, "write"))
    /\ UNCHANGED <<hosts, added, sessionVars, serverVars, last>>

\* The other commands connect to the entry of default or of SHARELOCK_HOST (n).
AccountCommand(p) ==
    /\ CanStart(p)
    /\ \E n \in Name, c \in Credentials, k \in {"init", "login"} :
          proc' = [proc EXCEPT ![p] = NewProc(k, None, hosts[n], "call", c, None)]
    /\ UNCHANGED <<hostVars, sessionVars, serverVars, last>>

LogoutCommand(p) ==
    /\ CanStart(p)
    /\ proc' = [proc EXCEPT ![p] = NewProc("logout", None, None, "clear", None, None)]
    /\ UNCHANGED <<hostVars, sessionVars, serverVars, last>>

\* userCommands: the commands that load the session.
UserCommand(p) ==
    /\ CanStart(p)
    /\ \E n \in Name :
          proc' = [proc EXCEPT ![p] = NewProc("user", None, hosts[n], "login", None, None)]
    /\ UNCHANGED <<hostVars, sessionVars, serverVars, last>>

\* storefile, loadfile and the other legacy names of the file commands: not in
\* userCommands, so neither the session nor the services are set up.
LegacyCommand(p) ==
    /\ CanStart(p)
    /\ \E n \in Name :
          proc' = [proc EXCEPT ![p] = NewProc("legacy", None, hosts[n], "nil", None, None)]
    /\ UNCHANGED <<hostVars, sessionVars, serverVars, last>>

(***************************************************************************)
(* Files.  A write goes to the start of the file: over what another process *)
(* wrote since the truncation it may leave a longer tail behind.            *)
(***************************************************************************)
Overwrite(old, new) == IF old = Torn THEN {new} ELSE {new, Torn}

\* cfg.Save: the directory or the file cannot be opened, or the file is truncated.
SaveHosts(p) ==
    /\ At(p, "save")
    /\ \/ /\ hosts' = Torn
          /\ Goto(p, "write")
          /\ UNCHANGED last
       \/ /\ "disk" \in Fault
          /\ Exit(p, "error")
          /\ UNCHANGED hosts
    /\ UNCHANGED <<added, unsafe, sessionVars, serverVars>>

\* What the history remembers of a host command that succeeded.
AddedBy(k, n) ==
    CASE k = "add" -> added \cup {n}
      [] k = "rm"  -> added \ {n}
      [] k = "use" -> (added \cup {Default}) \ {n}

\* The table is written, or the disk is full.
WriteHosts(p) ==
    /\ At(p, "write")
    /\ \/ /\ hosts' \in Overwrite(hosts, proc[p].cfg)
          /\ unsafe' = (unsafe \/ hosts' = Torn)
          /\ added' = IF unsafe' THEN {} ELSE AddedBy(proc[p].cmd, proc[p].name)
          /\ Exit(p, "ok")
       \/ /\ "disk" \in Fault
          /\ unsafe' = TRUE /\ added' = {}
          /\ Exit(p, "error")
          /\ UNCHANGED hosts
    /\ UNCHANGED <<sessionVars, serverVars>>

\* SaveSession opens and truncates the file; its error is dropped and "ok" printed.
SaveSession(p) ==
    /\ At(p, "keep")
    /\ \/ session' = Torn /\ Goto(p, "kept") /\ UNCHANGED <<user, last>>
       \/ "disk" \in Fault /\ user' = Unclear /\ Exit(p, "ok") /\ UNCHANGED session
    /\ UNCHANGED <<hostVars, serverVars>>

\* The credentials are written, or the disk is full; that error is dropped as well.
WriteSession(p) ==
    /\ At(p, "kept")
    /\ \/ session' \in Overwrite(session, proc[p].cred) /\ user' = proc[p].cred
       \/ "disk" \in Fault /\ user' = Unclear /\ UNCHANGED session
    /\ Exit(p, "ok")
    /\ UNCHANGED <<hostVars, serverVars>>

\* The file was removed after this process had opened it: it writes to no file.
WriteNothing(p) ==
    /\ At(p, "gone")
    /\ user' = Unclear
    /\ Exit(p, "ok")
    /\ UNCHANGED <<hostVars, session, serverVars>>

\* Variant of Removed: the file is left as it is.
RemovedNot == session

\* What logout leaves of .session.
Removed == None

\* logout removes the file, also from under the processes that have it open; its error
\* is dropped too.
ClearSession(p) ==
    /\ At(p, "clear")
    /\ \/ /\ session' = Removed /\ user' = None
          /\ proc' = [q \in Process |->
                         IF q = p THEN None
                         ELSE IF At(q, "kept") THEN [proc[q] EXCEPT !.step = "gone"]
                         ELSE proc[q]]
          /\ last' = None
       \/ "disk" \in Fault /\ user' = Unclear /\ Exit(p, "ok") /\ UNCHANGED session
    /\ UNCHANGED <<hostVars, serverVars>>

(***************************************************************************)
(* Calls to the server, or to the process's own map.                        *)
(***************************************************************************)
\* GetUser at `at': the record is there and the password opens it.  The map of a
\* process that has just started is empty.
Opens(at, c) == at # None /\ account[at][c.user] = c.password

\* Variant of NameIsFree: the record that was found is not looked at.
NameIsFreeUnchecked(at, u) == at \in Server

NameIsFree(at, u) == account[at][u] = None

\* Another process, or a Set that is late, can still create the account.
Contended(p, at, u) ==
    \/ \E q \in Process : q # p /\ At(q, "set") /\ proc[q].at = at /\ proc[q].cred.user = u
    \/ \E i \in late : i.at = at /\ i.cred.user = u

\* cmdInit: the name must be free.  In the process's own map it always is, and the Sets
\* into it reach nobody.
CheckName(p) ==
    LET u == proc[p].cred.user
        at == proc[p].at
    IN  /\ At(p, "call") /\ proc[p].cmd = "init"
        /\ \/ at = None /\ Goto(p, "keep") /\ UNCHANGED <<raced, last>>
           \/ /\ at # None /\ NameIsFree(at, u)
              /\ raced' = IF Contended(p, at, u) THEN raced \cup {<<at, u>>} ELSE raced
              /\ Goto(p, "set") /\ UNCHANGED last
           \/ /\ at # None /\ ~NameIsFree(at, u)
              /\ Exit(p, "error") /\ UNCHANGED raced
        /\ UNCHANGED <<hostVars, sessionVars, account, late>>

\* The accounts once the record of c is stored at `at'.
Stored(at, c) == [account EXCEPT ![at][c.user] = c.password]

\* The last Set of InitUser, of the record; whatever record is there is replaced.
InitUser(p) ==
    /\ At(p, "set")
    /\ account' = Stored(proc[p].at, proc[p].cred)
    /\ Goto(p, "keep")
    /\ UNCHANGED <<hostVars, sessionVars, late, raced, last>>

\* cmdLogin
Login(p) ==
    /\ At(p, "call") /\ proc[p].cmd = "login"
    /\ IF Opens(proc[p].at, proc[p].cred)
       THEN Goto(p, "keep") /\ UNCHANGED last
       ELSE Exit(p, "error")
    /\ UNCHANGED <<hostVars, sessionVars, serverVars>>

\* LoadSession
LoadSession(p) ==
    /\ At(p, "login")
    /\ IF session \in Credentials
       THEN proc' = [proc EXCEPT ![p].step = "open", ![p].cred = session] /\ UNCHANGED last
       ELSE Exit(p, "error")
    /\ UNCHANGED <<hostVars, sessionVars, serverVars>>

\* GetUser with the session, at the server of this command.
UseSession(p) ==
    /\ At(p, "open")
    /\ IF Opens(proc[p].at, proc[p].cred)
       THEN Goto(p, "act") /\ UNCHANGED last
       ELSE Exit(p, "error")
    /\ UNCHANGED <<hostVars, sessionVars, serverVars>>

\* The service call of a file command, made as the user that was loaded.
Act(p) ==
    /\ At(p, "act")
    /\ Exit(p, "ok") \/ Exit(p, "error")
    /\ UNCHANGED <<hostVars, sessionVars, serverVars>>

\* What becomes of the call a process does not see the end of: a record Set is carried
\* out, never will be, or is carried out later.
Abandoned(p) ==
    \/ UNCHANGED <<account, late>>
    \/ At(p, "set") /\ account' = Stored(proc[p].at, proc[p].cred) /\ UNCHANGED late
    \/ /\ At(p, "set")
       /\ late' = late \cup {[at |-> proc[p].at, cred |-> proc[p].cred]}
       /\ UNCHANGED account

\* The server cannot be reached or the connection breaks.
CallFails(p) ==
    /\ "net" \in Fault
    /\ At(p, "call") \/ At(p, "set") \/ At(p, "open")
    /\ proc[p].at # None
    /\ Abandoned(p)
    /\ Exit(p, "error")
    /\ UNCHANGED <<hostVars, sessionVars, raced>>

\* The server gets to a record Set whose process is gone.
LateSet(i) ==
    /\ account' = Stored(i.at, i.cred)
    /\ late' = late \ {i}
    /\ UNCHANGED <<hostVars, sessionVars, raced, proc, last>>

\* A legacy file command reaches into the user that was never loaded.
Panic(p) ==
    /\ At(p, "nil")
    /\ Exit(p, "panic")
    /\ UNCHANGED <<hostVars, sessionVars, serverVars>>

Crash(p) ==
    /\ "crash" \in Fault
    /\ proc[p] # None
    /\ Abandoned(p)
    /\ proc' = [proc EXCEPT ![p] = None]
    /\ unsafe' = (unsafe \/ At(p, "write"))
    /\ UNCHANGED <<hosts, added, sessionVars, raced, last>>

Next ==
    \/ \E p \in Process :
          \/ HostCommand(p) \/ AccountCommand(p) \/ LogoutCommand(p)
          \/ UserCommand(p) \/ LegacyCommand(p)
          \/ SaveHosts(p) \/ WriteHosts(p)
          \/ SaveSession(p) \/ WriteSession(p) \/ WriteNothing(p) \/ ClearSession(p)
          \/ CheckName(p) \/ InitUser(p) \/ Login(p)
          \/ LoadSession(p) \/ UseSession(p) \/ Act(p) \/ Panic(p)
          \/ CallFails(p) \/ Crash(p)
    \/ \E i \in late : LateSet(i)

Spec == Init /\ [][Next]_vars

(***************************************************************************)
(* Properties.                                                              *)
(***************************************************************************)
Quiet == \A p \in Process : proc[p] = None

\* Type correctness of the two files, the servers and the processes.
TypeOK ==
    /\ hosts = Torn \/ hosts \in Table
    /\ session \in Credentials \cup {None, Torn}
    /\ account \in [Server -> [User -> Password \cup {None}]]
    /\ late \subseteq RecordSet
    /\ proc \in [Process -> Proc \cup {None}]
    /\ added \subseteq Name
    /\ unsafe \in BOOLEAN
    /\ user \in Credentials \cup {None, Unclear}
    /\ raced \subseteq Server \X User
    /\ last \in Report \cup {None}

\* A host that was added and not removed or made the default since is in the table,
\* and the table can be read.  Only a write of .hosts that was cut short (a crash, a
\* full disk) or two host commands that overlapped can change that; the commands that
\* write .session never do.
AddedHostsListed ==
    Quiet /\ ~unsafe => hosts # Torn /\ \A n \in added : hosts[n] # None

\* The session a file command takes up (config.go:130) is the one the last init, login
\* or logout to print ok has left, although logins and logouts overlap, truncate the
\* file under each other, are refused or die half way: what they leave is that session,
\* none, or a file that cannot be read.  The exception is `Unclear': the errors of
\* SaveSession and ClearSession are dropped, so a full disk, or a logout that removes
\* the file while a login writes it, makes an "ok" that changed nothing.
ActsAsLastLogin ==
    [][\A p \in Process : At(p, "login") /\ At(p, "open")' /\ user # Unclear =>
          proc'[p].cred = user]_vars

\* What printed ok was done, with the exceptions the code makes.  `host use' sets the
\* default (main.go:535), unless it is given the default itself, which it removes.  `init'
\* creates the account (README.md:93) with the password it was given where the process
\* was connected to; without a host entry that is a map that ends with it.  Of two
\* processes that both find the name free, or with a record Set of a failed init that
\* is still to come, the later Set replaces the account: `raced' holds these.
OkMeansDone ==
    last # None =>
        /\ last.cmd = "use" /\ last.name # Default /\ Quiet /\ ~unsafe =>
              hosts[Default] # None /\ hosts[last.name] = None
        /\ last.cmd = "init" /\ last.at # None /\ <<last.at, last.cred.user>> \notin raced =>
              account[last.at][last.cred.user] = last.cred.password
=============================================================================
