----------------------------- MODULE HostsProofs -----------------------------
(***************************************************************************)
(* Machine-checked proofs about Hosts, for every set of processes, host     *)
(* names, servers and users and every kind of fault.                        *)
(***************************************************************************)
EXTENDS Hosts, TLAPS

\* What a process carries at each of its steps.
Shape(x) ==
    /\ x.step \in {"save", "write"} =>
          x.cmd \in {"add", "rm", "use"} /\ x.cfg \in Table /\ x.name \in Name
    /\ x.step \in {"call", "keep", "kept", "gone"} =>
          x.cmd \in {"init", "login"} /\ x.cred \in Credentials
    /\ x.step = "set" => x.cmd = "init" /\ x.cred \in Credentials /\ x.at \in Server
    /\ x.step = "clear" => x.cmd = "logout"
    /\ x.step = "login" => x.cmd = "user"
    /\ x.step \in {"open", "act"} => x.cmd = "user" /\ x.cred \in Credentials
    /\ x.step = "nil" => x.cmd = "legacy"

Shapes == \A p \in Process : proc[p] # None => Shape(proc[p])

\* A host command is between loading the table and having saved it.
Saving(p) == At(p, "save") \/ At(p, "write")

\* The table t lists the names a, and what `host use' of n promises when k is "use".
Lists(t, a) == \A n \in a : t[n] # None
UseDone(t, k, n) == k = "use" /\ n # Default => t[Default] # None /\ t[n] = None

\* While no write was cut short and no two host commands overlapped: one process at
\* most is saving a table; the table it will write lists what the history will
\* remember; and the file does so already while nobody is writing it.
OneSaving == \A p, q \in Process : Saving(p) /\ Saving(q) => p = q
SavesDone ==
    \A p \in Process : Saving(p) =>
        /\ Lists(proc[p].cfg, AddedBy(proc[p].cmd, proc[p].name))
        /\ UseDone(proc[p].cfg, proc[p].cmd, proc[p].name)
FileDone ==
    (\A p \in Process : ~At(p, "write")) =>
        /\ hosts # Torn
        /\ Lists(hosts, added)
        /\ last # None => UseDone(hosts, last.cmd, last.name)
FilePart == ~unsafe => OneSaving /\ SavesDone /\ FileDone

\* The session that can be read is the user's, unless that is unclear.
SessionPart == session \in Credentials /\ user # Unclear => session = user

\* The processes and the late Sets that are to store a record for u at s.
Setting(s, u) == {q \in Process : At(q, "set") /\ proc[q].at = s /\ proc[q].cred.user = u}
LateOn(s, u) == {i \in late : i.at = s /\ i.cred.user = u}

\* Without a race there is one of them at most, and the account is not there yet.
OneCreator ==
    \A s \in Server, u \in User : <<s, u>> \notin raced =>
        /\ \A q, r \in Setting(s, u) : q = r
        /\ \A i, j \in LateOn(s, u) : i = j
        /\ Setting(s, u) = {} \/ LateOn(s, u) = {}
        /\ Setting(s, u) # {} \/ LateOn(s, u) # {} => account[s][u] = None

\* The account x was to create is there, with the password x was given.
Created(x) ==
    x.at # None /\ <<x.at, x.cred.user>> \notin raced =>
        account[x.at][x.cred.user] = x.cred.password

\* An init that has stored its record.
Through(x) == x.cmd = "init" /\ x.step \in {"keep", "kept", "gone"}

CreatedProcs == \A p \in Process : proc[p] # None /\ Through(proc[p]) => Created(proc[p])
CreatedLast == last # None /\ last.cmd = "init" => last.cred \in Credentials /\ Created(last)
AccountPart == OneCreator /\ CreatedProcs /\ CreatedLast

HostInv == TypeOK /\ Shapes /\ FilePart /\ SessionPart /\ AccountPart

\* No file, no account and no process at the start.
LEMMA InitHosts == Init => HostInv
<1> SUFFICES ASSUME Init PROVE HostInv
  OBVIOUS
<1>1. TypeOK
  BY DEF Init, TypeOK, Table
<1>2. hosts # Torn
  <2>1. hosts \in Table
    BY DEF Init, Table
  <2> QED
    BY <2>1, HostNoneAssumption
<1>3. Shapes /\ FilePart /\ SessionPart
  BY <1>2, HostNoneAssumption DEF Init, Shapes, FilePart, OneSaving, SavesDone, FileDone,
     Saving, At, Lists, SessionPart
<1>4. AccountPart
  BY DEF Init, AccountPart, OneCreator, Setting, LateOn, At, CreatedProcs, CreatedLast
<1> QED
  BY <1>1, <1>3, <1>4 DEF HostInv

(***************************************************************************)
(* What the steps have in common.                                           *)
(***************************************************************************)
\* Process p alone moves: it becomes x, or ends when x is None.
Moves(p, x) == proc' = [proc EXCEPT ![p] = x]

\* When one process becomes x, the others and the shapes of all stay.
LEMMA Moved ==
    ASSUME TypeOK, Shapes, NEW p \in Process, NEW x \in Proc \cup {None}, Moves(p, x),
           x # None => Shape(x)
    PROVE  /\ proc' \in [Process -> Proc \cup {None}]
           /\ proc'[p] = x
           /\ \A q \in Process \ {p} : proc'[q] = proc[q]
           /\ Shapes'
<1>1. /\ proc' \in [Process -> Proc \cup {None}] /\ proc'[p] = x
      /\ \A q \in Process \ {p} : proc'[q] = proc[q]
  BY DEF Moves, TypeOK
<1> QED
  BY <1>1 DEF Shapes

\* A step that touches no process that is saving a table, makes none start to, and
\* leaves no report of one, leaves the host table in order.
LEMMA FileUntouched ==
    ASSUME FilePart, UNCHANGED hostVars,
           \A q \in Process : Saving(q) \/ Saving(q)' => proc'[q] = proc[q],
           last' # last /\ last' # None => last'.cmd # "use"
    PROVE  FilePart'
<1>1. UNCHANGED <<hosts, added, unsafe>>
  BY DEF hostVars
<1>2. \A q \in Process : Saving(q)' <=> Saving(q)
  BY DEF Saving, At
<1>3. \A q \in Process : At(q, "write")' <=> At(q, "write")
  BY DEF Saving, At
<1>4. OneSaving => OneSaving'
  BY <1>2 DEF OneSaving
<1>5. ASSUME SavesDone PROVE SavesDone'
  <2>1. \A k, n : AddedBy(k, n)' = AddedBy(k, n)
    BY <1>1 DEF AddedBy
  <2> SUFFICES ASSUME NEW q \in Process, Saving(q)'
               PROVE  (/\ Lists(proc[q].cfg, AddedBy(proc[q].cmd, proc[q].name))
                       /\ UseDone(proc[q].cfg, proc[q].cmd, proc[q].name))'
    BY DEF SavesDone
  <2>2. /\ Lists(proc[q].cfg, AddedBy(proc[q].cmd, proc[q].name))
        /\ UseDone(proc[q].cfg, proc[q].cmd, proc[q].name)
        /\ proc'[q] = proc[q]
    BY <1>2, <1>5 DEF SavesDone
  <2> QED
    BY <2>1, <2>2 DEF Lists, UseDone
<1>6. FileDone => FileDone'
  BY <1>1, <1>3 DEF FileDone, Lists, UseDone
<1> QED
  BY <1>1, <1>4, <1>5, <1>6 DEF FilePart

\* Storing a record changes one account.
LEMMA StoredAt ==
    ASSUME TypeOK, NEW at \in Server, NEW c \in Credentials, account' = Stored(at, c)
    PROVE  /\ account' \in [Server -> [User -> Password \cup {None}]]
           /\ account'[at][c.user] = c.password
           /\ \A s \in Server, u \in User : s # at \/ u # c.user => account'[s][u] = account[s][u]
<1> DEFINE row == [account[at] EXCEPT ![c.user] = c.password]
<1>1. c.user \in User /\ c.password \in Password
  BY DEF Credentials
<1>2. account \in [Server -> [User -> Password \cup {None}]]
  BY DEF TypeOK
<1>3. /\ row \in [User -> Password \cup {None}] /\ row[c.user] = c.password
      /\ \A u \in User \ {c.user} : row[u] = account[at][u]
  BY <1>1, <1>2
<1>4. account' = [account EXCEPT ![at] = row]
  BY DEF Stored
<1> HIDE DEF row
<1>5. account'[at] = row /\ \A s \in Server \ {at} : account'[s] = account[s]
  BY <1>2, <1>4
<1>6. account' \in [Server -> [User -> Password \cup {None}]]
  BY <1>2, <1>3, <1>4
<1> QED
  BY <1>3, <1>5, <1>6

\* What was created stays so when a record is stored where there was none, or in a race.
LEMMA StillCreated ==
    ASSUME TypeOK, raced \subseteq raced', NEW x, x.at \in Server \cup {None}, x.cred \in Credentials,
           Created(x),
           \/ account' = account
           \/ \E at \in Server, c \in Credentials :
                 /\ account' = Stored(at, c)
                 /\ <<at, c.user>> \in raced \/ account[at][c.user] = None
    PROVE  Created(x)'
<1>1. CASE account' = account
  BY <1>1 DEF Created
<1>2. ASSUME NEW at \in Server, NEW c \in Credentials, account' = Stored(at, c),
             <<at, c.user>> \in raced \/ account[at][c.user] = None
      PROVE  Created(x)'
  <2>1. \A s \in Server, u \in User : s # at \/ u # c.user => account'[s][u] = account[s][u]
    BY <1>2, StoredAt
  <2>2. x.cred.user \in User /\ x.cred.password # None
    BY HostNoneAssumption DEF Credentials
  <2>3. SUFFICES ASSUME x.at # None, <<x.at, x.cred.user>> \notin raced'
                 PROVE  account'[x.at][x.cred.user] = x.cred.password
    BY DEF Created
  <2>4. account[x.at][x.cred.user] = x.cred.password /\ x.at \in Server
    BY <2>3 DEF Created
  <2>5. x.at # at \/ x.cred.user # c.user
    BY <1>2, <2>2, <2>3, <2>4
  <2> QED
    BY <2>1, <2>2, <2>4, <2>5
<1> QED
  BY <1>1, <1>2

\* A step that leaves the servers alone, starts no record Set and brings nobody past one
\* that did not happen.
LEMMA ServersUntouched ==
    ASSUME AccountPart, UNCHANGED serverVars,
           \A q \in Process : At(q, "set")' => proc'[q] = proc[q],
           \A q \in Process : proc'[q] # None /\ Through(proc'[q]) => Created(proc'[q]),
           last' = last \/ CreatedLast'
    PROVE  AccountPart'
<1>1. UNCHANGED <<account, late, raced>>
  BY DEF serverVars
<1>2. \A s, u : Setting(s, u)' \subseteq Setting(s, u) /\ LateOn(s, u)' = LateOn(s, u)
  BY <1>1 DEF Setting, LateOn, At
<1>3. OneCreator'
  BY <1>1, <1>2 DEF AccountPart, OneCreator
<1>4. CreatedProcs'
  BY <1>1 DEF CreatedProcs, Created, Through
<1>5. CreatedLast'
  BY <1>1 DEF AccountPart, CreatedLast, Created
<1> QED
  BY <1>3, <1>4, <1>5 DEF AccountPart

\* What the processes and the last report have created outlives a step.
LEMMA CreatedStay ==
    ASSUME TypeOK, Shapes, AccountPart, raced' = raced,
           \A q \in Process : \/ proc'[q] = proc[q]
                              \/ proc'[q] # None /\ Through(proc'[q]) => Created(proc[q])',
           last' = last \/ CreatedLast',
           \/ account' = account
           \/ \E at \in Server, c \in Credentials :
                 /\ account' = Stored(at, c)
                 /\ <<at, c.user>> \in raced \/ account[at][c.user] = None
    PROVE  CreatedProcs' /\ CreatedLast'
<1>1. CreatedProcs'
  <2> SUFFICES ASSUME NEW q \in Process, proc'[q] # None, Through(proc'[q])
               PROVE  Created(proc[q])'
    BY DEF CreatedProcs, Through
  <2>1. CASE proc'[q] = proc[q]
    <3>1. proc[q] \in Proc /\ Shape(proc[q]) /\ Through(proc[q])
      BY <2>1 DEF TypeOK, Shapes
    <3>2. proc[q].at \in Server \cup {None} /\ proc[q].cred \in Credentials
      BY <3>1 DEF Proc, Shape, Through
    <3>3. Created(proc[q])
      BY <2>1, <3>1 DEF AccountPart, CreatedProcs
    <3>4. \A x : /\ x.at \in Server \cup {None} /\ x.cred \in Credentials /\ Created(x)
                 => Created(x)'
      BY StillCreated
    <3>5. ASSUME NEW x, x = proc[q] PROVE Created(x)'
      BY <3>2, <3>3, <3>4, <3>5
    <3>6. \A x : x = proc[q] => Created(x)'
      BY <3>5
    <3> QED
      BY <2>1, <3>6 DEF Created
  <2>2. CASE proc'[q] # proc[q]
    BY <2>2
  <2> QED
    BY <2>1, <2>2
<1>2. CreatedLast'
  <2>1. CASE last' = last
    <3> SUFFICES ASSUME last' # None, last'.cmd = "init"
                 PROVE  last'.cred \in Credentials /\ Created(last)'
      BY DEF CreatedLast, Created
    <3>1. last \in Report /\ last.cred \in Credentials /\ Created(last)
      BY <2>1 DEF AccountPart, CreatedLast, TypeOK
    <3>2. last.at \in Server \cup {None}
      BY <3>1 DEF Report
    <3>3. \A x : /\ x.at \in Server \cup {None} /\ x.cred \in Credentials /\ Created(x)
                 => Created(x)'
      BY StillCreated
    <3>4. \A x : x = last => Created(x)'
      BY <3>1, <3>2, <3>3
    <3> QED
      BY <2>1, <3>1, <3>4 DEF Created
  <2> QED
    BY <2>1
<1> QED
  BY <1>1, <1>2

\* A record Set is carried out, dropped or left for later.
LEMMA SetEnds ==
    ASSUME TypeOK, Shapes, AccountPart, NEW p \in Process, NEW x \in Proc \cup {None},
           Moves(p, x), x # None => Shape(x) /\ x.step # "set",
           Abandoned(p), raced' = raced,
           x # None /\ Through(x) => Created(x)',
           last' = last \/ CreatedLast'
    PROVE  /\ AccountPart'
           /\ account' \in [Server -> [User -> Password \cup {None}]]
           /\ late' \subseteq RecordSet
<1>1. proc'[p] = x /\ \A q \in Process \ {p} : proc'[q] = proc[q]
  BY Moved
<1>2. \A s, u : Setting(s, u)' = Setting(s, u) \ {p}
  BY <1>1 DEF Setting, At
<1>3. \A q \in Process : \/ proc'[q] = proc[q]
                         \/ proc'[q] # None /\ Through(proc'[q]) => Created(proc[q])'
  BY <1>1 DEF Created
<1>4. CASE UNCHANGED <<account, late>>
  <2>1. CreatedProcs' /\ CreatedLast'
    BY <1>3, <1>4, CreatedStay
  <2>2. \A s, u : LateOn(s, u)' = LateOn(s, u) /\ Setting(s, u)' \subseteq Setting(s, u)
    BY <1>2, <1>4 DEF LateOn
  <2>3. OneCreator'
    BY <1>4, <2>2 DEF AccountPart, OneCreator
  <2> QED
    BY <1>4, <2>1, <2>3 DEF AccountPart, TypeOK
<1>5. CASE At(p, "set") /\ account' = account
           /\ late' = late \cup {[at |-> proc[p].at, cred |-> proc[p].cred]}
  <2>1. CreatedProcs' /\ CreatedLast'
    BY <1>3, <1>5, CreatedStay
  <2>2. Shape(proc[p]) /\ proc[p].step = "set"
    BY <1>5 DEF At, Shapes
  <2>3. PICK s \in Server, c \in Credentials : s = proc[p].at /\ c = proc[p].cred
    BY <2>2 DEF Shape
  <2>4. PICK i \in RecordSet : i = [at |-> s, cred |-> c] /\ i.at = s /\ i.cred = c
    <3>1. [at |-> s, cred |-> c] \in RecordSet
      BY DEF RecordSet
    <3> QED
      BY <3>1
  <2>5. late' = late \cup {i}
    BY <1>5, <2>3, <2>4
  <2>6. p \in Setting(s, c.user)
    BY <1>5, <2>3 DEF Setting
  <2>7. \A t, u : LateOn(t, u)' = IF t = s /\ u = c.user THEN LateOn(t, u) \cup {i} ELSE LateOn(t, u)
    BY <2>4, <2>5 DEF LateOn
  <2>8. c.user \in User
    BY DEF Credentials
  <2>9. ASSUME <<s, c.user>> \notin raced
        PROVE  /\ \A q \in Setting(s, c.user) : q = p
               /\ LateOn(s, c.user) = {} /\ account[s][c.user] = None
    BY <2>6, <2>8, <2>9 DEF AccountPart, OneCreator
  <2>10. OneCreator'
    <3> SUFFICES ASSUME NEW t \in Server, NEW u \in User, <<t, u>> \notin raced
                 PROVE  /\ \A q, r \in Setting(t, u)' : q = r
                        /\ \A a, b \in LateOn(t, u)' : a = b
                        /\ Setting(t, u)' = {} \/ LateOn(t, u)' = {}
                        /\ Setting(t, u)' # {} \/ LateOn(t, u)' # {} => account'[t][u] = None
      BY DEF OneCreator
    <3>1. CASE t = s /\ u = c.user
      <4>1. Setting(t, u)' = {} /\ LateOn(t, u)' = {i} /\ account'[t][u] = None
        BY <1>2, <1>5, <2>7, <2>9, <3>1
      <4> QED
        BY <4>1
    <3>2. CASE ~(t = s /\ u = c.user)
      BY <1>2, <1>5, <2>7, <3>2 DEF AccountPart, OneCreator
    <3> QED
      BY <3>1, <3>2
  <2> QED
    BY <1>5, <2>1, <2>5, <2>10 DEF AccountPart, TypeOK
<1>6. CASE At(p, "set") /\ account' = Stored(proc[p].at, proc[p].cred) /\ late' = late
  <2>1. Shape(proc[p]) /\ proc[p].step = "set"
    BY <1>6 DEF At, Shapes
  <2>2. PICK s \in Server, c \in Credentials : s = proc[p].at /\ c = proc[p].cred
    BY <2>1 DEF Shape
  <2>3. p \in Setting(s, c.user) /\ c.user \in User
    BY <1>6, <2>2 DEF Setting, Credentials
  <2>4. ASSUME <<s, c.user>> \notin raced
        PROVE  /\ \A q \in Setting(s, c.user) : q = p
               /\ LateOn(s, c.user) = {} /\ account[s][c.user] = None
    BY <2>3, <2>4 DEF AccountPart, OneCreator
  <2>5. account' = Stored(s, c)
    BY <1>6, <2>2
  <2>6. CreatedProcs' /\ CreatedLast'
    BY <1>3, <2>4, <2>5, CreatedStay
  <2>7. /\ account' \in [Server -> [User -> Password \cup {None}]]
        /\ \A t \in Server, u \in User : t # s \/ u # c.user => account'[t][u] = account[t][u]
    BY <2>5, StoredAt
  <2>8. \A t, u : LateOn(t, u)' = LateOn(t, u)
    BY <1>6 DEF LateOn
  <2>9. OneCreator'
    <3> SUFFICES ASSUME NEW t \in Server, NEW u \in User, <<t, u>> \notin raced
                 PROVE  /\ \A q, r \in Setting(t, u)' : q = r
                        /\ \A a, b \in LateOn(t, u)' : a = b
                        /\ Setting(t, u)' = {} \/ LateOn(t, u)' = {}
                        /\ Setting(t, u)' # {} \/ LateOn(t, u)' # {} => account'[t][u] = None
      BY DEF OneCreator
    <3>1. CASE t = s /\ u = c.user
      <4>1. Setting(t, u)' = {} /\ LateOn(t, u)' = {}
        BY <1>2, <2>4, <2>8, <3>1
      <4> QED
        BY <4>1
    <3>2. CASE ~(t = s /\ u = c.user)
      BY <1>2, <2>7, <2>8, <3>2 DEF AccountPart, OneCreator
    <3> QED
      BY <3>1, <3>2
  <2> QED
    BY <1>6, <2>6, <2>7, <2>9 DEF AccountPart, TypeOK
<1> QED
  BY <1>4, <1>5, <1>6 DEF Abandoned

\* A process ends; an init or a host use that printed ok leaves its report.
LEMMA Exits ==
    ASSUME TypeOK, NEW p \in Process, proc[p] # None, NEW o, Exit(p, o)
    PROVE  /\ Moves(p, None)
           /\ last' \in Report \cup {None}
           /\ last' # None => /\ o = "ok" /\ last'.cmd \in {"init", "use"}
                              /\ last'.cmd = proc[p].cmd /\ last'.cred = proc[p].cred
                              /\ last'.at = proc[p].at /\ last'.name = proc[p].name
<1>1. proc[p] \in Proc
  BY DEF TypeOK
<1> QED
  BY <1>1 DEF Exit, Moves, Proc, Report

\* A process goes on with its next step.
LEMMA GoesOn ==
    ASSUME TypeOK, NEW p \in Process, proc[p] # None, NEW s \in Step, Goto(p, s)
    PROVE  \E x \in Proc : /\ Moves(p, x) /\ x # None /\ x.step = s
                            /\ x.cmd = proc[p].cmd /\ x.cfg = proc[p].cfg
                            /\ x.at = proc[p].at /\ x.cred = proc[p].cred
                            /\ x.name = proc[p].name
<1> DEFINE x == [proc[p] EXCEPT !.step = s]
<1>1. proc[p] \in Proc
  BY DEF TypeOK
<1>2. /\ x \in Proc /\ x.step = s
      /\ x.cmd = proc[p].cmd /\ x.cfg = proc[p].cfg
      /\ x.at = proc[p].at /\ x.cred = proc[p].cred /\ x.name = proc[p].name
  BY <1>1 DEF Proc
<1>3. Moves(p, x)
  BY DEF Goto, Moves
<1> HIDE DEF x
<1> QED
  BY <1>2, <1>3, HostNoneAssumption

\* The step a process is at.
LEMMA AtStep ==
    ASSUME TypeOK, Shapes, NEW p \in Process, NEW s, At(p, s)
    PROVE  /\ proc[p] # None /\ proc[p] \in Proc /\ proc[p].step = s /\ Shape(proc[p])
           /\ s \notin {"save", "write"} => ~Saving(p)
           /\ proc[p].at \in Server \cup {None}
  BY DEF At, Saving, TypeOK, Shapes, Proc

\* A step of one process that leaves .hosts alone.
LEMMA OtherStep ==
    ASSUME HostInv, NEW p \in Process, NEW x \in Proc \cup {None}, Moves(p, x),
           x # None => Shape(x) /\ x.step \notin {"save", "write", "set"},
           ~Saving(p), UNCHANGED hostVars, Abandoned(p), raced' = raced,
           session' \in Credentials \cup {None, Torn}, user' \in Credentials \cup {None, Unclear},
           SessionPart',
           x # None /\ Through(x) => Created(x)',
           \/ last' = last
           \/ last' \in Report \cup {None} /\ CreatedLast' /\ (last' # None => last'.cmd # "use")
    PROVE  HostInv'
<1>1. TypeOK /\ Shapes /\ FilePart /\ AccountPart
  BY DEF HostInv
<1>2. /\ proc' \in [Process -> Proc \cup {None}] /\ Shapes'
      /\ proc'[p] = x /\ \A q \in Process \ {p} : proc'[q] = proc[q]
  BY <1>1, Moved
<1>3. /\ AccountPart'
      /\ account' \in [Server -> [User -> Password \cup {None}]]
      /\ late' \subseteq RecordSet
  BY <1>1, SetEnds
<1>4. \A q \in Process : Saving(q) \/ Saving(q)' => proc'[q] = proc[q]
  BY <1>2 DEF Saving, At
<1>5. FilePart'
  BY <1>1, <1>4, FileUntouched
<1>6. TypeOK'
  BY <1>1, <1>2, <1>3 DEF TypeOK, hostVars
<1> QED
  BY <1>2, <1>3, <1>5, <1>6 DEF HostInv

\* Steps that end a process without writing .hosts.
LEMMA EndStep ==
    ASSUME HostInv, NEW p \in Process, NEW s, At(p, s), NEW o, Exit(p, o),
           s \notin {"save", "write"}, UNCHANGED hostVars, Abandoned(p), raced' = raced,
           o = "ok" => s \in {"keep", "kept", "gone", "clear", "act"},
           session' \in Credentials \cup {None, Torn}, user' \in Credentials \cup {None, Unclear},
           SessionPart'
    PROVE  HostInv'
<1>1. TypeOK /\ Shapes /\ AccountPart
  BY DEF HostInv
<1>2. /\ proc[p] # None /\ proc[p] \in Proc /\ proc[p].step = s /\ Shape(proc[p]) /\ ~Saving(p)
  BY <1>1, AtStep
<1>3. /\ Moves(p, None)
      /\ last' \in Report \cup {None}
      /\ last' # None => /\ o = "ok" /\ last'.cmd \in {"init", "use"}
                         /\ last'.cmd = proc[p].cmd /\ last'.cred = proc[p].cred
                         /\ last'.at = proc[p].at /\ last'.name = proc[p].name
  BY <1>1, <1>2, Exits
<1>4. last' # None => /\ s \in {"keep", "kept", "gone"} /\ last'.cmd = "init"
                      /\ proc[p].cmd = "init" /\ proc[p].cred \in Credentials
  BY <1>2, <1>3 DEF Shape
<1>5. CreatedLast'
  <2> SUFFICES ASSUME last' # None PROVE last'.cred \in Credentials /\ Created(last)'
    BY DEF CreatedLast
  <2>1. UNCHANGED <<account, raced>>
    BY <1>2, <1>4 DEF Abandoned, At
  <2>2. Created(proc[p])
    BY <1>1, <1>2, <1>4 DEF AccountPart, CreatedProcs, Through
  <2> QED
    BY <1>3, <1>4, <2>1, <2>2 DEF Created
<1> QED
  BY <1>2, <1>3, <1>4, <1>5, OtherStep

(***************************************************************************)
(* The commands start.                                                      *)
(***************************************************************************)
LEMMA StartStep ==
    ASSUME HostInv, NEW p \in Process,
           AccountCommand(p) \/ LogoutCommand(p) \/ UserCommand(p) \/ LegacyCommand(p)
    PROVE  HostInv'
<1>1. /\ proc[p] = None /\ hosts \in Table /\ TypeOK /\ SessionPart
      /\ UNCHANGED <<hostVars, sessionVars, serverVars, last>>
  BY DEF HostInv, TypeOK, CanStart, AccountCommand, LogoutCommand, UserCommand, LegacyCommand
<1>2. \A n \in Name : hosts[n] \in Server \cup {None}
  BY <1>1 DEF Table
<1>3. \E x \in Proc : Moves(p, x) /\ Shape(x) /\ x.step \in {"call", "clear", "login", "nil"}
  <2>1. CASE AccountCommand(p)
    <3>1. PICK n \in Name, c \in Credentials, k \in {"init", "login"} :
              proc' = [proc EXCEPT ![p] = NewProc(k, None, hosts[n], "call", c, None)]
      BY <2>1 DEF AccountCommand
    <3>2. NewProc(k, None, hosts[n], "call", c, None) \in Proc
      BY <1>2 DEF NewProc, Proc, Command, Step
    <3>3. Shape(NewProc(k, None, hosts[n], "call", c, None))
      BY DEF NewProc, Shape
    <3> QED
      BY <3>1, <3>2, <3>3 DEF Moves, NewProc
  <2>2. CASE LogoutCommand(p)
    <3>1. NewProc("logout", None, None, "clear", None, None) \in Proc
      BY DEF NewProc, Proc, Command, Step
    <3>2. Shape(NewProc("logout", None, None, "clear", None, None))
      BY DEF NewProc, Shape
    <3> QED
      BY <2>2, <3>1, <3>2 DEF LogoutCommand, Moves, NewProc
  <2>3. CASE UserCommand(p)
    <3>1. PICK n \in Name :
              proc' = [proc EXCEPT ![p] = NewProc("user", None, hosts[n], "login", None, None)]
      BY <2>3 DEF UserCommand
    <3>2. NewProc("user", None, hosts[n], "login", None, None) \in Proc
      BY <1>2 DEF NewProc, Proc, Command, Step
    <3>3. Shape(NewProc("user", None, hosts[n], "login", None, None))
      BY DEF NewProc, Shape
    <3> QED
      BY <3>1, <3>2, <3>3 DEF Moves, NewProc
  <2>4. CASE LegacyCommand(p)
    <3>1. PICK n \in Name :
              proc' = [proc EXCEPT ![p] = NewProc("legacy", None, hosts[n], "nil", None, None)]
      BY <2>4 DEF LegacyCommand
    <3>2. NewProc("legacy", None, hosts[n], "nil", None, None) \in Proc
      BY <1>2 DEF NewProc, Proc, Command, Step
    <3>3. Shape(NewProc("legacy", None, hosts[n], "nil", None, None))
      BY DEF NewProc, Shape
    <3> QED
      BY <3>1, <3>2, <3>3 DEF Moves, NewProc
  <2> QED
    BY <2>1, <2>2, <2>3, <2>4
<1>4. ~Saving(p) /\ Abandoned(p) /\ raced' = raced
  BY <1>1 DEF Saving, At, Abandoned, serverVars
<1>5. /\ session' \in Credentials \cup {None, Torn} /\ user' \in Credentials \cup {None, Unclear}
      /\ SessionPart'
  BY <1>1 DEF TypeOK, SessionPart, sessionVars
<1>6. \A x : x.step \in {"call", "clear", "login", "nil"} => ~Through(x)
  BY DEF Through
<1> QED
  BY <1>1, <1>3, <1>4, <1>5, <1>6, OtherStep

(***************************************************************************)
(* The commands that do not change the table.                               *)
(***************************************************************************)
\* Steps after which a process goes on.
LEMMA GoOnStep ==
    ASSUME HostInv, NEW p \in Process, NEW s, NEW t,
           <<s, t>> \in {<<"call", "keep">>, <<"set", "keep">>, <<"keep", "kept">>, <<"open", "act">>},
           At(p, s), Goto(p, t),
           UNCHANGED <<hostVars, last>>, Abandoned(p), raced' = raced,
           session' \in Credentials \cup {None, Torn}, user' \in Credentials \cup {None, Unclear},
           SessionPart',
           proc[p].cmd = "init" =>
              \A x : x.at = proc[p].at /\ x.cred = proc[p].cred => Created(x)'
    PROVE  HostInv'
<1>1. TypeOK /\ Shapes
  BY DEF HostInv
<1>2. /\ s \in {"call", "set", "keep", "open"} /\ t \in {"keep", "kept", "act"}
      /\ t = "act" <=> s = "open"
  OBVIOUS
<1>3. /\ proc[p] # None /\ proc[p] \in Proc /\ proc[p].step = s /\ Shape(proc[p]) /\ ~Saving(p)
  BY <1>1, <1>2, AtStep
<1>4. PICK x \in Proc : /\ Moves(p, x) /\ x # None /\ x.step = t
                        /\ x.cmd = proc[p].cmd /\ x.cfg = proc[p].cfg
                        /\ x.at = proc[p].at /\ x.cred = proc[p].cred
                        /\ x.name = proc[p].name
  BY <1>1, <1>2, <1>3, GoesOn DEF Step
<1>5. Shape(x) /\ x.step \notin {"save", "write", "set"}
  BY <1>2, <1>3, <1>4 DEF Shape
<1>6. Through(x) => Created(x)'
  BY <1>4 DEF Through
<1> QED
  BY <1>3, <1>4, <1>5, <1>6, OtherStep

\* What a process has created, the next step of its own has.
LEMMA KeepsCreated ==
    ASSUME NEW p \in Process, UNCHANGED <<account, raced>>, Created(proc[p])
    PROVE  \A x : x.at = proc[p].at /\ x.cred = proc[p].cred => Created(x)'
  BY DEF Created

LEMMA SaveSessionStep ==
    ASSUME HostInv, NEW p \in Process, SaveSession(p)
    PROVE  HostInv'
<1>1. TypeOK /\ AccountPart /\ At(p, "keep") /\ UNCHANGED <<hostVars, serverVars>>
  BY DEF HostInv, SaveSession
<1>2. Abandoned(p) /\ raced' = raced /\ UNCHANGED <<account, raced>>
  BY <1>1 DEF Abandoned, serverVars
<1>3. CASE session' = Torn /\ Goto(p, "kept") /\ UNCHANGED <<user, last>>
  <2>1. SessionPart'
    BY <1>3, HostNoneAssumption DEF SessionPart
  <2>2. proc[p].cmd = "init" => Created(proc[p])
    BY <1>1 DEF AccountPart, CreatedProcs, Through, At
  <2>3. proc[p].cmd = "init" => \A x : x.at = proc[p].at /\ x.cred = proc[p].cred => Created(x)'
    BY <1>2, <2>2, KeepsCreated
  <2>4. session' \in Credentials \cup {None, Torn} /\ user' \in Credentials \cup {None, Unclear}
    BY <1>1, <1>3 DEF TypeOK
  <2> QED
    BY <1>1, <1>2, <1>3, <2>1, <2>3, <2>4, GoOnStep
<1>4. CASE user' = Unclear /\ Exit(p, "ok") /\ UNCHANGED session
  <2>1. SessionPart'
    BY <1>4 DEF SessionPart
  <2>2. session' \in Credentials \cup {None, Torn} /\ user' \in Credentials \cup {None, Unclear}
    BY <1>1, <1>4 DEF TypeOK
  <2> QED
    BY <1>1, <1>2, <1>4, <2>1, <2>2, EndStep
<1> QED
  BY <1>3, <1>4 DEF SaveSession

LEMMA WriteSessionStep ==
    ASSUME HostInv, NEW p \in Process, WriteSession(p) \/ WriteNothing(p)
    PROVE  HostInv'
<1>1. TypeOK /\ Shapes /\ UNCHANGED <<hostVars, serverVars>> /\ Exit(p, "ok")
  BY DEF HostInv, WriteSession, WriteNothing
<1>2. Abandoned(p) /\ raced' = raced
  BY <1>1 DEF Abandoned, serverVars
<1>3. PICK s \in {"kept", "gone"} : At(p, s)
  BY DEF WriteSession, WriteNothing
<1>4. proc[p].cred \in Credentials
  BY <1>1, <1>3, AtStep DEF Shape
<1>5. /\ session' \in Credentials \cup {None, Torn} /\ user' \in Credentials \cup {None, Unclear}
      /\ SessionPart'
  <2>1. CASE session' \in Overwrite(session, proc[p].cred) /\ user' = proc[p].cred
    BY <1>4, <2>1, HostNoneAssumption DEF Overwrite, SessionPart
  <2>2. CASE user' = Unclear /\ UNCHANGED session
    BY <1>1, <2>2 DEF TypeOK, SessionPart
  <2> QED
    BY <2>1, <2>2 DEF WriteSession, WriteNothing
<1> QED
  BY <1>1, <1>2, <1>3, <1>5, EndStep

\* The file is removed, and what has it open writes to no file.
LEMMA ClearSessionStep ==
    ASSUME HostInv, NEW p \in Process, ClearSession(p)
    PROVE  HostInv'
<1>1. /\ TypeOK /\ Shapes /\ FilePart /\ AccountPart /\ At(p, "clear")
      /\ UNCHANGED <<hostVars, serverVars>>
  BY DEF HostInv, ClearSession
<1>2. CASE user' = Unclear /\ Exit(p, "ok") /\ UNCHANGED session
  <2>1. Abandoned(p) /\ raced' = raced
    BY <1>1 DEF Abandoned, serverVars
  <2>2. /\ session' \in Credentials \cup {None, Torn} /\ user' \in Credentials \cup {None, Unclear}
        /\ SessionPart'
    BY <1>1, <1>2 DEF TypeOK, SessionPart
  <2> QED
    BY <1>1, <1>2, <2>1, <2>2, EndStep
<1>3. CASE /\ session' = Removed /\ user' = None
           /\ proc' = [q \in Process |->
                          IF q = p THEN None
                          ELSE IF At(q, "kept") THEN [proc[q] EXCEPT !.step = "gone"]
                          ELSE proc[q]]
           /\ last' = None
  <2>1. \A q \in Process : \/ proc'[q] = None \/ proc'[q] = proc[q]
                           \/ At(q, "kept") /\ proc'[q] = [proc[q] EXCEPT !.step = "gone"]
    BY <1>3
  <2>2. ASSUME NEW q \in Process, At(q, "kept"), proc'[q] = [proc[q] EXCEPT !.step = "gone"]
        PROVE  /\ proc'[q] \in Proc /\ proc'[q].step = "gone" /\ proc'[q].cmd = proc[q].cmd
               /\ proc'[q].cred = proc[q].cred /\ proc'[q].at = proc[q].at
               /\ Shape(proc'[q])
    <3>1. proc[q] \in Proc /\ Shape(proc[q]) /\ proc[q].step = "kept"
      BY <1>1, <2>2, AtStep
    <3>2. /\ proc'[q] \in Proc /\ proc'[q].step = "gone" /\ proc'[q].cmd = proc[q].cmd
          /\ proc'[q].cred = proc[q].cred /\ proc'[q].at = proc[q].at
      BY <2>2, <3>1 DEF Proc, Step
    <3> QED
      BY <3>1, <3>2 DEF Shape
  <2>3. Shapes'
    <3> SUFFICES ASSUME NEW q \in Process, proc'[q] # None PROVE Shape(proc'[q])
      BY DEF Shapes, Shape
    <3> QED
      BY <1>1, <2>1, <2>2 DEF Shapes
  <2>4. proc' \in [Process -> Proc \cup {None}]
    <3>1. \A q \in Process : proc'[q] \in Proc \cup {None}
      BY <1>1, <2>1, <2>2 DEF TypeOK
    <3> QED
      BY <1>3, <3>1
  <2>5. TypeOK'
    BY <1>1, <1>3, <2>4 DEF TypeOK, hostVars, serverVars, Removed
  <2>6. SessionPart'
    BY <1>3, HostNoneAssumption DEF SessionPart, Removed
  <2>7. FilePart'
    <3>1. \A q \in Process : Saving(q) \/ Saving(q)' => proc'[q] = proc[q]
      <4> SUFFICES ASSUME NEW q \in Process, Saving(q) \/ Saving(q)' PROVE proc'[q] = proc[q]
        OBVIOUS
      <4>1. q # p
        BY <1>1, <1>3 DEF Saving, At
      <4>2. ~(At(q, "kept") /\ proc'[q] = [proc[q] EXCEPT !.step = "gone"])
        BY <2>2 DEF Saving, At
      <4> QED
        BY <1>3, <2>1, <4>1, <4>2
    <3> QED
      BY <1>1, <1>3, <3>1, FileUntouched
  <2>8. AccountPart'
    <3>1. \A q \in Process : At(q, "set")' => proc'[q] = proc[q]
      BY <2>1, <2>2 DEF At
    <3>2. \A q \in Process : proc'[q] # None /\ Through(proc'[q]) => Created(proc'[q])
      <4> SUFFICES ASSUME NEW q \in Process, proc'[q] # None, Through(proc'[q])
                   PROVE  Created(proc'[q])
        OBVIOUS
      <4>1. CASE proc'[q] = proc[q]
        BY <1>1, <4>1 DEF AccountPart, CreatedProcs
      <4>2. CASE At(q, "kept") /\ proc'[q] = [proc[q] EXCEPT !.step = "gone"]
        <5>1. proc'[q].cmd = proc[q].cmd /\ proc'[q].cred = proc[q].cred /\ proc'[q].at = proc[q].at
          BY <2>2, <4>2
        <5>2. Created(proc[q])
          BY <1>1, <4>2, <5>1 DEF AccountPart, CreatedProcs, Through, At
        <5> QED
          BY <5>1, <5>2 DEF Created
      <4> QED
        BY <2>1, <4>1, <4>2
    <3>3. CreatedLast'
      BY <1>3 DEF CreatedLast
    <3> QED
      BY <1>1, <3>1, <3>2, <3>3, ServersUntouched
  <2> QED
    BY <2>3, <2>5, <2>6, <2>7, <2>8 DEF HostInv
<1> QED
  BY <1>2, <1>3 DEF ClearSession

\* The name is free and the record Set comes next; another creator makes it a race.
LEMMA CheckNameStep ==
    ASSUME HostInv, NEW p \in Process, CheckName(p)
    PROVE  HostInv'
<1>1. /\ TypeOK /\ Shapes /\ FilePart /\ SessionPart /\ AccountPart
      /\ At(p, "call") /\ proc[p].cmd = "init"
      /\ UNCHANGED <<hostVars, sessionVars, account, late>>
  BY DEF HostInv, CheckName
<1>2. /\ proc[p] # None /\ proc[p] \in Proc /\ proc[p].step = "call" /\ Shape(proc[p]) /\ ~Saving(p)
      /\ proc[p].at \in Server \cup {None}
  BY <1>1, AtStep
<1>3. PICK c \in Credentials : c = proc[p].cred
  BY <1>2 DEF Shape
<1>4. /\ session' \in Credentials \cup {None, Torn} /\ user' \in Credentials \cup {None, Unclear}
      /\ SessionPart' /\ Abandoned(p)
  BY <1>1 DEF TypeOK, SessionPart, sessionVars, Abandoned
<1>5. CASE proc[p].at = None /\ Goto(p, "keep") /\ UNCHANGED <<raced, last>>
  <2>1. \A x : x.at = proc[p].at /\ x.cred = proc[p].cred => Created(x)'
    BY <1>5 DEF Created
  <2> QED
    BY <1>1, <1>4, <1>5, <2>1, GoOnStep
<1>6. CASE Exit(p, "error") /\ UNCHANGED raced
  BY <1>1, <1>4, <1>6, EndStep
<1>7. CASE /\ proc[p].at # None /\ NameIsFree(proc[p].at, c.user)
           /\ raced' = IF Contended(p, proc[p].at, c.user)
                       THEN raced \cup {<<proc[p].at, c.user>>} ELSE raced
           /\ Goto(p, "set") /\ UNCHANGED last
  <2>1. PICK s \in Server : s = proc[p].at
    BY <1>2, <1>7
  <2>2. PICK x \in Proc : /\ Moves(p, x) /\ x # None /\ x.step = "set"
                          /\ x.cmd = proc[p].cmd /\ x.cfg = proc[p].cfg
                          /\ x.at = proc[p].at /\ x.cred = proc[p].cred
                          /\ x.name = proc[p].name
    BY <1>1, <1>2, <1>7, GoesOn DEF Step
  <2>3. Shape(x)
    BY <1>1, <1>3, <2>1, <2>2 DEF Shape
  <2>4. /\ proc' \in [Process -> Proc \cup {None}] /\ Shapes'
        /\ proc'[p] = x /\ \A q \in Process \ {p} : proc'[q] = proc[q]
    BY <1>1, <2>2, <2>3, Moved
  <2>5. c.user \in User /\ <<s, c.user>> \in Server \X User
    BY DEF Credentials
  <2>6. raced \subseteq raced' /\ raced' \subseteq Server \X User
    BY <1>1, <1>7, <2>1, <2>5 DEF TypeOK
  <2>7. TypeOK'
    BY <1>1, <1>7, <2>4, <2>6 DEF TypeOK, hostVars, sessionVars
  <2>8. FilePart'
    <3>1. \A q \in Process : Saving(q) \/ Saving(q)' => proc'[q] = proc[q]
      BY <1>2, <2>2, <2>4 DEF Saving, At
    <3> QED
      BY <1>1, <1>7, <3>1, FileUntouched
  <2>9. \A t, u : LateOn(t, u)' = LateOn(t, u)
    BY <1>1 DEF LateOn
  <2>10. \A t, u : Setting(t, u)' = IF t = s /\ u = c.user THEN Setting(t, u) \cup {p}
                                    ELSE Setting(t, u)
    BY <1>2, <1>3, <2>1, <2>2, <2>4 DEF Setting, At
  <2>11. ASSUME <<s, c.user>> \notin raced'
         PROVE  Setting(s, c.user) = {} /\ LateOn(s, c.user) = {} /\ account[s][c.user] = None
    <3>1. ~Contended(p, s, c.user) /\ account[s][c.user] = None
      BY <1>7, <2>1, <2>11 DEF NameIsFree
    <3>2. p \notin Setting(s, c.user)
      BY <1>2 DEF Setting, At
    <3> QED
      BY <3>1, <3>2 DEF Contended, Setting, LateOn
  <2>12. OneCreator'
    <3> SUFFICES ASSUME NEW t \in Server, NEW u \in User, <<t, u>> \notin raced'
                 PROVE  /\ \A q, r \in Setting(t, u)' : q = r
                        /\ \A a, b \in LateOn(t, u)' : a = b
                        /\ Setting(t, u)' = {} \/ LateOn(t, u)' = {}
                        /\ Setting(t, u)' # {} \/ LateOn(t, u)' # {} => account'[t][u] = None
      BY DEF OneCreator
    <3>1. CASE t = s /\ u = c.user
      <4>1. Setting(t, u)' = {p} /\ LateOn(t, u)' = {} /\ account'[t][u] = None
        BY <1>1, <2>9, <2>10, <2>11, <3>1
      <4> QED
        BY <4>1
    <3>2. CASE ~(t = s /\ u = c.user)
      <4>1. Setting(t, u)' = Setting(t, u) /\ LateOn(t, u)' = LateOn(t, u) /\ account' = account
        BY <1>1, <2>9, <2>10, <3>2
      <4>2. <<t, u>> \notin raced
        BY <2>6
      <4> QED
        BY <1>1, <4>1, <4>2 DEF AccountPart, OneCreator
    <3> QED
      BY <3>1, <3>2
  <2>13. CreatedProcs'
    <3> SUFFICES ASSUME NEW q \in Process, proc'[q] # None, Through(proc'[q])
                 PROVE  Created(proc[q])'
      BY DEF CreatedProcs, Through
    <3>1. q # p
      BY <2>2, <2>4 DEF Through
    <3>2. proc'[q] = proc[q] /\ Created(proc[q])
      BY <1>1, <2>4, <3>1 DEF AccountPart, CreatedProcs
    <3> QED
      BY <1>1, <2>6, <3>2 DEF Created
  <2>14. CreatedLast'
    BY <1>1, <1>7, <2>6 DEF AccountPart, CreatedLast, Created
  <2> QED
    BY <1>4, <2>4, <2>7, <2>8, <2>12, <2>13, <2>14 DEF HostInv, AccountPart
<1> QED
  BY <1>3, <1>5, <1>6, <1>7 DEF CheckName

\* The record is stored, over whatever is there.
LEMMA InitUserStep ==
    ASSUME HostInv, NEW p \in Process, InitUser(p)
    PROVE  HostInv'
<1>1. /\ TypeOK /\ Shapes /\ SessionPart /\ At(p, "set") /\ Goto(p, "keep")
      /\ account' = Stored(proc[p].at, proc[p].cred)
      /\ UNCHANGED <<hostVars, sessionVars, late, raced, last>>
  BY DEF HostInv, InitUser
<1>2. /\ session' \in Credentials \cup {None, Torn} /\ user' \in Credentials \cup {None, Unclear}
      /\ SessionPart' /\ Abandoned(p)
  BY <1>1 DEF TypeOK, SessionPart, sessionVars, Abandoned
<1>3. proc[p].step = "set" /\ Shape(proc[p])
  BY <1>1, AtStep
<1>4. PICK s \in Server, c \in Credentials : s = proc[p].at /\ c = proc[p].cred
  BY <1>3 DEF Shape
<1>5. account' = Stored(s, c)
  BY <1>1, <1>4
<1>6. account'[s][c.user] = c.password
  BY <1>1, <1>5, StoredAt
<1>7. \A x : x.at = proc[p].at /\ x.cred = proc[p].cred => Created(x)'
  BY <1>4, <1>6 DEF Created
<1> QED
  BY <1>1, <1>2, <1>7, GoOnStep

\* The session is taken up when it can be read.
LEMMA LoadSessionStep ==
    ASSUME HostInv, NEW p \in Process, LoadSession(p)
    PROVE  HostInv'
<1>1. /\ TypeOK /\ Shapes /\ SessionPart /\ At(p, "login")
      /\ UNCHANGED <<hostVars, sessionVars, serverVars>>
  BY DEF HostInv, LoadSession
<1>2. /\ session' \in Credentials \cup {None, Torn} /\ user' \in Credentials \cup {None, Unclear}
      /\ SessionPart' /\ Abandoned(p) /\ raced' = raced
  BY <1>1 DEF TypeOK, SessionPart, sessionVars, serverVars, Abandoned
<1>3. CASE session \in Credentials
  <2> DEFINE x == [proc[p] EXCEPT !.step = "open", !.cred = session]
  <2>1. proc[p] \in Proc /\ proc[p].step = "login" /\ Shape(proc[p]) /\ ~Saving(p)
    BY <1>1, AtStep
  <2>2. x \in Proc /\ x.step = "open" /\ x.cmd = proc[p].cmd /\ x.cred = session
    BY <1>3, <2>1 DEF Proc, Step
  <2>3. Moves(p, x) /\ last' = last
    BY <1>3 DEF LoadSession, Moves
  <2> HIDE DEF x
  <2>4. Shape(x) /\ ~Through(x)
    BY <1>3, <2>1, <2>2 DEF Shape, Through
  <2> QED
    BY <1>1, <1>2, <2>1, <2>2, <2>3, <2>4, OtherStep
<1>4. CASE Exit(p, "error")
  BY <1>1, <1>2, <1>4, EndStep
<1> QED
  BY <1>3, <1>4 DEF LoadSession

\* GetUser lets the process go on or ends it; a service call and a panic end it.
LEMMA GetUserStep ==
    ASSUME HostInv, NEW p \in Process, Login(p) \/ UseSession(p) \/ Act(p) \/ Panic(p)
    PROVE  HostInv'
<1>1. TypeOK /\ Shapes /\ SessionPart /\ UNCHANGED <<hostVars, sessionVars, serverVars>>
  BY DEF HostInv, Login, UseSession, Act, Panic
<1>2. /\ session' \in Credentials \cup {None, Torn} /\ user' \in Credentials \cup {None, Unclear}
      /\ SessionPart' /\ Abandoned(p) /\ raced' = raced
  BY <1>1 DEF TypeOK, SessionPart, sessionVars, serverVars, Abandoned
<1>3. CASE Login(p)
  <2>1. proc[p].cmd # "init" /\ At(p, "call")
    BY <1>3 DEF Login
  <2>2. CASE Goto(p, "keep") /\ UNCHANGED last
    BY <1>1, <1>2, <2>1, <2>2, GoOnStep
  <2>3. CASE Exit(p, "error")
    BY <1>1, <1>2, <2>1, <2>3, EndStep
  <2> QED
    BY <1>3, <2>2, <2>3 DEF Login
<1>4. CASE UseSession(p)
  <2>1. At(p, "open")
    BY <1>4 DEF UseSession
  <2>2. proc[p].cmd # "init"
    BY <1>1, <2>1, AtStep DEF Shape
  <2>3. CASE Goto(p, "act") /\ UNCHANGED last
    BY <1>1, <1>2, <2>1, <2>2, <2>3, GoOnStep
  <2>4. CASE Exit(p, "error")
    BY <1>1, <1>2, <2>1, <2>4, EndStep
  <2> QED
    BY <1>4, <2>3, <2>4 DEF UseSession
<1>5. CASE Act(p)
  <2>1. PICK o \in {"ok", "error"} : At(p, "act") /\ Exit(p, o)
    BY <1>5 DEF Act
  <2> QED
    BY <1>1, <1>2, <2>1, EndStep
<1>6. CASE Panic(p)
  <2>1. At(p, "nil") /\ Exit(p, "panic")
    BY <1>6 DEF Panic
  <2> QED
    BY <1>1, <1>2, <2>1, EndStep
<1> QED
  BY <1>3, <1>4, <1>5, <1>6

\* A call fails; a record Set may be done all the same, now or later.
LEMMA CallFailsStep ==
    ASSUME HostInv, NEW p \in Process, CallFails(p)
    PROVE  HostInv'
<1>1. /\ TypeOK /\ SessionPart /\ Abandoned(p) /\ Exit(p, "error")
      /\ UNCHANGED <<hostVars, sessionVars, raced>>
  BY DEF HostInv, CallFails
<1>2. PICK s \in {"call", "set", "open"} : At(p, s)
  BY DEF CallFails
<1>3. /\ session' \in Credentials \cup {None, Torn} /\ user' \in Credentials \cup {None, Unclear}
      /\ SessionPart'
  BY <1>1 DEF TypeOK, SessionPart, sessionVars
<1> QED
  BY <1>1, <1>2, <1>3, EndStep

\* A late record Set finds no account there, or it is a race.
LEMMA LateSetStep ==
    ASSUME HostInv, NEW i \in late, LateSet(i)
    PROVE  HostInv'
<1>1. /\ TypeOK /\ Shapes /\ FilePart /\ SessionPart /\ AccountPart
      /\ account' = Stored(i.at, i.cred) /\ late' = late \ {i}
      /\ UNCHANGED <<hostVars, sessionVars, raced, proc, last>>
  BY DEF HostInv, LateSet
<1>2. PICK s \in Server, c \in Credentials : s = i.at /\ c = i.cred
  BY <1>1 DEF TypeOK, RecordSet
<1>3. i \in LateOn(s, c.user) /\ c.user \in User
  BY <1>2 DEF LateOn, Credentials
<1>4. ASSUME <<s, c.user>> \notin raced
      PROVE  /\ \A j \in LateOn(s, c.user) : j = i
             /\ Setting(s, c.user) = {} /\ account[s][c.user] = None
  BY <1>1, <1>3, <1>4 DEF AccountPart, OneCreator
<1>5. account' = Stored(s, c)
  BY <1>1, <1>2
<1>6. /\ account' \in [Server -> [User -> Password \cup {None}]]
      /\ \A t \in Server, u \in User : t # s \/ u # c.user => account'[t][u] = account[t][u]
  BY <1>1, <1>5, StoredAt
<1>7. CreatedProcs' /\ CreatedLast'
  <2>1. \A q \in Process : proc'[q] = proc[q]
    BY <1>1
  <2> QED
    BY <1>1, <1>4, <1>5, <2>1, CreatedStay
<1>8. \A t, u : LateOn(t, u)' = LateOn(t, u) \ {i} /\ Setting(t, u)' = Setting(t, u)
  BY <1>1 DEF LateOn, Setting, At
<1>9. OneCreator'
  <2> SUFFICES ASSUME NEW t \in Server, NEW u \in User, <<t, u>> \notin raced
               PROVE  /\ \A q, r \in Setting(t, u)' : q = r
                      /\ \A a, b \in LateOn(t, u)' : a = b
                      /\ Setting(t, u)' = {} \/ LateOn(t, u)' = {}
                      /\ Setting(t, u)' # {} \/ LateOn(t, u)' # {} => account'[t][u] = None
    BY <1>1 DEF OneCreator
  <2>1. CASE t = s /\ u = c.user
    <3>1. Setting(t, u)' = {} /\ LateOn(t, u)' = {}
      BY <1>4, <1>8, <2>1
    <3> QED
      BY <3>1
  <2>2. CASE ~(t = s /\ u = c.user)
    BY <1>1, <1>6, <1>8, <2>2 DEF AccountPart, OneCreator
  <2> QED
    BY <2>1, <2>2
<1>10. TypeOK'
  BY <1>1, <1>6 DEF TypeOK, hostVars, sessionVars
<1>11. FilePart'
  BY <1>1, FileUntouched
<1>12. Shapes' /\ SessionPart'
  BY <1>1 DEF Shapes, Shape, SessionPart, sessionVars
<1> QED
  BY <1>7, <1>9, <1>10, <1>11, <1>12 DEF HostInv, AccountPart

(***************************************************************************)
(* The commands that change the table.                                      *)
(***************************************************************************)
\* What host add, rm and use make of a table that lists the names added so far.
LEMMA NewTable ==
    ASSUME NEW t \in Table, added \subseteq Name, Lists(t, added), NEW n \in Name
    PROVE  /\ \A s \in Server : /\ AddHost(t, n, s) \in Table
                                /\ Lists(AddHost(t, n, s), AddedBy("add", n))
           /\ RemoveHost(t, n) \in Table /\ Lists(RemoveHost(t, n), AddedBy("rm", n))
           /\ t[n] # None => /\ UseHost(t, n) \in Table
                             /\ Lists(UseHost(t, n), AddedBy("use", n))
                             /\ UseDone(UseHost(t, n), "use", n)
<1> USE DEF Table, Lists, AddedBy, AddHost, RemoveHost
<1>1. ASSUME NEW s \in Server
      PROVE  AddHost(t, n, s) \in Table /\ Lists(AddHost(t, n, s), AddedBy("add", n))
  BY HostNoneAssumption
<1>2. RemoveHost(t, n) \in Table /\ Lists(RemoveHost(t, n), AddedBy("rm", n))
  OBVIOUS
<1>3. ASSUME t[n] # None
      PROVE  /\ UseHost(t, n) \in Table
             /\ Lists(UseHost(t, n), AddedBy("use", n))
             /\ UseDone(UseHost(t, n), "use", n)
  <2> DEFINE a == AddHost(t, Default, t[n])
  <2>1. /\ a \in Table /\ a[Default] # None
        /\ \A m \in Name \ {Default} : a[m] = t[m]
    BY <1>3, DefaultAssumption
  <2> HIDE DEF a
  <2>2. /\ RemoveHost(a, n) \in Table /\ RemoveHost(a, n)[n] = None
        /\ \A m \in Name \ {n} : RemoveHost(a, n)[m] = a[m]
    BY <2>1
  <2>3. UseHost(t, n) = RemoveHost(a, n)
    BY DEF UseHost, a
  <2>4. \A m \in (added \cup {Default}) \ {n} : m \in Name => RemoveHost(a, n)[m] # None
    BY <2>1, <2>2
  <2> QED
    BY <2>1, <2>2, <2>3, <2>4, DefaultAssumption DEF UseDone
<1> QED
  BY <1>1, <1>2, <1>3

\* Host commands have nothing to do with the servers.
LEMMA ServersAside ==
    ASSUME TypeOK, Shapes, AccountPart, NEW p \in Process, NEW x \in Proc \cup {None},
           Moves(p, x), x # None => Shape(x) /\ x.step \in {"save", "write"},
           UNCHANGED serverVars,
           last' = last \/ (last' # None => last'.cmd # "init")
    PROVE  AccountPart'
<1>1. proc'[p] = x /\ \A q \in Process \ {p} : proc'[q] = proc[q]
  BY Moved
<1>2. \A q \in Process : At(q, "set")' => proc'[q] = proc[q]
  BY <1>1 DEF At
<1>3. \A q \in Process : proc'[q] # None /\ Through(proc'[q]) => Created(proc'[q])
  BY <1>1 DEF AccountPart, CreatedProcs, Through
<1>4. last' = last \/ CreatedLast'
  BY DEF CreatedLast
<1> QED
  BY <1>2, <1>3, <1>4, ServersUntouched

LEMMA HostCommandStep ==
    ASSUME HostInv, NEW p \in Process, HostCommand(p)
    PROVE  HostInv'
<1>1. /\ proc[p] = None /\ hosts \in Table
      /\ unsafe' = (unsafe \/ \E q \in Process : At(q, "save") \/ At(q, "write"))
      /\ UNCHANGED <<hosts, added, sessionVars, serverVars, last>>
  BY DEF HostInv, TypeOK, CanStart, HostCommand
<1>2. TypeOK /\ Shapes /\ FilePart /\ SessionPart /\ AccountPart
  BY DEF HostInv
<1>3. PICK n \in Name :
          \/ \E s \in Server : proc' = [proc EXCEPT ![p] =
                 NewProc("add", AddHost(hosts, n, s), None, "save", None, n)]
          \/ proc' = [proc EXCEPT ![p] =
                 NewProc("rm", RemoveHost(hosts, n), None, "save", None, n)]
          \/ /\ hosts[n] # None
             /\ proc' = [proc EXCEPT ![p] =
                    NewProc("use", UseHost(hosts, n), None, "save", None, n)]
  BY DEF HostCommand
<1>4. \E k \in {"add", "rm", "use"}, t \in Table :
          /\ Moves(p, NewProc(k, t, None, "save", None, n))
          /\ Lists(hosts, added) => Lists(t, AddedBy(k, n)) /\ UseDone(t, k, n)
  <2>1. \A s \in Server : AddHost(hosts, n, s) \in Table
    BY <1>1 DEF AddHost, Table
  <2>2. RemoveHost(hosts, n) \in Table /\ UseHost(hosts, n) \in Table
    BY <1>1, DefaultAssumption DEF AddHost, RemoveHost, UseHost, Table
  <2>3. CASE Lists(hosts, added)
    <3>1. added \subseteq Name
      BY <1>2 DEF TypeOK
    <3> QED
      BY <1>1, <1>3, <2>1, <2>2, <2>3, <3>1, NewTable DEF Moves, UseDone
  <2>4. CASE ~Lists(hosts, added)
    BY <1>3, <2>1, <2>2, <2>4 DEF Moves
  <2> QED
    BY <2>3, <2>4
<1>5. PICK k \in {"add", "rm", "use"}, t \in Table :
          /\ Moves(p, NewProc(k, t, None, "save", None, n))
          /\ Lists(hosts, added) => Lists(t, AddedBy(k, n)) /\ UseDone(t, k, n)
  BY <1>4
<1> DEFINE x == NewProc(k, t, None, "save", None, n)
<1>6. x \in Proc /\ Shape(x)
  BY DEF NewProc, Proc, Command, Step, Shape
<1>7. x.step = "save" /\ x.cmd = k /\ x.cfg = t /\ x.name = n
  BY DEF NewProc
<1> HIDE DEF x
<1>8. Moves(p, x)
  BY <1>5 DEF x
<1>9. /\ proc' \in [Process -> Proc \cup {None}] /\ proc'[p] = x
      /\ \A q \in Process \ {p} : proc'[q] = proc[q]
      /\ Shapes'
  BY <1>2, <1>6, <1>8, Moved
<1>10. TypeOK' /\ SessionPart'
  BY <1>1, <1>2, <1>9 DEF TypeOK, SessionPart, sessionVars, serverVars
<1>11. AccountPart'
  BY <1>1, <1>2, <1>6, <1>7, <1>8, ServersAside
<1>12. ASSUME ~unsafe' PROVE OneSaving' /\ SavesDone' /\ FileDone'
  <2>1. ~unsafe /\ \A q \in Process : ~At(q, "save") /\ ~At(q, "write")
    BY <1>1, <1>12
  <2>2. FileDone /\ Lists(hosts, added)
    BY <1>2, <2>1 DEF FilePart, FileDone
  <2>3. \A q \in Process \ {p} : ~Saving(q)'
    BY <1>9, <2>1 DEF Saving, At
  <2>4. OneSaving'
    BY <2>3 DEF OneSaving
  <2>5. SavesDone'
    <3>1. Lists(t, AddedBy(k, n)') /\ UseDone(t, k, n)
      BY <1>1, <1>5, <2>2 DEF AddedBy
    <3>2. (/\ Lists(proc[p].cfg, AddedBy(proc[p].cmd, proc[p].name))
           /\ UseDone(proc[p].cfg, proc[p].cmd, proc[p].name))'
      BY <1>7, <1>9, <3>1 DEF Lists, UseDone
    <3> QED
      BY <2>3, <3>2 DEF SavesDone
  <2>6. FileDone'
    BY <1>1, <2>1, <2>2 DEF FileDone, Lists, UseDone
  <2> QED
    BY <2>4, <2>5, <2>6
<1> QED
  BY <1>9, <1>10, <1>11, <1>12 DEF HostInv, FilePart

\* The file is truncated, or cannot be opened.
LEMMA SaveHostsStep ==
    ASSUME HostInv, NEW p \in Process, SaveHosts(p)
    PROVE  HostInv'
<1>1. /\ At(p, "save") /\ UNCHANGED <<added, unsafe, sessionVars, serverVars>>
      /\ TypeOK /\ Shapes /\ FilePart /\ SessionPart /\ AccountPart
  BY DEF SaveHosts, HostInv
<1>2. proc[p] # None /\ proc[p] \in Proc /\ Shape(proc[p]) /\ Saving(p)
  BY <1>1, AtStep DEF Saving
<1>3. SessionPart'
  BY <1>1 DEF SessionPart, sessionVars
<1>4. CASE hosts' = Torn /\ Goto(p, "write") /\ UNCHANGED last
  <2>1. PICK x \in Proc : /\ Moves(p, x) /\ x # None /\ x.step = "write"
                          /\ x.cmd = proc[p].cmd /\ x.cfg = proc[p].cfg
                          /\ x.at = proc[p].at /\ x.cred = proc[p].cred
                          /\ x.name = proc[p].name
    BY <1>1, <1>2, <1>4, GoesOn DEF Step
  <2>2. Shape(x)
    BY <1>1, <1>2, <2>1 DEF Shape, At
  <2>3. /\ proc' \in [Process -> Proc \cup {None}] /\ proc'[p] = x
        /\ \A q \in Process \ {p} : proc'[q] = proc[q]
        /\ Shapes'
    BY <1>1, <2>1, <2>2, Moved
  <2>4. TypeOK'
    BY <1>1, <1>4, <2>3 DEF TypeOK, sessionVars, serverVars
  <2>5. AccountPart'
    BY <1>1, <1>4, <2>1, <2>2, ServersAside
  <2>6. \A q \in Process : Saving(q)' <=> Saving(q)
    BY <1>2, <2>1, <2>3 DEF Saving, At
  <2>7. OneSaving => OneSaving'
    BY <2>6 DEF OneSaving
  <2>8. ASSUME SavesDone PROVE SavesDone'
    <3>1. \A k, n : AddedBy(k, n)' = AddedBy(k, n)
      BY <1>1 DEF AddedBy
    <3> SUFFICES ASSUME NEW q \in Process, Saving(q)'
                 PROVE  (/\ Lists(proc[q].cfg, AddedBy(proc[q].cmd, proc[q].name))
                         /\ UseDone(proc[q].cfg, proc[q].cmd, proc[q].name))'
      BY DEF SavesDone
    <3>2. /\ Lists(proc[q].cfg, AddedBy(proc[q].cmd, proc[q].name))
          /\ UseDone(proc[q].cfg, proc[q].cmd, proc[q].name)
      BY <2>6, <2>8 DEF SavesDone
    <3>3. proc'[q].cfg = proc[q].cfg /\ proc'[q].cmd = proc[q].cmd /\ proc'[q].name = proc[q].name
      BY <2>1, <2>3
    <3> QED
      BY <3>1, <3>2, <3>3 DEF Lists, UseDone
  <2>9. FileDone'
    BY <2>1, <2>3 DEF FileDone, At
  <2> QED
    BY <1>1, <1>3, <2>3, <2>4, <2>5, <2>7, <2>8, <2>9 DEF HostInv, FilePart
<1>5. CASE Exit(p, "error") /\ UNCHANGED hosts
  <2>1. Moves(p, None) /\ last' = None
    BY <1>5 DEF Exit, Moves
  <2>2. /\ proc' \in [Process -> Proc \cup {None}] /\ proc'[p] = None
        /\ \A q \in Process \ {p} : proc'[q] = proc[q]
        /\ Shapes'
    BY <1>1, <2>1, Moved
  <2>3. TypeOK'
    BY <1>1, <1>5, <2>1, <2>2 DEF TypeOK, sessionVars, serverVars
  <2>4. AccountPart'
    BY <1>1, <2>1, ServersAside
  <2>5. \A q \in Process : Saving(q)' => Saving(q) /\ proc'[q] = proc[q]
    BY <2>2 DEF Saving, At
  <2>6. OneSaving => OneSaving'
    BY <2>5 DEF OneSaving
  <2>7. ASSUME SavesDone PROVE SavesDone'
    <3>1. \A k, n : AddedBy(k, n)' = AddedBy(k, n)
      BY <1>1 DEF AddedBy
    <3> SUFFICES ASSUME NEW q \in Process, Saving(q)'
                 PROVE  (/\ Lists(proc[q].cfg, AddedBy(proc[q].cmd, proc[q].name))
                         /\ UseDone(proc[q].cfg, proc[q].cmd, proc[q].name))'
      BY DEF SavesDone
    <3>2. /\ Lists(proc[q].cfg, AddedBy(proc[q].cmd, proc[q].name))
          /\ UseDone(proc[q].cfg, proc[q].cmd, proc[q].name)
          /\ proc'[q] = proc[q]
      BY <2>5, <2>7 DEF SavesDone
    <3> QED
      BY <3>1, <3>2 DEF Lists, UseDone
  <2>8. FileDone => FileDone'
    <3>1. (\A q \in Process : ~At(q, "write")') => \A q \in Process : ~At(q, "write")
      BY <1>1, <2>2 DEF At
    <3> QED
      BY <1>1, <1>5, <2>1, <3>1 DEF FileDone, Lists
  <2> QED
    BY <1>1, <1>3, <2>2, <2>3, <2>4, <2>6, <2>7, <2>8 DEF HostInv, FilePart
<1> QED
  BY <1>4, <1>5 DEF SaveHosts

\* The table is written.  Nobody else is saving one unless the history says so.
LEMMA WriteHostsStep ==
    ASSUME HostInv, NEW p \in Process, WriteHosts(p)
    PROVE  HostInv'
<1>1. /\ At(p, "write") /\ UNCHANGED <<sessionVars, serverVars>>
      /\ TypeOK /\ Shapes /\ FilePart /\ SessionPart /\ AccountPart
  BY DEF WriteHosts, HostInv
<1>2. proc[p] # None /\ proc[p] \in Proc /\ Shape(proc[p]) /\ Saving(p) /\ proc[p].step = "write"
  BY <1>1, AtStep DEF Saving
<1>3. /\ proc[p].cfg \in Table /\ proc[p].name \in Name /\ proc[p].cmd \in {"add", "rm", "use"}
  BY <1>2 DEF Shape
<1>4. PICK o : Exit(p, o)
  BY DEF WriteHosts
<1>5. /\ Moves(p, None)
      /\ last' \in Report \cup {None}
      /\ last' # None => last'.cmd = proc[p].cmd /\ last'.name = proc[p].name
  BY <1>1, <1>2, <1>4, Exits
<1>6. /\ proc' \in [Process -> Proc \cup {None}] /\ proc'[p] = None
      /\ \A q \in Process \ {p} : proc'[q] = proc[q]
      /\ Shapes'
  BY <1>1, <1>5, Moved
<1>7. SessionPart'
  BY <1>1 DEF SessionPart, sessionVars
<1>8. AccountPart'
  BY <1>1, <1>3, <1>5, ServersAside
<1>9. CASE /\ hosts' \in Overwrite(hosts, proc[p].cfg)
           /\ unsafe' = (unsafe \/ hosts' = Torn)
           /\ added' = IF unsafe' THEN {} ELSE AddedBy(proc[p].cmd, proc[p].name)
  <2>1. hosts' = Torn \/ hosts' = proc[p].cfg
    BY <1>9 DEF Overwrite
  <2>2. added' \subseteq Name
    BY <1>1, <1>3, <1>9, DefaultAssumption DEF AddedBy, TypeOK
  <2>3. unsafe' \in BOOLEAN
    BY <1>9
  <2>4. TypeOK'
    BY <1>1, <1>3, <1>5, <1>6, <2>1, <2>2, <2>3 DEF TypeOK, sessionVars, serverVars
  <2>5. ASSUME ~unsafe' PROVE OneSaving' /\ SavesDone' /\ FileDone'
    <3>1. hosts' = proc[p].cfg /\ hosts' # Torn /\ ~unsafe
      BY <1>9, <2>1, <2>5
    <3>2. \A q \in Process : ~Saving(q)'
      BY <1>1, <1>2, <1>6, <3>1 DEF FilePart, OneSaving, Saving, At
    <3>3. Lists(hosts', added') /\ UseDone(hosts', proc[p].cmd, proc[p].name)
      BY <1>1, <1>2, <1>9, <2>5, <3>1 DEF FilePart, SavesDone
    <3>4. last' # None => UseDone(hosts', last'.cmd, last'.name)
      BY <1>5, <3>3 DEF UseDone
    <3>5. FileDone'
      BY <3>1, <3>3, <3>4 DEF FileDone, Lists, UseDone
    <3> QED
      BY <3>2, <3>5 DEF OneSaving, SavesDone
  <2> QED
    BY <1>6, <1>7, <1>8, <2>4, <2>5 DEF HostInv, FilePart
<1>10. CASE unsafe' = TRUE /\ added' = {} /\ UNCHANGED hosts
  <2>1. TypeOK'
    BY <1>1, <1>5, <1>6, <1>10 DEF TypeOK, sessionVars, serverVars
  <2> QED
    BY <1>6, <1>7, <1>8, <1>10, <2>1 DEF HostInv, FilePart
<1> QED
  BY <1>9, <1>10 DEF WriteHosts

\* A process dies; in the middle of a write of .hosts that counts as unsafe.
LEMMA CrashStep ==
    ASSUME HostInv, NEW p \in Process, Crash(p)
    PROVE  HostInv'
<1>1. /\ Moves(p, None) /\ unsafe' = (unsafe \/ At(p, "write"))
      /\ UNCHANGED <<hosts, added, sessionVars, raced, last>> /\ Abandoned(p)
      /\ TypeOK /\ Shapes /\ FilePart /\ SessionPart /\ AccountPart
  BY DEF Crash, Moves, HostInv
<1>2. /\ proc' \in [Process -> Proc \cup {None}] /\ proc'[p] = None
      /\ \A q \in Process \ {p} : proc'[q] = proc[q]
      /\ Shapes'
  BY <1>1, Moved
<1>3. unsafe' \in BOOLEAN
  BY <1>1
<1>4. /\ AccountPart'
      /\ account' \in [Server -> [User -> Password \cup {None}]]
      /\ late' \subseteq RecordSet
  BY <1>1, SetEnds
<1>5. TypeOK' /\ SessionPart'
  BY <1>1, <1>2, <1>3, <1>4 DEF TypeOK, SessionPart, sessionVars
<1>6. ASSUME ~unsafe' PROVE OneSaving' /\ SavesDone' /\ FileDone'
  <2>1. ~unsafe /\ ~At(p, "write")
    BY <1>1, <1>6
  <2>2. OneSaving /\ SavesDone /\ FileDone
    BY <1>1, <2>1 DEF FilePart
  <2>3. \A q \in Process : Saving(q)' => Saving(q) /\ proc'[q] = proc[q]
    BY <1>2 DEF Saving, At
  <2>4. OneSaving'
    BY <2>2, <2>3 DEF OneSaving
  <2>5. SavesDone'
    <3>1. \A k, n : AddedBy(k, n)' = AddedBy(k, n)
      BY <1>1 DEF AddedBy
    <3> SUFFICES ASSUME NEW q \in Process, Saving(q)'
                 PROVE  (/\ Lists(proc[q].cfg, AddedBy(proc[q].cmd, proc[q].name))
                         /\ UseDone(proc[q].cfg, proc[q].cmd, proc[q].name))'
      BY DEF SavesDone
    <3>2. /\ Lists(proc[q].cfg, AddedBy(proc[q].cmd, proc[q].name))
          /\ UseDone(proc[q].cfg, proc[q].cmd, proc[q].name)
          /\ proc'[q] = proc[q]
      BY <2>2, <2>3 DEF SavesDone
    <3> QED
      BY <3>1, <3>2 DEF Lists, UseDone
  <2>6. FileDone'
    <3>1. (\A q \in Process : ~At(q, "write")') => \A q \in Process : ~At(q, "write")
      BY <1>2, <2>1 DEF At
    <3> QED
      BY <1>1, <2>2, <3>1 DEF FileDone, Lists, UseDone
  <2> QED
    BY <2>4, <2>5, <2>6
<1> QED
  BY <1>2, <1>4, <1>5, <1>6 DEF HostInv, FilePart

\* Every step keeps the invariant, one action after the other.
LEMMA HostStep == HostInv /\ [Next]_vars => HostInv'
<1> SUFFICES ASSUME HostInv, [Next]_vars PROVE HostInv'
  OBVIOUS
<1>1. CASE UNCHANGED vars
  <2>1. UNCHANGED <<hosts, session, account, late, proc, added, unsafe, user, raced, last>>
    BY <1>1 DEF vars, hostVars, sessionVars, serverVars
  <2>2. TypeOK' /\ Shapes' /\ SessionPart'
    BY <2>1 DEF HostInv, TypeOK, Shapes, Shape, SessionPart
  <2>3. FilePart'
    BY <2>1, FileUntouched DEF HostInv, hostVars
  <2>4. AccountPart'
    BY <2>1 DEF HostInv, AccountPart, OneCreator, Setting, LateOn, At, CreatedProcs,
       CreatedLast, Created, Through
  <2> QED
    BY <2>2, <2>3, <2>4 DEF HostInv
<1>2. ASSUME NEW p \in Process,
             HostCommand(p) \/ SaveHosts(p) \/ WriteHosts(p) \/ Crash(p)
      PROVE  HostInv'
  BY <1>2, HostCommandStep, SaveHostsStep, WriteHostsStep, CrashStep
<1>3. ASSUME NEW p \in Process,
             \/ AccountCommand(p) \/ LogoutCommand(p) \/ UserCommand(p) \/ LegacyCommand(p)
             \/ SaveSession(p) \/ WriteSession(p) \/ WriteNothing(p) \/ ClearSession(p)
      PROVE  HostInv'
  BY <1>3, StartStep, SaveSessionStep, WriteSessionStep, ClearSessionStep
<1>4. ASSUME NEW p \in Process,
             \/ CheckName(p) \/ InitUser(p) \/ Login(p) \/ LoadSession(p)
             \/ UseSession(p) \/ Act(p) \/ Panic(p) \/ CallFails(p)
      PROVE  HostInv'
  BY <1>4, CheckNameStep, InitUserStep, LoadSessionStep, GetUserStep, CallFailsStep
<1>5. ASSUME NEW i \in late, LateSet(i) PROVE HostInv'
  BY <1>5, LateSetStep
<1> QED
  BY <1>1, <1>2, <1>3, <1>4, <1>5 DEF Next

\* The inductive invariant holds always.
LEMMA HostInvariant == Spec => []HostInv
  BY InitHosts, HostStep, PTL DEF Spec

(***************************************************************************)
(* What follows.                                                            *)
(***************************************************************************)
\* Type correctness of the two files, the servers and the processes.
THEOREM HostTypes == Spec => []TypeOK
<1>1. HostInv => TypeOK
  BY DEF HostInv
<1> QED
  BY <1>1, HostInvariant, PTL

\* A host that was added is in a table that can be read, whatever the commands that
\* write .session do and whenever processes die, unless a write of .hosts was cut
\* short or two host commands overlapped.
THEOREM HostsStayListed == Spec => []AddedHostsListed
<1>1. HostInv => AddedHostsListed
  <2> SUFFICES ASSUME HostInv, Quiet, ~unsafe
               PROVE  hosts # Torn /\ \A n \in added : hosts[n] # None
    BY DEF AddedHostsListed
  <2>1. \A p \in Process : ~At(p, "write")
    BY DEF Quiet, At
  <2> QED
    BY <2>1 DEF HostInv, FilePart, FileDone, Lists
<1> QED
  BY <1>1, HostInvariant, PTL

\* A step that takes a process from "login" to "open" took up the session.
LEMMA OnlyLoadSession ==
    ASSUME HostInv, Next, NEW p \in Process, At(p, "login"), At(p, "open")'
    PROVE  LoadSession(p)
<1>1. /\ TypeOK /\ proc \in [Process -> Proc \cup {None}] /\ proc[p] # None
      /\ proc[p].step = "login" /\ proc[p] \in Proc
      /\ proc'[p] # None /\ proc'[p].step = "open"
  BY DEF HostInv, TypeOK, At
<1>2. ASSUME NEW q \in Process, NEW x, proc' = [proc EXCEPT ![q] = x],
             x = None \/ proc[q] = None \/ x.step # "open"
      PROVE  FALSE
  BY <1>1, <1>2
<1>3. ASSUME NEW q \in Process, NEW s, s # "open", Goto(q, s) PROVE FALSE
  BY <1>1, <1>3 DEF Goto, Proc
<1>4. ASSUME NEW q \in Process, proc[q].step # "login", Goto(q, "open") PROVE FALSE
  BY <1>1, <1>4 DEF Goto
<1>5. ASSUME NEW q \in Process, NEW o, Exit(q, o) PROVE FALSE
  BY <1>2, <1>5 DEF Exit
<1>6. ASSUME NEW q \in Process,
             HostCommand(q) \/ AccountCommand(q) \/ LogoutCommand(q) \/ UserCommand(q) \/ LegacyCommand(q)
      PROVE  FALSE
  <2>1. proc[q] = None /\ \E x : proc' = [proc EXCEPT ![q] = x]
    BY <1>6 DEF CanStart, HostCommand, AccountCommand, LogoutCommand, UserCommand, LegacyCommand
  <2> QED
    BY <1>2, <2>1
<1>7. ASSUME NEW q \in Process, SaveHosts(q) \/ WriteHosts(q) \/ SaveSession(q) \/ WriteSession(q) \/ WriteNothing(q)
      PROVE  FALSE
  BY <1>3, <1>5, <1>7 DEF SaveHosts, WriteHosts, SaveSession, WriteSession, WriteNothing
<1>8. ASSUME NEW q \in Process, ClearSession(q) PROVE FALSE
  <2>1. CASE proc' = [r \in Process |->
                        IF r = q THEN None
                        ELSE IF At(r, "kept") THEN [proc[r] EXCEPT !.step = "gone"]
                        ELSE proc[r]]
    BY <1>1, <2>1 DEF At
  <2>2. CASE Exit(q, "ok")
    BY <1>5, <2>2
  <2> QED
    BY <1>8, <2>1, <2>2 DEF ClearSession
<1>9. ASSUME NEW q \in Process, CheckName(q) \/ InitUser(q) \/ Login(q) \/ UseSession(q) \/ Act(q) \/ Panic(q) \/ CallFails(q)
      PROVE  FALSE
  BY <1>3, <1>5, <1>9 DEF CheckName, InitUser, Login, UseSession, Act, Panic, CallFails
<1>10. ASSUME NEW q \in Process, Crash(q) PROVE FALSE
  BY <1>2, <1>10 DEF Crash
<1>11. ASSUME NEW i \in late, LateSet(i) PROVE FALSE
  BY <1>1, <1>11 DEF LateSet
<1>12. PICK q \in Process : LoadSession(q)
  BY <1>6, <1>7, <1>8, <1>9, <1>10, <1>11 DEF Next
<1>13. q = p
  <2>1. CASE proc' = [proc EXCEPT ![q].step = "open", ![q].cred = session]
    BY <1>1, <2>1
  <2>2. CASE Exit(q, "error")
    BY <1>5, <2>2
  <2> QED
    BY <1>12, <2>1, <2>2 DEF LoadSession
<1> QED
  BY <1>12, <1>13

\* A file command acts as the user who logged in last, whatever init, login and logout
\* have done to .session at the same time, unless the last of them printed ok without
\* having changed the file.
THEOREM CommandsActAsLastLogin == Spec => ActsAsLastLogin
<1>1. ASSUME HostInv, [Next]_vars
      PROVE  [\A p \in Process : At(p, "login") /\ At(p, "open")' /\ user # Unclear =>
                  proc'[p].cred = user]_vars
  <2>1. ASSUME Next, NEW p \in Process, At(p, "login"), At(p, "open")', user # Unclear
        PROVE  proc'[p].cred = user
    <3>1. LoadSession(p)
      BY <1>1, <2>1, OnlyLoadSession
    <3>2. proc[p] \in Proc /\ proc \in [Process -> Proc \cup {None}]
      BY <1>1, <2>1 DEF HostInv, TypeOK, At
    <3>3. CASE session \in Credentials /\ proc' = [proc EXCEPT ![p].step = "open", ![p].cred = session]
      <4>1. session = user
        BY <1>1, <2>1, <3>3 DEF HostInv, SessionPart
      <4>2. proc'[p].cred = session
        BY <3>2, <3>3 DEF Proc
      <4> QED
        BY <4>1, <4>2
    <3>4. CASE Exit(p, "error")
      BY <2>1, <3>2, <3>4 DEF Exit, At
    <3> QED
      BY <3>1, <3>3, <3>4 DEF LoadSession
  <2>2. UNCHANGED vars \/ Next
    BY <1>1
  <2> QED
    BY <2>1, <2>2
<1> QED
  BY <1>1, HostInvariant, PTL DEF Spec, ActsAsLastLogin

\* What printed ok was done: `host use', and an init no other could race with.
THEOREM ReportsAreTrue == Spec => []OkMeansDone
<1>1. HostInv => OkMeansDone
  <2> SUFFICES ASSUME HostInv, last # None
               PROVE  /\ last.cmd = "use" /\ last.name # Default /\ Quiet /\ ~unsafe =>
                            hosts[Default] # None /\ hosts[last.name] = None
                      /\ last.cmd = "init" /\ last.at # None /\ <<last.at, last.cred.user>> \notin raced =>
                            account[last.at][last.cred.user] = last.cred.password
    BY DEF OkMeansDone
  <2>1. Quiet => \A p \in Process : ~At(p, "write")
    BY DEF Quiet, At
  <2> QED
    BY <2>1 DEF HostInv, FilePart, FileDone, UseDone, AccountPart, CreatedLast, Created
<1> QED
  BY <1>1, HostInvariant, PTL
=============================================================================
