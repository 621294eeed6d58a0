---------------------------- MODULE RemoteStore ----------------------------
(***************************************************************************)
(* The storage protocol: remote.Get, Set and Delete on the client, handler  *)
(* and Badger store on the server, with broken connections and crashes.     *)
(*                                                                          *)
(* Every call dials a connection of its own, writes one request, waits for  *)
(* the reply without a deadline and closes the connection; nothing is ever  *)
(* retried.  The server runs one handler per connection, so a handler can   *)
(* outlive the call it serves: what the client wrote before it gave up is   *)
(* still in the handler's socket.                                           *)
(*                                                                          *)
(* Each connection is used by one call and stands for it.  Clients have a   *)
(* host configured (`address' is not empty).  A dial that fails returns an  *)
(* error and changes nothing.  The kernel completes a connection and queues *)
(* it; the server accepts in order while it has file descriptors left, and  *)
(* while it has none Run's loop logs the error of Accept and tries again.   *)
(***************************************************************************)
EXTENDS Integers, FiniteSets

CONSTANTS Client,    \* client processes; each makes one call at a time
          Key, Value,
          None,      \* an absent value; nothing yet
          MaxCalls,  \* bound: how many calls are made
          MaxOpen    \* bound: the largest limit on open connections

ASSUME CallsAssumption == MaxCalls \in Nat
ASSUME OpenAssumption == MaxOpen \in Nat \ {0}

Call == 1 .. MaxCalls

VARIABLES
    db,       \* the Badger store; it survives a crash of the server
    current,  \* the call each client is in, None between calls
    req,      \* the request each connection was dialled for
    sent,     \* how much of it was written: "nothing", op and "key", or "all"
    up,       \* the connection carries data both ways
    client,   \* the client's end: "writing", "waiting", "closed"
    server,   \* the handler: "queued" before there is one, then "reading", "dispatched",
              \* "executed", "listening", "closed"
    outcome,  \* what executing the request gave
    reply,    \* the reply once it is written
    answer,   \* what the call returned
    dialled,  \* how many connections were dialled
    limit     \* how many accepted connections the server process can have open

vars == <<db, current, req, sent, up, client, server, outcome, reply, answer, dialled, limit>>

\* The calls of remote.Get, remote.Set and remote.Delete.
GetRequest(k) == [kind |-> "get", key |-> k, value |-> None]
SetRequest(k, v) == [kind |-> "set", key |-> k, value |-> v]
DeleteRequest(k) == [kind |-> "delete", key |-> k, value |-> None]
Request == {GetRequest(k) : k \in Key} \cup {SetRequest(k, v) : k \in Key, v \in Value}
           \cup {DeleteRequest(k) : k \in Key}
Reply == [status : {"ok", "notfound", "error"}, value : Value \cup {None}]
Error == [status |-> "error", value |-> None]

ASSUME StoreNoneAssumption ==
    None \notin Value /\ None \notin Request /\ None \notin Reply /\ None \notin Call

Init ==
    /\ db = [k \in Key |-> None]
    /\ current = [c \in Client |-> None]
    /\ req = [n \in Call |-> None]
    /\ sent = [n \in Call |-> "nothing"]
    /\ up = [n \in Call |-> FALSE]
    /\ client = [n \in Call |-> "closed"]
    /\ server = [n \in Call |-> "closed"]
    /\ outcome = [n \in Call |-> None]
    /\ reply = [n \in Call |-> None]
    /\ answer = [n \in Call |-> None]
    /\ dialled = 0
    /\ limit \in 1 .. MaxOpen

(***************************************************************************)
(* The client: remote.Get, remote.Set, remote.Delete.                       *)
(***************************************************************************)
Dial(c, r) ==
    LET n == dialled + 1
    IN  /\ current[c] = None
        /\ n \in Call
        /\ current' = [current EXCEPT ![c] = n]
        /\ req' = [req EXCEPT ![n] = r]
        /\ up' = [up EXCEPT ![n] = TRUE]
        /\ client' = [client EXCEPT ![n] = "writing"]
        /\ server' = [server EXCEPT ![n] = "queued"]
        /\ dialled' = n
        /\ UNCHANGED <<db, sent, outcome, reply, answer, limit>>

\* writeOperation: op and key, and for a Set the value after them.
WriteOperation(n) ==
    /\ client[n] = "writing" /\ up[n]
    /\ LET last == IF req[n].kind = "set" THEN "all" ELSE "key"
           now == IF sent[n] = "nothing" THEN "key" ELSE "all"
       IN  /\ sent' = [sent EXCEPT ![n] = now]
           /\ client' = [client EXCEPT ![n] = IF now = last THEN "waiting" ELSE "writing"]
    /\ UNCHANGED <<db, current, req, up, server, outcome, reply, answer, dialled, limit>>

\* The call returns a; the deferred conn.Close runs.
Return(c, a) ==
    /\ answer' = [answer EXCEPT ![current[c]] = a]
    /\ client' = [client EXCEPT ![current[c]] = "closed"]
    /\ current' = [current EXCEPT ![c] = None]
    /\ UNCHANGED <<db, req, sent, up, server, outcome, reply, dialled, limit>>

ReadReply(c) ==
    /\ current[c] # None
    /\ client[current[c]] = "waiting"
    /\ reply[current[c]] # None
    /\ Return(c, reply[current[c]])

\* A write or the read of the reply fails: the connection broke, or the server
\* closed it without a reply.
CallFails(c) ==
    /\ current[c] # None
    /\ ~up[current[c]] \/ server[current[c]] = "closed"
    /\ Return(c, Error)

\* The process is killed in the middle of a call; nobody gets an answer.
ClientCrash(c) ==
    /\ current[c] # None
    /\ Return(c, Error)

(***************************************************************************)
(* The server: handleConn, Handle and the three handlers.                   *)
(***************************************************************************)
Accepted == {n \in Call : server[n] \notin {"queued", "closed"}}

\* Run accepts the oldest connection and starts its handler.  With no descriptor
\* left Accept fails and the loop goes round: nothing changes.
Accept(n) ==
    /\ server[n] = "queued"
    /\ \A m \in Call : server[m] = "queued" => n <= m
    /\ Cardinality(Accepted) < limit
    /\ server' = [server EXCEPT ![n] = "reading"]
    /\ UNCHANGED <<db, current, req, sent, up, client, outcome, reply, answer, dialled, limit>>

\* Handle has read op and key and dispatches.
Handle(n) ==
    /\ server[n] = "reading"
    /\ sent[n] # "nothing"
    /\ server' = [server EXCEPT ![n] = "dispatched"]
    /\ UNCHANGED <<db, current, req, sent, up, client, outcome, reply, answer, dialled, limit>>

\* The handler has all it needs: handleSet reads the value first.
Complete(n) == server[n] = "dispatched" /\ (req[n].kind = "set" => sent[n] = "all")

\* The store's operations: one Badger transaction each.
StoreGet(k) == IF db[k] = None THEN [status |-> "notfound", value |-> None]
               ELSE [status |-> "ok", value |-> db[k]]
StoreSet(k, v) == db' = [db EXCEPT ![k] = v]
StoreDelete(k) == db' = [db EXCEPT ![k] = None]

\* The handler of connection n is done with its request.
Executed(n, result) ==
    /\ outcome' = [outcome EXCEPT ![n] = result]
    /\ server' = [server EXCEPT ![n] = "executed"]
    /\ UNCHANGED <<current, req, sent, up, client, reply, answer, dialled, limit>>

handleGet(n) ==
    /\ Complete(n) /\ req[n].kind = "get"
    /\ Executed(n, StoreGet(req[n].key))
    /\ UNCHANGED db

handleSet(n) ==
    /\ Complete(n) /\ req[n].kind = "set"
    /\ StoreSet(req[n].key, req[n].value)
    /\ Executed(n, [status |-> "ok", value |-> None])

handleDelete(n) ==
    /\ Complete(n) /\ req[n].kind = "delete"
    /\ StoreDelete(req[n].key)
    /\ Executed(n, [status |-> "ok", value |-> None])

\* Variants of StoreFails: the error is dropped and success is reported; the
\* error is a bare status without the message frame; nothing is written at all.
StoreFailsIgnored(n) ==
    Complete(n) /\ Executed(n, [status |-> "ok", value |-> None]) /\ UNCHANGED db
StoreFailsBareStatus(n) ==
    Complete(n) /\ Executed(n, [status |-> "error"]) /\ UNCHANGED db
StoreFailsSilently(n) ==
    /\ Complete(n)
    /\ server' = [server EXCEPT ![n] = "listening"]
    /\ UNCHANGED <<db, current, req, sent, up, client, outcome, reply, answer, dialled, limit>>

\* The transaction fails and the handler answers with writeError.
StoreFails(n) == Complete(n) /\ Executed(n, Error) /\ UNCHANGED db

\* The reply is written and handleConn waits for another request.  Over a broken
\* connection the write, or the next read, fails instead.
WriteReply(n) ==
    /\ server[n] = "executed"
    /\ up[n]
    /\ reply' = [reply EXCEPT ![n] = outcome[n]]
    /\ server' = [server EXCEPT ![n] = "listening"]
    /\ UNCHANGED <<db, current, req, sent, up, client, outcome, answer, dialled, limit>>

\* Nothing more will come from the client's end.
EndOfInput(n) == ~up[n] \/ client[n] = "closed"

\* Variant of HandleFails: handleConn goes on reading after an error.
HandleFailsContinues(n) ==
    /\ EndOfInput(n)
    /\ server[n] \in {"reading", "dispatched", "executed", "listening"}
    /\ server' = [server EXCEPT ![n] = "reading"]
    /\ UNCHANGED <<db, current, req, sent, up, client, outcome, reply, answer, dialled, limit>>

\* A read or a write fails: Handle returns an error, handleConn returns and the
\* deferred conn.Close runs.  What the client wrote whole before closing its end
\* is read before the end of input is.
HandleFails(n) ==
    /\ EndOfInput(n)
    /\ \/ server[n] \in {"executed", "listening"}
       \/ server[n] = "reading" /\ (~up[n] \/ sent[n] = "nothing")
       \/ server[n] = "dispatched" /\ req[n].kind = "set" /\ (~up[n] \/ sent[n] # "all")
    /\ server' = [server EXCEPT ![n] = "closed"]
    /\ UNCHANGED <<db, current, req, sent, up, client, outcome, reply, answer, dialled, limit>>

(***************************************************************************)
(* The network and the server process.                                      *)
(***************************************************************************)
LinkBreaks(n) ==
    /\ up[n]
    /\ client[n] # "closed" \/ server[n] # "closed"
    /\ up' = [up EXCEPT ![n] = FALSE]
    /\ UNCHANGED <<db, current, req, sent, client, server, outcome, reply, answer, dialled, limit>>

\* All handlers die with the process; the store is opened again at once.
ServerCrash ==
    /\ \E n \in Call : server[n] # "closed"
    /\ server' = [n \in Call |-> "closed"]
    /\ up' = [n \in Call |-> FALSE]
    /\ UNCHANGED <<db, current, req, sent, client, outcome, reply, answer, dialled, limit>>

ClientStep(c) == ReadReply(c) \/ CallFails(c)
ServerStep(n) ==
    \/ Handle(n)
    \/ handleGet(n) \/ handleSet(n) \/ handleDelete(n) \/ StoreFails(n)
    \/ WriteReply(n)
    \/ HandleFails(n)

Next ==
    \/ \E c \in Client : ClientStep(c) \/ ClientCrash(c) \/ \E r \in Request : Dial(c, r)
    \/ \E n \in Call : WriteOperation(n) \/ Accept(n) \/ ServerStep(n) \/ LinkBreaks(n)
    \/ ServerCrash

\* A client that can go on does; so do a handler and the accepting loop.  Breaks
\* and crashes need not happen, nor do calls.
Fairness ==
    /\ \A c \in Client : WF_vars(ClientStep(c))
    /\ \A n \in Call : WF_vars(WriteOperation(n)) /\ WF_vars(ServerStep(n))
    /\ WF_vars(\E n \in Call : Accept(n))

Spec == Init /\ [][Next]_vars
FairSpec == Spec /\ Fairness

(***************************************************************************)
(* Properties.                                                              *)
(***************************************************************************)
\* Type correctness of the store, the connections and both ends.
TypeOK ==
    /\ db \in [Key -> Value \cup {None}]
    /\ current \in [Client -> Call \cup {None}]
    /\ req \in [Call -> Request \cup {None}]
    /\ sent \in [Call -> {"nothing", "key", "all"}]
    /\ up \in [Call -> BOOLEAN]
    /\ client \in [Call -> {"writing", "waiting", "closed"}]
    /\ server \in [Call -> {"queued", "reading", "dispatched", "executed", "listening", "closed"}]
    /\ outcome \in [Call -> Reply \cup {None}]
    /\ reply \in [Call -> Reply \cup {None}]
    /\ answer \in [Call -> Reply \cup {None}]
    /\ dialled \in 0 .. MaxCalls
    /\ limit \in 1 .. MaxOpen

\* The protocol implements AtomicStore, the storage that the encryption services
\* are written against: a call takes effect once at most and in one step, what it
\* returns is the outcome of that step, and an effect that comes after the call
\* returned belongs to a call that returned an error.
Abstract == INSTANCE AtomicStore WITH
    data <- db,
    op <- req,
    effect <- [n \in Call |-> IF outcome[n] = Error THEN None ELSE outcome[n]]

ImplementsAtomicStore == Abstract!AbsSpec

\* Every call returns, although the client reads without a deadline and may wait
\* in the queue of a server that has no descriptor left: with the reply, or because
\* the connection breaks or is closed.
CallsReturn == \A n \in Call : (req[n] # None) ~> (answer[n] # None)

\* No handler outlives its connection for ever: handleConn ends after the client
\* closed, whatever state the request was in.
HandlersEnd == \A n \in Call : (answer[n] # None) ~> (server[n] = "closed")
=============================================================================
