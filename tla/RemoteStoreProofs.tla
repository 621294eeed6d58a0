-------------------------- MODULE RemoteStoreProofs --------------------------
(***************************************************************************)
(* Machine-checked proofs about RemoteStore, for every set of clients, keys *)
(* and values and any number of calls: the storage protocol, with its       *)
(* broken connections and crashes, implements AtomicStore.                  *)
(***************************************************************************)
EXTENDS RemoteStore, TLAPS

\* A connection has a request from the moment it is dialled; until then nothing
\* happens on it.
Undialled ==
    \A n \in Call :
        /\ req[n] = None <=> n > dialled
        /\ req[n] = None => /\ client[n] = "closed" /\ server[n] = "closed"
                            /\ outcome[n] = None /\ reply[n] = None /\ answer[n] = None

\* A client is in a call of its own, which has not returned.
InCall ==
    /\ \A c \in Client : current[c] # None =>
          req[current[c]] # None /\ answer[current[c]] = None
    /\ \A c, d \in Client : current[c] # None /\ current[c] = current[d] => c = d

\* A handler executes its request once, and a reply is what executing gave.
ExecutedOnce ==
    \A n \in Call :
        /\ server[n] \in {"queued", "reading", "dispatched"} => outcome[n] = None
        /\ reply[n] # None => reply[n] = outcome[n]

StoreInv == TypeOK /\ Undialled /\ InCall /\ ExecutedOnce

\* The fields of a request, by its kind.
LEMMA RequestShape ==
    ASSUME NEW r \in Request
    PROVE  /\ r.key \in Key /\ r.kind \in {"get", "set", "delete"}
           /\ r.kind = "set" => r.value \in Value
           /\ r.kind # "set" => r.value = None
           /\ r \in Abstract!Request
  BY DEF Request, GetRequest, SetRequest, DeleteRequest, Abstract!Request

\* No connection and no call at the start.
LEMMA InitStore == Init => StoreInv
<1> SUFFICES ASSUME Init PROVE StoreInv
  OBVIOUS
<1>1. TypeOK
  BY CallsAssumption DEF Init, TypeOK
<1>2. Undialled
  BY CallsAssumption DEF Init, Undialled, Call
<1>3. InCall /\ ExecutedOnce
  BY DEF Init, InCall, ExecutedOnce
<1> QED
  BY <1>1, <1>2, <1>3 DEF StoreInv

LEMMA DialStep ==
    ASSUME StoreInv, NEW c \in Client, NEW r \in Request, Dial(c, r)
    PROVE  StoreInv'
<1> DEFINE n == dialled + 1
<1>1. TypeOK /\ Undialled /\ InCall /\ ExecutedOnce
  BY DEF StoreInv
<1>2. /\ n \in Call /\ current[c] = None /\ dialled' = n
      /\ current' = [current EXCEPT ![c] = n] /\ req' = [req EXCEPT ![n] = r]
      /\ up' = [up EXCEPT ![n] = TRUE] /\ client' = [client EXCEPT ![n] = "writing"]
      /\ server' = [server EXCEPT ![n] = "queued"]
      /\ UNCHANGED <<db, sent, outcome, reply, answer, limit>>
  BY DEF Dial
<1>3. TypeOK'
  BY <1>1, <1>2, CallsAssumption DEF TypeOK, Call
<1>4. n > dialled /\ r # None
  BY <1>1, StoreNoneAssumption DEF TypeOK
<1>5. req[n] = None /\ outcome[n] = None /\ reply[n] = None /\ answer[n] = None
  BY <1>1, <1>2, <1>4 DEF Undialled
<1>6. Undialled'
  BY <1>1, <1>2, <1>4, <1>5, CallsAssumption DEF TypeOK, Undialled, Call
<1>7. \A d \in Client : current[d] # n
  BY <1>1, <1>2, <1>5, StoreNoneAssumption DEF InCall
<1>8. InCall'
  BY <1>1, <1>2, <1>4, <1>5, <1>7 DEF TypeOK, InCall
<1>9. ExecutedOnce'
  BY <1>1, <1>2, <1>5 DEF TypeOK, ExecutedOnce
<1> QED
  BY <1>3, <1>6, <1>8, <1>9 DEF StoreInv

LEMMA ReturnStep ==
    ASSUME StoreInv, NEW c \in Client, NEW a \in Reply, current[c] # None, Return(c, a)
    PROVE  StoreInv'
<1> DEFINE n == current[c]
<1>1. TypeOK /\ Undialled /\ InCall /\ ExecutedOnce
  BY DEF StoreInv
<1>2. /\ n \in Call /\ req[n] # None
      /\ answer' = [answer EXCEPT ![n] = a] /\ client' = [client EXCEPT ![n] = "closed"]
      /\ current' = [current EXCEPT ![c] = None]
      /\ UNCHANGED <<db, req, sent, up, server, outcome, reply, dialled, limit>>
  BY <1>1 DEF TypeOK, InCall, Return
<1>3. TypeOK'
  BY <1>1, <1>2 DEF TypeOK
<1>4. Undialled'
  BY <1>1, <1>2 DEF TypeOK, Undialled
<1>5. InCall'
  BY <1>1, <1>2 DEF TypeOK, InCall
<1>6. ExecutedOnce'
  BY <1>1, <1>2 DEF ExecutedOnce
<1> QED
  BY <1>3, <1>4, <1>5, <1>6 DEF StoreInv

\* What is returned is a reply.
LEMMA Returns ==
    ASSUME StoreInv, NEW c \in Client, ClientStep(c) \/ ClientCrash(c)
    PROVE  /\ current[c] # None /\ current[c] \in Call
           /\ \E a \in Reply : /\ a = Error \/ (a = reply[current[c]] /\ a # None)
                               /\ Return(c, a)
<1>1. Error \in Reply
  BY DEF Error, Reply
<1>2. current[c] # None /\ current[c] \in Call
  BY DEF StoreInv, TypeOK, ClientStep, ClientCrash, ReadReply, CallFails
<1>3. CASE ReadReply(c)
  <2>1. reply[current[c]] \in Reply /\ reply[current[c]] # None
    BY <1>2, <1>3 DEF ReadReply, StoreInv, TypeOK
  <2> QED
    BY <1>2, <1>3, <2>1 DEF ReadReply
<1>4. CASE CallFails(c) \/ ClientCrash(c)
  BY <1>1, <1>2, <1>4 DEF CallFails, ClientCrash
<1> QED
  BY <1>3, <1>4 DEF ClientStep

\* Steps that leave the store and the calls alone.
LEMMA QuietStep ==
    ASSUME StoreInv, NEW n \in Call,
           \/ WriteOperation(n) \/ Accept(n) \/ Handle(n) \/ HandleFails(n)
           \/ LinkBreaks(n) \/ ServerCrash
    PROVE  StoreInv' /\ UNCHANGED <<db, req, outcome, answer>>
<1>1. TypeOK /\ Undialled /\ InCall /\ ExecutedOnce
  BY DEF StoreInv
<1>2. UNCHANGED <<db, current, req, outcome, reply, answer, dialled, limit>>
  BY DEF WriteOperation, Accept, Handle, HandleFails, LinkBreaks, ServerCrash
<1>3. InCall'
  BY <1>1, <1>2 DEF InCall
<1>4. CASE WriteOperation(n)
  <2>1. /\ client[n] = "writing"
        /\ \E x \in {"key", "all"} : sent' = [sent EXCEPT ![n] = x]
        /\ \E x \in {"waiting", "writing"} : client' = [client EXCEPT ![n] = x]
        /\ UNCHANGED <<up, server>>
    BY <1>4 DEF WriteOperation
  <2>2. TypeOK'
    BY <1>1, <1>2, <2>1 DEF TypeOK
  <2>3. Undialled'
    BY <1>1, <1>2, <2>1 DEF TypeOK, Undialled
  <2>4. ExecutedOnce'
    BY <1>1, <1>2, <2>1 DEF ExecutedOnce
  <2> QED
    BY <1>2, <1>3, <2>2, <2>3, <2>4 DEF StoreInv
<1>5. CASE Accept(n) \/ Handle(n) \/ HandleFails(n)
  <2>1. /\ server[n] # "closed"
        /\ \/ server' = [server EXCEPT ![n] = "closed"]
           \/ /\ server[n] \in {"queued", "reading"}
              /\ \E x \in {"reading", "dispatched"} : server' = [server EXCEPT ![n] = x]
        /\ UNCHANGED <<up, client, sent>>
    BY <1>5 DEF Accept, Handle, HandleFails
  <2>2. TypeOK'
    BY <1>1, <1>2, <2>1 DEF TypeOK
  <2>3. Undialled'
    BY <1>1, <1>2, <2>1 DEF TypeOK, Undialled
  <2>4. ExecutedOnce'
    BY <1>1, <1>2, <2>1 DEF TypeOK, ExecutedOnce
  <2> QED
    BY <1>2, <1>3, <2>2, <2>3, <2>4 DEF StoreInv
<1>6. CASE LinkBreaks(n) \/ ServerCrash
  <2>1. /\ server' = server \/ server' = [m \in Call |-> "closed"]
        /\ up' \in [Call -> BOOLEAN] /\ UNCHANGED <<client, sent>>
    <3>1. up \in [Call -> BOOLEAN]
      BY <1>1 DEF TypeOK
    <3>2. CASE LinkBreaks(n)
      BY <3>1, <3>2 DEF LinkBreaks
    <3>3. CASE ServerCrash
      BY <3>3 DEF ServerCrash
    <3> QED
      BY <1>6, <3>2, <3>3
  <2>2. TypeOK'
    BY <1>1, <1>2, <2>1 DEF TypeOK
  <2>3. Undialled'
    BY <1>1, <1>2, <2>1 DEF TypeOK, Undialled
  <2>4. ExecutedOnce'
    BY <1>1, <1>2, <2>1 DEF TypeOK, ExecutedOnce
  <2> QED
    BY <1>2, <1>3, <2>2, <2>3, <2>4 DEF StoreInv
<1> QED
  BY <1>4, <1>5, <1>6

LEMMA WriteReplyStep ==
    ASSUME StoreInv, NEW n \in Call, WriteReply(n)
    PROVE  StoreInv' /\ UNCHANGED <<db, req, outcome, answer>>
<1>1. TypeOK /\ Undialled /\ InCall /\ ExecutedOnce
  BY DEF StoreInv
<1>2. /\ server[n] = "executed" /\ reply' = [reply EXCEPT ![n] = outcome[n]]
      /\ server' = [server EXCEPT ![n] = "listening"]
      /\ UNCHANGED <<db, current, req, sent, up, client, outcome, answer, dialled, limit>>
  BY DEF WriteReply
<1>3. TypeOK'
  BY <1>1, <1>2 DEF TypeOK
<1>4. Undialled' /\ InCall' /\ ExecutedOnce'
  BY <1>1, <1>2 DEF TypeOK, Undialled, InCall, ExecutedOnce
<1> QED
  BY <1>2, <1>3, <1>4 DEF StoreInv

\* The handlers: what executing the request of connection n does.
Execution(n) == handleGet(n) \/ handleSet(n) \/ handleDelete(n) \/ StoreFails(n)

LEMMA ExecutionEffect ==
    ASSUME StoreInv, NEW n \in Call, Execution(n)
    PROVE  /\ req[n] \in Request /\ outcome[n] = None /\ reply[n] = None
           /\ \E o \in Reply : Executed(n, o) /\ IF o = Error THEN UNCHANGED db
                 ELSE /\ o = Abstract!Outcome(req[n])
                      /\ db' = IF req[n].kind = "get" THEN db
                               ELSE [db EXCEPT ![req[n].key] = req[n].value]
<1>1. TypeOK /\ Undialled /\ InCall /\ ExecutedOnce
  BY DEF StoreInv
<1>2. server[n] = "dispatched"
  BY DEF Execution, handleGet, handleSet, handleDelete, StoreFails, Complete
<1>3. req[n] \in Request /\ outcome[n] = None /\ reply[n] = None
  BY <1>1, <1>2 DEF TypeOK, Undialled, ExecutedOnce
<1>4. req[n].key \in Key /\ db[req[n].key] \in Value \cup {None}
  BY <1>1, <1>3, RequestShape DEF TypeOK
<1>5. CASE handleGet(n)
  <2>1. StoreGet(req[n].key) \in Reply /\ StoreGet(req[n].key) # Error
    BY <1>4 DEF StoreGet, Reply, Error
  <2>2. StoreGet(req[n].key) = Abstract!Outcome(req[n])
    BY <1>5 DEF handleGet, StoreGet, Abstract!Outcome
  <2> QED
    BY <1>3, <1>5, <2>1, <2>2 DEF handleGet
<1>6. CASE handleSet(n) \/ handleDelete(n)
  <2> DEFINE ok == [status |-> "ok", value |-> None]
  <2>1. ok \in Reply /\ ok # Error
    BY DEF Reply, Error
  <2>2. req[n].kind # "get" /\ ok = Abstract!Outcome(req[n])
    BY <1>6 DEF handleSet, handleDelete, Abstract!Outcome
  <2>3. db' = [db EXCEPT ![req[n].key] = req[n].value]
    BY <1>3, <1>6, RequestShape DEF handleSet, handleDelete, StoreSet, StoreDelete
  <2>4. Executed(n, ok)
    BY <1>6 DEF handleSet, handleDelete
  <2> HIDE DEF ok
  <2> QED
    BY <1>3, <2>1, <2>2, <2>3, <2>4
<1>7. CASE StoreFails(n)
  BY <1>3, <1>7 DEF StoreFails, Error, Reply
<1> QED
  BY <1>5, <1>6, <1>7 DEF Execution

LEMMA ExecutionStep ==
    ASSUME StoreInv, NEW n \in Call, Execution(n)
    PROVE  StoreInv'
<1>1. TypeOK /\ Undialled /\ InCall /\ ExecutedOnce
  BY DEF StoreInv
<1>2. PICK o \in Reply : Executed(n, o) /\ IF o = Error THEN UNCHANGED db
                 ELSE /\ o = Abstract!Outcome(req[n])
                      /\ db' = IF req[n].kind = "get" THEN db
                               ELSE [db EXCEPT ![req[n].key] = req[n].value]
  BY ExecutionEffect
<1>3. /\ outcome' = [outcome EXCEPT ![n] = o] /\ server' = [server EXCEPT ![n] = "executed"]
      /\ UNCHANGED <<current, req, sent, up, client, reply, answer, dialled, limit>>
  BY <1>2 DEF Executed
<1>4. req[n] \in Request /\ outcome[n] = None /\ reply[n] = None /\ req[n] # None
  BY ExecutionEffect, StoreNoneAssumption
<1>5. db' \in [Key -> Value \cup {None}]
  BY <1>1, <1>2, <1>4, RequestShape DEF TypeOK
<1>6. TypeOK'
  BY <1>1, <1>3, <1>5 DEF TypeOK
<1>7. Undialled' /\ InCall'
  BY <1>1, <1>3, <1>4 DEF TypeOK, Undialled, InCall
<1>8. ExecutedOnce'
  BY <1>1, <1>3, <1>4 DEF TypeOK, ExecutedOnce
<1> QED
  BY <1>6, <1>7, <1>8 DEF StoreInv

\* The steps of the protocol, sorted by what they do to the store and the calls.
LEMMA NextCases ==
    ASSUME Next
    PROVE  \/ \E c \in Client, r \in Request : Dial(c, r)
           \/ \E c \in Client : ClientStep(c) \/ ClientCrash(c)
           \/ \E n \in Call : Execution(n) \/ WriteReply(n)
           \/ \E n \in Call : \/ WriteOperation(n) \/ Accept(n) \/ Handle(n)
                              \/ HandleFails(n) \/ LinkBreaks(n) \/ ServerCrash
  BY DEF Next, ServerStep, Execution, ServerCrash

\* Every step keeps the invariant, one action after the other.
LEMMA StoreStep == StoreInv /\ [Next]_vars => StoreInv'
<1> SUFFICES ASSUME StoreInv, [Next]_vars PROVE StoreInv'
  OBVIOUS
<1>1. CASE UNCHANGED vars
  BY <1>1 DEF vars, StoreInv, TypeOK, Undialled, InCall, ExecutedOnce
<1>2. ASSUME NEW c \in Client, ClientStep(c) \/ ClientCrash(c) PROVE StoreInv'
  BY <1>2, Returns, ReturnStep
<1> QED
  BY <1>1, <1>2, NextCases, DialStep, ExecutionStep, WriteReplyStep, QuietStep

\* The inductive invariant holds always.
LEMMA StoreInvariant == Spec => []StoreInv
  BY InitStore, StoreStep, PTL DEF Spec

\* Type correctness of the store, the connections and both ends.
THEOREM StoreTypes == Spec => []TypeOK
<1>1. StoreInv => TypeOK
  BY DEF StoreInv
<1> QED
  BY <1>1, StoreInvariant, PTL

(***************************************************************************)
(* The refinement.                                                          *)
(***************************************************************************)
Effect == [n \in Call |-> IF outcome[n] = Error THEN None ELSE outcome[n]]
absVars == <<db, req, Effect, answer>>

\* The initial states are those of AtomicStore.
LEMMA InitAbstract == Init => Abstract!AbsInit
<1> SUFFICES ASSUME Init PROVE Abstract!AbsInit
  OBVIOUS
<1> QED
  BY DEF Init, Abstract!AbsInit, Error

\* A dial invokes the call.
LEMMA DialInvokes ==
    ASSUME StoreInv, NEW c \in Client, NEW r \in Request, Dial(c, r)
    PROVE  Abstract!AbsNext
<1> DEFINE n == dialled + 1
<1>1. n \in Call /\ n > dialled
  BY DEF Dial, StoreInv, TypeOK
<1>2. req[n] = None
  BY <1>1 DEF StoreInv, Undialled
<1>3. Abstract!Invoke(n, r)
  BY <1>2 DEF Dial, Abstract!Invoke
<1> QED
  BY <1>1, <1>3, RequestShape DEF Abstract!AbsNext

\* A return answers with the outcome, or fails.
LEMMA ReturnAnswers ==
    ASSUME StoreInv, NEW c \in Client, ClientStep(c) \/ ClientCrash(c)
    PROVE  Abstract!AbsNext
<1> DEFINE n == current[c]
<1>1. n # None /\ n \in Call
  BY Returns
<1>2. PICK a \in Reply : (a = Error \/ (a = reply[n] /\ a # None)) /\ Return(c, a)
  BY Returns
<1>3. req[n] # None /\ answer[n] = None
  BY <1>1 DEF StoreInv, InCall
<1>4. answer' = [answer EXCEPT ![n] = a] /\ UNCHANGED <<db, req, outcome>>
  BY <1>2 DEF Return
<1>5. CASE a = Error
  <2>1. Abstract!Fail(n)
    BY <1>3, <1>4, <1>5 DEF Abstract!Fail, Abstract!Error, Error
  <2> QED
    BY <1>1, <2>1 DEF Abstract!AbsNext
<1>6. CASE a # Error
  <2>1. a = outcome[n] /\ a # None
    BY <1>1, <1>2, <1>6 DEF StoreInv, ExecutedOnce
  <2>2. Effect[n] = a
    BY <1>1, <1>6, <2>1 DEF Effect
  <2>3. Abstract!Answer(n)
    BY <1>3, <1>4, <2>1, <2>2 DEF Abstract!Answer, Effect
  <2> QED
    BY <1>1, <2>3 DEF Abstract!AbsNext
<1> QED
  BY <1>5, <1>6

\* A handler that executes its request takes the call's effect; one whose
\* transaction fails changes nothing the caller can see.
LEMMA ExecutionTakesEffect ==
    ASSUME StoreInv, NEW n \in Call, Execution(n)
    PROVE  Abstract!AbsNext \/ UNCHANGED absVars
<1>1. PICK o \in Reply : Executed(n, o) /\ IF o = Error THEN UNCHANGED db
                 ELSE /\ o = Abstract!Outcome(req[n])
                      /\ db' = IF req[n].kind = "get" THEN db
                               ELSE [db EXCEPT ![req[n].key] = req[n].value]
  BY ExecutionEffect
<1>2. /\ outcome' = [outcome EXCEPT ![n] = o] /\ outcome[n] = None
      /\ UNCHANGED <<req, answer>> /\ req[n] # None
  BY <1>1, ExecutionEffect, StoreNoneAssumption DEF Executed
<1>3. outcome \in [Call -> Reply \cup {None}]
  BY DEF StoreInv, TypeOK
<1>4. None # Error
  BY StoreNoneAssumption DEF Error, Reply
<1>5. CASE o = Error
  <2>1. Effect' = Effect
    BY <1>2, <1>3, <1>5 DEF Effect
  <2> QED
    BY <1>1, <1>2, <1>5, <2>1 DEF absVars
<1>6. CASE o # Error
  <2>1. Effect[n] = None
    BY <1>2 DEF Effect
  <2>2. Effect' = [Effect EXCEPT ![n] = o]
    BY <1>2, <1>3, <1>6 DEF Effect
  <2>3. Abstract!TakeEffect(n)
    BY <1>1, <1>2, <1>6, <2>1, <2>2 DEF Abstract!TakeEffect, Effect
  <2> QED
    BY <2>3 DEF Abstract!AbsNext
<1> QED
  BY <1>5, <1>6

\* Every step is a step of AtomicStore or leaves its state alone.
LEMMA StepSimulated == StoreInv /\ [Next]_vars => [Abstract!AbsNext]_absVars
<1> SUFFICES ASSUME StoreInv, [Next]_vars PROVE Abstract!AbsNext \/ UNCHANGED absVars
  OBVIOUS
<1>1. CASE UNCHANGED vars
  BY <1>1 DEF vars, absVars, Effect
<1>2. ASSUME UNCHANGED <<db, req, outcome, answer>> PROVE UNCHANGED absVars
  BY <1>2 DEF absVars, Effect
<1> QED
  BY <1>1, <1>2, NextCases, DialInvokes, ReturnAnswers, ExecutionTakesEffect,
     WriteReplyStep, QuietStep

\* The protocol implements AtomicStore, whatever connections break and whichever
\* clients and servers crash: a call takes effect once at most and in one step, and
\* what it returns is the outcome of that step or an error.
THEOREM AtomicStoreImplemented == Spec => ImplementsAtomicStore
<1>1. Spec => [][Abstract!AbsNext]_absVars
  BY StoreInvariant, StepSimulated, PTL DEF Spec
<1> QED
  BY <1>1, InitAbstract, PTL DEF Spec, ImplementsAtomicStore, Abstract!AbsSpec, absVars, Effect
=============================================================================
