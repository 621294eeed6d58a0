---------------------------- MODULE AtomicStore ----------------------------
(***************************************************************************)
(* What a caller of the storage service may rely on.  A call takes effect   *)
(* at most once, in one step, at some moment after it was made; an answer   *)
(* is the outcome of that step.  A call that fails tells its caller nothing *)
(* about the effect: it may have happened, it may still happen, it may      *)
(* never happen.                                                            *)
(***************************************************************************)
CONSTANTS Call,     \* identities of calls
          Key, Value,
          None      \* no value; no such call, no effect or no answer yet

VARIABLES data,     \* the value of each key
          op,       \* what each call asks for
          effect,   \* the outcome of the call's effect, once it happened
          answer    \* what the caller was told

Request == [kind : {"get"}, key : Key, value : {None}]
           \cup [kind : {"set"}, key : Key, value : Value]
           \cup [kind : {"delete"}, key : Key, value : {None}]

Outcome(r) == IF r.kind = "get"
              THEN IF data[r.key] = None THEN [status |-> "notfound", value |-> None]
                   ELSE [status |-> "ok", value |-> data[r.key]]
              ELSE [status |-> "ok", value |-> None]

Error == [status |-> "error", value |-> None]

AbsInit ==
    /\ data = [k \in Key |-> None]
    /\ op = [n \in Call |-> None]
    /\ effect = [n \in Call |-> None]
    /\ answer = [n \in Call |-> None]

Invoke(n, r) ==
    /\ op[n] = None
    /\ op' = [op EXCEPT ![n] = r]
    /\ UNCHANGED <<data, effect, answer>>

TakeEffect(n) ==
    /\ op[n] # None /\ effect[n] = None
    /\ effect' = [effect EXCEPT ![n] = Outcome(op[n])]
    /\ data' = IF op[n].kind = "get" THEN data
               ELSE [data EXCEPT ![op[n].key] = op[n].value]
    /\ UNCHANGED <<op, answer>>

Answer(n) ==
    /\ answer[n] = None /\ effect[n] # None
    /\ answer' = [answer EXCEPT ![n] = effect[n]]
    /\ UNCHANGED <<data, op, effect>>

Fail(n) ==
    /\ op[n] # None /\ answer[n] = None
    /\ answer' = [answer EXCEPT ![n] = Error]
    /\ UNCHANGED <<data, op, effect>>

AbsNext ==
    \E n \in Call :
        \/ \E r \in Request : Invoke(n, r)
        \/ TakeEffect(n) \/ Answer(n) \/ Fail(n)

AbsSpec == AbsInit /\ [][AbsNext]_<<data, op, effect, answer>>
=============================================================================
