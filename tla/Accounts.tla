------------------------------ MODULE Accounts ------------------------------
(***************************************************************************)
(* InitUser and GetUser, one storage operation at a time: the check that    *)
(* the name is free, the two public keys in the key store, the user record  *)
(* sealed under the password.  Nothing locks the name in between, and a Set *)
(* whose call has failed may still be carried out by the server later.      *)
(*                                                                          *)
(* The encryption and the signing key pair of one InitUser are drawn        *)
(* together; one number stands for both pairs.                              *)
(***************************************************************************)
EXTENDS Integers, Sequences

CONSTANTS Client, User, Password,
          None,
          MaxKeys,    \* bound: how many InitUser calls may draw keys
          Fault       \* what can go wrong: a subset of {"error", "crash", "late"}

ASSUME KeysAssumption == MaxKeys \in Nat
ASSUME AccountFaultAssumption == Fault \subseteq {"error", "crash", "late"}

KeyPair == 1 .. MaxKeys
Record == [password : Password, keys : KeyPair]
PublicKey == {"enc_pub", "sig_pub"}

\* An InitUser under way: its arguments, the keys it drew and the Sets it has to do.
ToDo == {<<"enc_pub", "sig_pub", "record">>, <<"sig_pub", "record">>, <<"record">>}
InitCall == [user : User, password : Password, keys : KeyPair, todo : ToDo]
Session == [user : User, keys : KeyPair]

\* What is absent is told apart from what is there.
ASSUME AccountNoneAssumption ==
    None \notin Record \cup KeyPair \cup InitCall \cup Session

VARIABLES
    keyStore,   \* the public keys, by user and kind
    record,     \* the stored user records
    call,       \* the InitUser each client is in: its arguments, its keys, its Sets to do
    late,       \* InitUser calls that are over and whose next Set the server has yet to do
    session,    \* c.user of each client
    drawn,      \* how many key pairs were drawn
    newest,     \* history: the keys of the InitUser that was last begun for each name
    created,    \* history: what the InitUser calls that succeeded were called with
    raced       \* history: the names that an InitUser wrote to after a newer one had begun

vars == <<keyStore, record, call, late, session, drawn, newest, created, raced>>

Init ==
    /\ keyStore = [u \in User |-> [k \in PublicKey |-> None]]
    /\ record = [u \in User |-> None]
    /\ call = [c \in Client |-> None]
    /\ late = {}
    /\ session = [c \in Client |-> None]
    /\ drawn = 0
    /\ newest = [u \in User |-> 0]
    /\ created = {}
    /\ raced = {}

\* Variant of SetOrder: the user record is saved before the keys are published.
SetOrderRecordFirst == <<"record", "enc_pub", "sig_pub">>

\* The Sets of InitUser, in order.
SetOrder == <<"enc_pub", "sig_pub", "record">>

\* Variant of NameIsFree: the record that was found is not looked at.
NameIsFreeUnchecked(u) == record[u] \in Record \cup {None}

NameIsFree(u) == record[u] = None

\* The Get that checks the name; for a taken one InitUser returns an error.
BeginInitUser(c, u, p) ==
    /\ call[c] = None
    /\ NameIsFree(u)
    /\ drawn + 1 \in KeyPair
    /\ drawn' = drawn + 1
    /\ call' = [call EXCEPT ![c] =
          [user |-> u, password |-> p, keys |-> drawn + 1, todo |-> SetOrder]]
    /\ newest' = [newest EXCEPT ![u] = drawn + 1]
    /\ UNCHANGED <<keyStore, record, late, session, created, raced>>

\* Variant of Put: the private keys are left out of the record.
PutWithoutKeys(i) ==
    IF Head(i.todo) = "record"
    THEN record' = [record EXCEPT ![i.user] = [password |-> i.password]] /\ UNCHANGED keyStore
    ELSE /\ keyStore' = [keyStore EXCEPT ![i.user][Head(i.todo)] = i.keys]
         /\ UNCHANGED record

\* What the next Set of the InitUser i stores.
Put(i) ==
    IF Head(i.todo) = "record"
    THEN /\ record' = [record EXCEPT ![i.user] = [password |-> i.password, keys |-> i.keys]]
         /\ UNCHANGED keyStore
    ELSE /\ keyStore' = [keyStore EXCEPT ![i.user][Head(i.todo)] = i.keys]
         /\ UNCHANGED record

\* The server carries out the next Set of the InitUser i.
Write(i) ==
    /\ Put(i)
    /\ raced' = IF i.keys = newest[i.user] THEN raced ELSE raced \cup {i.user}

NoWrite == UNCHANGED <<keyStore, record, raced>>

DoSet(c) ==
    /\ call[c] # None
    /\ Write(call[c])
    /\ LET i == call[c]
           rest == Tail(i.todo)
       IN  IF rest # <<>>
           THEN /\ call' = [call EXCEPT ![c].todo = rest]
                /\ UNCHANGED <<session, created>>
           ELSE /\ call' = [call EXCEPT ![c] = None]
                /\ session' = [session EXCEPT ![c] = [user |-> i.user, keys |-> i.keys]]
                /\ created' = created \cup {[user |-> i.user, password |-> i.password, keys |-> i.keys]}
    /\ UNCHANGED <<late, drawn, newest>>

\* A Set fails and InitUser returns an error, or the process dies.  The Set that was
\* under way was carried out, never will be, or is carried out later: the server may
\* have its request and not have got to it.
Interrupted(c) ==
    /\ call[c] # None
    /\ \/ "error" \in Fault /\ UNCHANGED session
       \/ "crash" \in Fault /\ session' = [session EXCEPT ![c] = None]
    /\ \/ Write(call[c]) /\ UNCHANGED late
       \/ NoWrite /\ UNCHANGED late
       \/ "late" \in Fault /\ late' = late \cup {call[c]} /\ NoWrite
    /\ call' = [call EXCEPT ![c] = None]
    /\ UNCHANGED <<drawn, newest, created>>

\* The server gets to a Set whose InitUser is over.
LateSet(i) ==
    /\ Write(i)
    /\ late' = late \ {i}
    /\ UNCHANGED <<call, session, drawn, newest, created>>

\* The master key derived from the password opens the record or does not.
GetUser(c, u, p) ==
    /\ call[c] = None
    /\ record[u] # None
    /\ record[u].password = p
    /\ session' = [session EXCEPT ![c] = [user |-> u, keys |-> record[u].keys]]
    /\ UNCHANGED <<keyStore, record, call, late, drawn, newest, created, raced>>

Next ==
    \/ \E c \in Client :
          \/ \E u \in User, p \in Password : BeginInitUser(c, u, p) \/ GetUser(c, u, p)
          \/ DoSet(c)
          \/ Interrupted(c)
    \/ \E i \in late : LateSet(i)

Spec == Init /\ [][Next]_vars

(***************************************************************************)
(* Properties.                                                              *)
(***************************************************************************)
\* Type correctness of the store, the calls and the sessions.
TypeOK ==
    /\ keyStore \in [User -> [PublicKey -> KeyPair \cup {None}]]
    /\ record \in [User -> Record \cup {None}]
    /\ call \in [Client -> InitCall \cup {None}]
    /\ late \subseteq InitCall
    /\ session \in [Client -> Session \cup {None}]
    /\ drawn \in 0 .. MaxKeys
    /\ newest \in [User -> 0 .. MaxKeys]
    /\ created \subseteq [user : User, password : Password, keys : KeyPair]
    /\ raced \subseteq User

\* Whoever has a record can be invited: both published keys are the ones whose
\* private halves the record holds.  Calls that failed or died between two Sets leave
\* keys without a record behind, which the next InitUser replaces, and they may overlap
\* with it.  What the code does not survive is in `raced': a Set of one InitUser that is
\* carried out after another for the name has begun, because the two overlap or because
\* it comes late; then the keys can end up mixed for good.
KeysMatch ==
    \A u \in User \ raced : record[u] # None =>
        \A k \in PublicKey : keyStore[u][k] = record[u].keys

\* An account whose creation succeeded can be logged in to: the password InitUser was
\* given opens the record, and the keys are its own.  The same exception: a Set that is
\* carried out after a newer InitUser for the name has begun, by a call that overlaps or
\* late after its call failed, replaces a record that somebody was told is theirs.
CreatedCanLogIn ==
    \A a \in created : a.user \notin raced =>
        /\ record[a.user] # None
        /\ record[a.user].password = a.password
        /\ record[a.user].keys = a.keys
=============================================================================
