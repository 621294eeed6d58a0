--------------------------- MODULE AccountsProofs ---------------------------
(***************************************************************************)
(* Machine-checked proofs about Accounts, for every set of clients, users   *)
(* and passwords, any number of InitUser calls and every kind of fault.     *)
(***************************************************************************)
EXTENDS Accounts, TLAPS

\* The Set that comes next in a list of Sets to do.
NextSet(t) == Head(t)

\* The InitUser calls whose next Set may still be carried out.
Open == late \cup {call[c] : c \in {d \in Client : call[d] # None}}

\* Every InitUser has keys of its own.
Numbered ==
    /\ \A i, j \in Open : i.keys = j.keys => i = j
    /\ \A i \in Open : i.keys <= drawn
    /\ \A c, d \in Client : call[c] # None /\ call[c] = call[d] => c = d
    /\ \A c \in Client : call[c] \notin late

\* No older InitUser has written for the name, and none is newer.
Newest(i) == i.user \notin raced /\ i.keys = newest[i.user]

\* Without a race the newest InitUser has no record yet, and the Sets it has done are in
\* the key store.
DoneSets(i) ==
    /\ record[i.user] = None
    /\ NextSet(i.todo) # "enc_pub" => keyStore[i.user]["enc_pub"] = i.keys
    /\ NextSet(i.todo) = "record" => keyStore[i.user]["sig_pub"] = i.keys

SetsDone == \A i \in Open : Newest(i) => DoneSets(i)

AccountsInv == TypeOK /\ Numbered /\ SetsDone /\ KeysMatch /\ CreatedCanLogIn

\* Nothing is stored and no call is under way at the start.
LEMMA InitAccounts == Init => AccountsInv
<1> SUFFICES ASSUME Init PROVE AccountsInv
  OBVIOUS
<1>1. TypeOK
  BY KeysAssumption DEF Init, TypeOK
<1>2. Open = {}
  BY DEF Init, Open
<1>3. Numbered /\ SetsDone /\ KeysMatch /\ CreatedCanLogIn
  BY <1>2 DEF Init, Numbered, SetsDone, KeysMatch, CreatedCanLogIn
<1> QED
  BY <1>1, <1>3 DEF AccountsInv

\* What is open is an InitCall.
LEMMA OpenTypes ==
    ASSUME TypeOK
    PROVE  Open \subseteq InitCall
  BY DEF TypeOK, Open

\* The check of the name starts a call, which is the newest for its name.
LEMMA BeginInitUserStep ==
    ASSUME AccountsInv, NEW c \in Client, NEW u \in User, NEW p \in Password,
           BeginInitUser(c, u, p)
    PROVE  AccountsInv'
<1> DEFINE new == [user |-> u, password |-> p, keys |-> drawn + 1, todo |-> SetOrder]
<1>1. /\ call' = [call EXCEPT ![c] = new] /\ new \in InitCall /\ drawn' = drawn + 1
      /\ drawn' \in KeyPair /\ call[c] = None /\ record[u] = None
      /\ newest' = [newest EXCEPT ![u] = drawn + 1]
      /\ UNCHANGED <<keyStore, record, late, session, created, raced>>
  BY DEF BeginInitUser, NameIsFree, SetOrder, InitCall, ToDo
<1>2. TypeOK /\ Numbered /\ SetsDone /\ KeysMatch /\ CreatedCanLogIn
  BY DEF AccountsInv
<1>3. TypeOK'
  BY <1>1, <1>2, KeysAssumption DEF TypeOK, KeyPair
<1>4. \A d \in Client : call'[d] = IF d = c THEN new ELSE call[d]
  BY <1>1, <1>2 DEF TypeOK
<1>5. /\ new # None /\ new.user = u /\ new.keys = drawn + 1 /\ new.todo = SetOrder
      /\ NextSet(SetOrder) = "enc_pub"
  BY <1>1, AccountNoneAssumption DEF NextSet, SetOrder
<1> HIDE DEF new
<1>6. Open' = Open \cup {new}
  BY <1>1, <1>4, <1>5 DEF Open
<1>7. drawn \in Nat /\ \A i \in Open : i \in InitCall /\ i.keys \in Int /\ i.keys <= drawn /\ i # new
  <2>1. drawn \in Nat /\ \A i \in Open : i \in InitCall /\ i.keys \in Int /\ i.keys <= drawn
    BY <1>2, OpenTypes, KeysAssumption DEF TypeOK, InitCall, KeyPair, Numbered
  <2> QED
    BY <2>1, <1>5
<1>8. Numbered'
  <2>1. \A i, j \in Open' : i.keys = j.keys => i = j
    BY <1>2, <1>5, <1>6, <1>7 DEF Numbered
  <2>2. \A i \in Open' : i.keys <= drawn'
    BY <1>1, <1>5, <1>6, <1>7
  <2>3. \A d \in Client \ {c} : call[d] # None => call[d] # new
    BY <1>7 DEF Open
  <2>4. new \notin late
    BY <1>7 DEF Open
  <2>5. /\ \A d, e \in Client : call'[d] # None /\ call'[d] = call'[e] => d = e
        /\ \A d \in Client : call'[d] \notin late'
    BY <1>1, <1>2, <1>4, <1>5, <2>3, <2>4 DEF Numbered
  <2> QED
    BY <2>1, <2>2, <2>5 DEF Numbered
<1>9. SetsDone'
  <2> SUFFICES ASSUME NEW i \in Open', Newest(i)' PROVE DoneSets(i)'
    BY DEF SetsDone
  <2>1. CASE i = new
    BY <1>1, <1>5, <2>1 DEF DoneSets
  <2>2. CASE i \in Open
    <3>1. i.user \in User /\ i.user # u
      <4>1. i.user \in User
        BY <1>7, <2>2 DEF InitCall
      <4>2. i.keys = newest'[i.user]
        BY DEF Newest
      <4>3. newest'[u] = drawn + 1
        BY <1>1, <1>2 DEF TypeOK
      <4> QED
        BY <1>7, <2>2, <4>1, <4>2, <4>3
    <3>2. newest'[i.user] = newest[i.user]
      BY <1>1, <1>2, <3>1 DEF TypeOK
    <3>3. DoneSets(i)
      BY <1>1, <1>2, <2>2, <3>2 DEF SetsDone, Newest
    <3> QED
      BY <1>1, <3>3 DEF DoneSets
  <2> QED
    BY <1>6, <2>1, <2>2
<1>10. KeysMatch' /\ CreatedCanLogIn'
  BY <1>1, <1>2 DEF KeysMatch, CreatedCanLogIn
<1> QED
  BY <1>3, <1>8, <1>9, <1>10 DEF AccountsInv

\* A call has three, two or one Set to do; which Set is next and which remain.
LEMMA ToDoCases ==
    ASSUME NEW t \in ToDo
    PROVE  \/ /\ NextSet(t) = "enc_pub" /\ Tail(t) \in ToDo /\ Tail(t) # <<>>
              /\ NextSet(Tail(t)) = "sig_pub"
           \/ /\ NextSet(t) = "sig_pub" /\ Tail(t) \in ToDo /\ Tail(t) # <<>>
              /\ NextSet(Tail(t)) = "record"
           \/ NextSet(t) = "record" /\ Tail(t) = <<>>
<1>1. CASE t = <<"enc_pub", "sig_pub", "record">>
  <2>1. Tail(t) = <<"sig_pub", "record">>
    BY <1>1
  <2> QED
    BY <1>1, <2>1 DEF ToDo, NextSet
<1>2. CASE t = <<"sig_pub", "record">>
  <2>1. Tail(t) = <<"record">>
    BY <1>2
  <2> QED
    BY <1>2, <2>1 DEF ToDo, NextSet
<1>3. CASE t = <<"record">>
  BY <1>3 DEF NextSet
<1> QED
  BY <1>1, <1>2, <1>3 DEF ToDo

\* What the next Set of an InitUser stores.
LEMMA PutEffect ==
    ASSUME NEW i \in InitCall, Put(i)
    PROVE  \/ /\ NextSet(i.todo) = "enc_pub"
              /\ keyStore' = [keyStore EXCEPT ![i.user]["enc_pub"] = i.keys]
              /\ record' = record
           \/ /\ NextSet(i.todo) = "sig_pub"
              /\ keyStore' = [keyStore EXCEPT ![i.user]["sig_pub"] = i.keys]
              /\ record' = record
           \/ /\ NextSet(i.todo) = "record"
              /\ record' = [record EXCEPT ![i.user] =
                               [password |-> i.password, keys |-> i.keys]]
              /\ keyStore' = keyStore
<1>1. i.todo \in ToDo
  BY DEF InitCall
<1> QED
  BY <1>1, ToDoCases DEF Put, NextSet

\* The store keeps its type when a Set is carried out, and what it has of others.
LEMMA WriteKeepsTypes ==
    ASSUME TypeOK, NEW i \in InitCall, Write(i)
    PROVE  /\ keyStore' \in [User -> [PublicKey -> KeyPair \cup {None}]]
           /\ record' \in [User -> Record \cup {None}]
           /\ raced' \subseteq User
           /\ \A v \in User \ {i.user} : keyStore'[v] = keyStore[v] /\ record'[v] = record[v]
           /\ raced \subseteq raced'
<1>1. /\ keyStore \in [User -> [PublicKey -> KeyPair \cup {None}]]
      /\ record \in [User -> Record \cup {None}]
      /\ raced \subseteq User
  BY DEF TypeOK
<1>2. i.user \in User /\ i.keys \in KeyPair /\ i.password \in Password
  BY DEF InitCall
<1>3. ASSUME NEW k \in PublicKey, keyStore' = [keyStore EXCEPT ![i.user][k] = i.keys]
      PROVE  keyStore' \in [User -> [PublicKey -> KeyPair \cup {None}]]
  <2>1. [keyStore[i.user] EXCEPT ![k] = i.keys] \in [PublicKey -> KeyPair \cup {None}]
    BY <1>1, <1>2
  <2>2. keyStore' = [keyStore EXCEPT ![i.user] = [keyStore[i.user] EXCEPT ![k] = i.keys]]
    BY <1>3
  <2> QED
    BY <1>1, <1>2, <2>1, <2>2
<1>4. [password |-> i.password, keys |-> i.keys] \in Record
  BY <1>2 DEF Record
<1>5. "enc_pub" \in PublicKey /\ "sig_pub" \in PublicKey
  BY DEF PublicKey
<1>6. Put(i) /\ raced' = IF i.keys = newest[i.user] THEN raced ELSE raced \cup {i.user}
  BY DEF Write
<1>7. keyStore' \in [User -> [PublicKey -> KeyPair \cup {None}]]
  BY <1>1, <1>3, <1>5, <1>6, PutEffect
<1>8. record' \in [User -> Record \cup {None}]
  BY <1>1, <1>2, <1>4, <1>6, PutEffect
<1>9. \A v \in User \ {i.user} : keyStore'[v] = keyStore[v] /\ record'[v] = record[v]
  BY <1>1, <1>2, <1>6, PutEffect
<1> QED
  BY <1>1, <1>2, <1>6, <1>7, <1>8, <1>9

\* Without a race a Set comes from the newest InitUser of a name that has no record.
LEMMA NoOlderWrite ==
    ASSUME AccountsInv, NEW i \in Open, Write(i), i.user \notin raced'
    PROVE  Newest(i) /\ DoneSets(i) /\ raced' = raced
<1>1. Newest(i) /\ raced' = raced
  BY DEF Write, Newest
<1> QED
  BY <1>1 DEF AccountsInv, SetsDone

\* A Set leaves the names without a race their records, and keys that match them.
LEMMA WriteKeepsRecords ==
    ASSUME AccountsInv, NEW i \in Open, Write(i)
    PROVE  /\ \A v \in User \ raced' : record[v] # None => record'[v] = record[v]
           /\ KeysMatch'
<1>1. TypeOK /\ KeysMatch /\ i \in InitCall
  BY OpenTypes DEF AccountsInv
<1>2. i.user \in User /\ i.keys \in KeyPair
  BY <1>1 DEF InitCall
<1>3. /\ \A v \in User \ {i.user} : keyStore'[v] = keyStore[v] /\ record'[v] = record[v]
      /\ raced \subseteq raced'
  BY <1>1, WriteKeepsTypes
<1>4. ASSUME i.user \notin raced', record'[i.user] # None, NEW k \in PublicKey
      PROVE  keyStore'[i.user][k] = record'[i.user].keys
  <2>1. DoneSets(i)
    BY <1>4, NoOlderWrite
  <2>2. record[i.user] = None
    BY <2>1 DEF DoneSets
  <2>3. record' # record
    BY <1>4, <2>2
  <2>4. Put(i)
    BY DEF Write
  <2>5. /\ NextSet(i.todo) = "record" /\ keyStore' = keyStore
        /\ record' = [record EXCEPT ![i.user] = [password |-> i.password, keys |-> i.keys]]
    BY <1>1, <2>3, <2>4, PutEffect
  <2>6. record'[i.user].keys = i.keys
    BY <1>1, <1>2, <2>5 DEF TypeOK
  <2>7. keyStore[i.user]["enc_pub"] = i.keys /\ keyStore[i.user]["sig_pub"] = i.keys
    BY <2>1, <2>5 DEF DoneSets
  <2> QED
    BY <2>5, <2>6, <2>7 DEF PublicKey
<1>5. KeysMatch'
  <2> SUFFICES ASSUME NEW v \in User \ raced', record'[v] # None, NEW k \in PublicKey
               PROVE  keyStore'[v][k] = record'[v].keys
    BY DEF KeysMatch
  <2>1. CASE v = i.user
    BY <1>4, <2>1
  <2>2. CASE v # i.user
    BY <1>1, <1>3, <2>2 DEF KeysMatch
  <2> QED
    BY <2>1, <2>2
<1>6. \A v \in User \ raced' : record[v] # None => record'[v] = record[v]
  <2> SUFFICES ASSUME NEW v \in User \ raced', record[v] # None
               PROVE  record'[v] = record[v]
    OBVIOUS
  <2>1. v # i.user
    BY NoOlderWrite DEF DoneSets
  <2> QED
    BY <1>3, <2>1
<1> QED
  BY <1>5, <1>6

\* The Sets that the other InitUser calls have done are not undone.
LEMMA WriteKeepsDone ==
    ASSUME AccountsInv, NEW i \in Open, Write(i), newest' = newest,
           NEW j \in Open, j # i, Newest(j)'
    PROVE  DoneSets(j)'
<1>1. TypeOK /\ Numbered /\ SetsDone /\ i \in InitCall /\ j \in InitCall
  BY OpenTypes DEF AccountsInv
<1>2. i.user \in User /\ j.user \in User
  BY <1>1 DEF InitCall
<1>3. /\ \A v \in User \ {i.user} : keyStore'[v] = keyStore[v] /\ record'[v] = record[v]
      /\ raced \subseteq raced'
  BY <1>1, WriteKeepsTypes
<1>4. Newest(j)
  BY <1>3 DEF Newest
<1>5. j.user # i.user
  <2>1. j.user \notin raced'
    BY DEF Newest
  <2>2. SUFFICES ASSUME j.user = i.user PROVE FALSE
    OBVIOUS
  <2>3. Newest(i)
    BY <2>1, <2>2, NoOlderWrite
  <2>4. i.keys = j.keys
    BY <1>4, <2>2, <2>3 DEF Newest
  <2> QED
    BY <1>1, <2>4 DEF Numbered
<1>6. DoneSets(j)
  BY <1>1, <1>4 DEF SetsDone
<1> QED
  BY <1>2, <1>3, <1>5, <1>6 DEF DoneSets

\* An InitUser that ends and leaves nothing to be carried out.
LEMMA Closes ==
    ASSUME AccountsInv, NEW i \in Open, Open' = Open \ {i}, newest' = newest, drawn' = drawn,
           Write(i) \/ NoWrite,
           \A c \in Client : call'[c] = call[c] \/ call'[c] = None,
           late' \subseteq late
    PROVE  Numbered' /\ SetsDone' /\ KeysMatch'
<1>1. TypeOK /\ Numbered /\ SetsDone /\ KeysMatch
  BY DEF AccountsInv
<1>2. Numbered'
  <2>1. /\ \A a, b \in Open' : a.keys = b.keys => a = b
        /\ \A a \in Open' : a.keys <= drawn'
    BY <1>1 DEF Numbered
  <2>2. \A c, d \in Client : call'[c] # None /\ call'[c] = call'[d] => c = d
    BY <1>1 DEF Numbered
  <2>3. None \notin late
    BY <1>1, AccountNoneAssumption DEF TypeOK
  <2>4. \A c \in Client : call'[c] \notin late'
    BY <1>1, <2>3 DEF Numbered
  <2> QED
    BY <2>1, <2>2, <2>4 DEF Numbered
<1>3. CASE Write(i)
  <2>1. SetsDone'
    BY <1>3, WriteKeepsDone DEF SetsDone
  <2>2. KeysMatch'
    BY <1>3, WriteKeepsRecords
  <2> QED
    BY <1>2, <2>1, <2>2
<1>4. CASE NoWrite
  BY <1>1, <1>2, <1>4 DEF NoWrite, SetsDone, Newest, DoneSets, KeysMatch
<1> QED
  BY <1>3, <1>4

\* A Set of a call succeeds: the call goes on, or the account is created.
LEMMA DoSetStep ==
    ASSUME AccountsInv, NEW c \in Client, DoSet(c)
    PROVE  AccountsInv'
<1> DEFINE rest == Tail(call[c].todo)
<1>1. TypeOK /\ Numbered /\ SetsDone /\ KeysMatch /\ CreatedCanLogIn
  BY DEF AccountsInv
<1>2. PICK i \in InitCall : i = call[c]
  BY <1>1 DEF DoSet, TypeOK
<1>3. /\ i \in Open /\ i # None /\ i \notin late /\ i.user \in User /\ i.password \in Password
      /\ i.keys \in KeyPair /\ i.todo \in ToDo
  BY <1>1, <1>2 DEF DoSet, Open, Numbered, InitCall
<1>4. Write(i) /\ UNCHANGED <<late, drawn, newest>>
  BY <1>2 DEF DoSet
<1>5. \A d \in Client \ {c} : call[d] # i
  BY <1>1, <1>2, <1>3 DEF Numbered
<1>6. CASE rest # <<>>
  <2>1. call' = [call EXCEPT ![c].todo = rest] /\ UNCHANGED <<session, created>>
    BY <1>6 DEF DoSet
  <2>2. PICK j \in InitCall : /\ j = [i EXCEPT !.todo = rest]
                               /\ j.user = i.user /\ j.keys = i.keys /\ j.todo = rest
    <3>1. rest \in ToDo
      BY <1>2, <1>3, <1>6, ToDoCases
    <3>2. [i EXCEPT !.todo = rest] \in InitCall
      BY <3>1 DEF InitCall
    <3>3. /\ [i EXCEPT !.todo = rest].user = i.user /\ [i EXCEPT !.todo = rest].keys = i.keys
          /\ [i EXCEPT !.todo = rest].todo = rest
      BY DEF InitCall
    <3> QED
      BY <3>2, <3>3
  <2>3. call' = [call EXCEPT ![c] = j] /\ j # None
    BY <1>1, <1>2, <2>1, <2>2, AccountNoneAssumption DEF TypeOK
  <2>4. call'[c] = j /\ \A d \in Client \ {c} : call'[d] = call[d]
    BY <1>1, <2>3 DEF TypeOK
  <2>5. Open' = (Open \ {i}) \cup {j}
    BY <1>2, <1>3, <1>4, <1>5, <2>3, <2>4 DEF Open
  <2>6. TypeOK'
    BY <1>1, <1>4, <2>1, <2>3, WriteKeepsTypes DEF TypeOK
  <2>7. i.todo # j.todo /\ j \notin Open
    <3>1. i.todo # rest
      <4>1. NextSet(i.todo) # NextSet(rest)
        BY <1>2, <1>3, <1>6, ToDoCases
      <4> QED
        BY <4>1
    <3>2. j # i
      BY <2>2, <3>1
    <3> QED
      BY <1>1, <1>3, <2>2, <3>1, <3>2 DEF Numbered
  <2>8. Numbered'
    <3>1. \A a, b \in Open' : a.keys = b.keys => a = b
      <4>1. j.keys = i.keys /\ i \in Open
        BY <1>3, <2>2
      <4> QED
        BY <1>1, <2>5, <4>1 DEF Numbered
    <3>5. \A a \in Open' : a.keys <= drawn'
      <4>1. j.keys = i.keys /\ i \in Open
        BY <1>3, <2>2
      <4> QED
        BY <1>1, <1>4, <2>5, <4>1 DEF Numbered
    <3>2. \A d \in Client : call[d] # None => call[d] # j
      BY <2>7 DEF Open
    <3>3. j \notin late
      BY <2>7 DEF Open
    <3>4. /\ \A d, e \in Client : call'[d] # None /\ call'[d] = call'[e] => d = e
          /\ \A d \in Client : call'[d] \notin late'
      BY <1>1, <1>4, <2>4, <3>2, <3>3 DEF Numbered
    <3> QED
      BY <3>1, <3>4, <3>5 DEF Numbered
  <2>9. SetsDone'
    <3> SUFFICES ASSUME NEW a \in Open', Newest(a)' PROVE DoneSets(a)'
      BY DEF SetsDone
    <3>1. CASE a # j
      BY <1>3, <1>4, <2>5, <3>1, WriteKeepsDone
    <3>2. CASE a = j
      <4>1. i.user \notin raced'
        BY <2>2, <3>2 DEF Newest
      <4>2. DoneSets(i) /\ Put(i)
        BY <1>3, <1>4, <4>1, NoOlderWrite DEF Write
      <4>3. keyStore[i.user] \in [PublicKey -> KeyPair \cup {None}]
        BY <1>1, <1>3 DEF TypeOK
      <4>4. \/ /\ NextSet(rest) = "sig_pub" /\ record' = record
               /\ keyStore' = [keyStore EXCEPT ![i.user]["enc_pub"] = i.keys]
            \/ /\ NextSet(rest) = "record" /\ NextSet(i.todo) = "sig_pub" /\ record' = record
               /\ keyStore' = [keyStore EXCEPT ![i.user]["sig_pub"] = i.keys]
        BY <1>2, <1>3, <1>6, <4>2, ToDoCases, PutEffect
      <4>5. record'[i.user] = None
        BY <4>2, <4>4 DEF DoneSets
      <4>6. CASE NextSet(rest) = "sig_pub"
        <5>1. keyStore'[i.user]["enc_pub"] = i.keys
          BY <1>1, <1>3, <4>3, <4>4, <4>6 DEF TypeOK, PublicKey
        <5> QED
          BY <2>2, <3>2, <4>5, <4>6, <5>1 DEF DoneSets
      <4>7. CASE NextSet(rest) = "record"
        <5>1. keyStore[i.user]["enc_pub"] = i.keys
          BY <4>2, <4>4, <4>7 DEF DoneSets
        <5>2. keyStore'[i.user]["enc_pub"] = i.keys /\ keyStore'[i.user]["sig_pub"] = i.keys
          BY <1>1, <1>3, <4>3, <4>4, <4>7, <5>1 DEF TypeOK, PublicKey
        <5> QED
          BY <2>2, <3>2, <4>5, <5>2 DEF DoneSets
      <4> QED
        BY <4>4, <4>6, <4>7
    <3> QED
      BY <3>1, <3>2
  <2>10. KeysMatch' /\ CreatedCanLogIn'
    <3>1. KeysMatch' /\ \A v \in User \ raced' : record[v] # None => record'[v] = record[v]
      BY <1>3, <1>4, WriteKeepsRecords
    <3>2. raced \subseteq raced' /\ \A a \in created : a.user \in User
      BY <1>1, <1>4, WriteKeepsTypes DEF TypeOK
    <3> QED
      BY <1>1, <2>1, <3>1, <3>2 DEF CreatedCanLogIn
  <2> QED
    BY <2>6, <2>8, <2>9, <2>10 DEF AccountsInv
<1>7. CASE rest = <<>>
  <2> DEFINE new == [user |-> i.user, password |-> i.password, keys |-> i.keys]
  <2>1. /\ call' = [call EXCEPT ![c] = None]
        /\ session' = [session EXCEPT ![c] = [user |-> i.user, keys |-> i.keys]]
        /\ created' = created \cup {new}
    BY <1>2, <1>7 DEF DoSet
  <2>2. call'[c] = None /\ \A d \in Client \ {c} : call'[d] = call[d]
    BY <1>1, <2>1 DEF TypeOK
  <2>3. Open' = Open \ {i}
    BY <1>2, <1>3, <1>4, <1>5, <2>2 DEF Open
  <2>4. Numbered' /\ SetsDone' /\ KeysMatch'
    BY <1>3, <1>4, <2>2, <2>3, Closes
  <2>5. TypeOK'
    BY <1>1, <1>3, <1>4, <2>1, WriteKeepsTypes DEF TypeOK, Session
  <2>6. CreatedCanLogIn'
    <3>1. NextSet(i.todo) = "record" /\ Put(i)
      BY <1>2, <1>3, <1>4, <1>7, ToDoCases DEF Write
    <3>2. record' = [record EXCEPT ![i.user] = [password |-> i.password, keys |-> i.keys]]
      BY <3>1, PutEffect
    <3>3. record'[i.user] = [password |-> i.password, keys |-> i.keys] /\ record'[i.user] # None
      BY <1>1, <1>3, <3>2, AccountNoneAssumption DEF TypeOK, Record
    <3>4. \A v \in User \ raced' : record[v] # None => record'[v] = record[v]
      BY <1>3, <1>4, WriteKeepsRecords
    <3>5. raced \subseteq raced' /\ \A a \in created : a.user \in User
      BY <1>1, <1>4, WriteKeepsTypes DEF TypeOK
    <3> QED
      BY <1>1, <2>1, <3>3, <3>4, <3>5 DEF CreatedCanLogIn
  <2> QED
    BY <2>4, <2>5, <2>6 DEF AccountsInv
<1> QED
  BY <1>6, <1>7

\* A Set that was carried out, or none, leaves the created accounts their records.
LEMMA CreatedLast ==
    ASSUME AccountsInv, NEW i \in Open, Write(i) \/ NoWrite, created' = created
    PROVE  CreatedCanLogIn'
<1>1. CASE Write(i)
  <2>1. TypeOK /\ CreatedCanLogIn /\ i \in InitCall
    BY OpenTypes DEF AccountsInv
  <2>2. \A v \in User \ raced' : record[v] # None => record'[v] = record[v]
    BY <1>1, WriteKeepsRecords
  <2>3. raced \subseteq raced' /\ \A a \in created : a.user \in User
    BY <1>1, <2>1, WriteKeepsTypes DEF TypeOK
  <2> QED
    BY <2>1, <2>2, <2>3 DEF CreatedCanLogIn
<1>2. CASE NoWrite
  BY <1>2 DEF NoWrite, AccountsInv, CreatedCanLogIn
<1> QED
  BY <1>1, <1>2

\* A Set fails or the process dies: the Set is done, dropped or left for later.
LEMMA InterruptedStep ==
    ASSUME AccountsInv, NEW c \in Client, Interrupted(c)
    PROVE  AccountsInv'
<1>1. TypeOK /\ Numbered /\ SetsDone /\ KeysMatch
  BY DEF AccountsInv
<1>2. PICK i \in InitCall : i = call[c]
  BY <1>1 DEF Interrupted, TypeOK
<1>3. /\ i \in Open /\ i # None /\ i \notin late
      /\ \A d \in Client \ {c} : call[d] # i
  BY <1>1, <1>2 DEF Interrupted, Open, Numbered
<1>4. /\ call' = [call EXCEPT ![c] = None]
      /\ session' = session \/ session' = [session EXCEPT ![c] = None]
      /\ UNCHANGED <<drawn, newest, created>>
      /\ \/ (Write(i) \/ NoWrite) /\ late' = late
         \/ NoWrite /\ late' = late \cup {i}
  BY <1>2 DEF Interrupted
<1>5. call'[c] = None /\ \A d \in Client \ {c} : call'[d] = call[d]
  BY <1>1, <1>4 DEF TypeOK
<1>6. TypeOK'
  <2>1. CASE Write(i)
    BY <1>1, <1>4, <2>1, WriteKeepsTypes DEF TypeOK
  <2>2. CASE NoWrite
    BY <1>1, <1>4, <2>2 DEF TypeOK, NoWrite
  <2> QED
    BY <1>4, <2>1, <2>2
<1>7. CreatedCanLogIn'
  BY <1>3, <1>4, CreatedLast
<1>8. CASE (Write(i) \/ NoWrite) /\ late' = late
  <2>1. Open' = Open \ {i}
    BY <1>2, <1>3, <1>5, <1>8 DEF Open
  <2>2. Numbered' /\ SetsDone' /\ KeysMatch'
    BY <1>3, <1>4, <1>5, <1>8, <2>1, Closes
  <2> QED
    BY <1>6, <1>7, <2>2 DEF AccountsInv
<1>9. CASE NoWrite /\ late' = late \cup {i}
  <2>1. Open' = Open
    BY <1>2, <1>3, <1>5, <1>9 DEF Open
  <2>2. Numbered'
    <3>1. None \notin late /\ None # i
      BY <1>1, <1>3, AccountNoneAssumption DEF TypeOK
    <3> QED
      BY <1>1, <1>3, <1>4, <1>5, <1>9, <2>1, <3>1 DEF Numbered
  <2>3. SetsDone' /\ KeysMatch'
    BY <1>1, <1>4, <1>9, <2>1 DEF NoWrite, SetsDone, Newest, DoneSets, KeysMatch
  <2> QED
    BY <1>6, <1>7, <2>2, <2>3 DEF AccountsInv
<1> QED
  BY <1>4, <1>8, <1>9

\* The server gets to a Set whose call is over.
LEMMA LateSetStep ==
    ASSUME AccountsInv, NEW i \in late, LateSet(i)
    PROVE  AccountsInv'
<1>1. TypeOK /\ Numbered /\ i \in Open /\ i \in InitCall
  BY DEF AccountsInv, TypeOK, Open
<1>2. Write(i) /\ late' = late \ {i} /\ UNCHANGED <<call, session, drawn, newest, created>>
  BY DEF LateSet
<1>3. \A c \in Client : call[c] # i
  BY <1>1 DEF Numbered
<1>4. Open' = Open \ {i}
  BY <1>2, <1>3 DEF Open
<1>5. TypeOK'
  BY <1>1, <1>2, WriteKeepsTypes DEF TypeOK
<1>6. Numbered' /\ SetsDone' /\ KeysMatch'
  BY <1>1, <1>2, <1>4, Closes
<1>7. CreatedCanLogIn'
  BY <1>1, <1>2, CreatedLast
<1> QED
  BY <1>5, <1>6, <1>7 DEF AccountsInv

\* A step that leaves the store and the open calls alone keeps the invariant.
LEMMA AccountsUntouched ==
    ASSUME AccountsInv, TypeOK',
           UNCHANGED <<keyStore, record, call, late, drawn, newest, created, raced>>
    PROVE  AccountsInv'
<1>1. Open' = Open
  BY DEF Open
<1>2. Numbered' /\ SetsDone'
  BY <1>1 DEF AccountsInv, Numbered, SetsDone, Newest, DoneSets
<1>3. KeysMatch' /\ CreatedCanLogIn'
  BY DEF AccountsInv, KeysMatch, CreatedCanLogIn
<1> QED
  BY <1>2, <1>3 DEF AccountsInv

\* Every step keeps the invariant, one action after the other.
LEMMA AccountsStep == AccountsInv /\ [Next]_vars => AccountsInv'
<1> SUFFICES ASSUME AccountsInv, [Next]_vars PROVE AccountsInv'
  OBVIOUS
<1>1. ASSUME NEW c \in Client, NEW u \in User, NEW p \in Password, GetUser(c, u, p)
      PROVE  AccountsInv'
  <2>1. record[u] \in Record
    BY <1>1 DEF AccountsInv, TypeOK, GetUser
  <2>2. TypeOK'
    BY <1>1, <2>1 DEF AccountsInv, TypeOK, GetUser, Record, Session
  <2>3. UNCHANGED <<keyStore, record, call, late, drawn, newest, created, raced>>
    BY <1>1 DEF GetUser
  <2> QED
    BY <2>2, <2>3, AccountsUntouched
<1>2. CASE UNCHANGED vars
  <2>1. TypeOK'
    BY <1>2 DEF AccountsInv, TypeOK, vars
  <2> QED
    BY <1>2, <2>1, AccountsUntouched DEF vars
<1> QED
  BY <1>1, <1>2, BeginInitUserStep, DoSetStep, InterruptedStep, LateSetStep DEF Next

\* The inductive invariant holds always.
LEMMA AccountsInvariant == Spec => []AccountsInv
  BY InitAccounts, AccountsStep, PTL DEF Spec

\* Type correctness of the key store, the records and the calls under way.
THEOREM AccountTypes == Spec => []TypeOK
<1>1. AccountsInv => TypeOK
  BY DEF AccountsInv
<1> QED
  BY <1>1, AccountsInvariant, PTL

\* The published keys are those of the stored record, whatever InitUser calls failed or
\* died half way, unless one wrote for the name after a newer one had begun.
THEOREM PublishedKeysMatch == Spec => []KeysMatch
<1>1. AccountsInv => KeysMatch
  BY DEF AccountsInv
<1> QED
  BY <1>1, AccountsInvariant, PTL

\* An account whose creation succeeded keeps its record, with the same exception.
THEOREM AccountsLast == Spec => []CreatedCanLogIn
<1>1. AccountsInv => CreatedCanLogIn
  BY DEF AccountsInv
<1> QED
  BY <1>1, AccountsInvariant, PTL
=============================================================================
