--------------------------- MODULE SessionsProofs ---------------------------
(***************************************************************************)
(* Session files stay whole and keep what was stored, for any number of    *)
(* requests and workers and however many workers are killed.               *)
(***************************************************************************)
EXTENDS Sessions, SequenceTheorems, FiniteSetTheorems, TLAPS

(* What makes FileWhole and Kept inductive. *)

(* The client only knows sessions that were written, so that a request with *)
(* a cookie goes on with its session and no other (files.py:30-44).         *)
Known ==
    /\ jar # None => store[jar] # None
    /\ \A r \in Requests :
          /\ cookie[r] # None => store[cookie[r]] # None
          /\ state[r] \in {"loaded", "saving", "saved", "done"} =>
                session[r].uuid = IF cookie[r] = None THEN r ELSE cookie[r]
          /\ state[r] \in {"saving", "saved"} =>
                session[r].pending_flush /\ store[session[r].uuid] # None
          /\ \A q \in seen[r] : state[q] \in {"done", "failed"}

(* The file of a request that saves alone is empty until it writes. *)
Alone ==
    \A r \in Requests : state[r] = "saving" /\ session[r].uuid \notin spoiled =>
        Saving(session[r].uuid) = {r} /\ store[session[r].uuid] = <<>>

(* What a request set is found nowhere before it set it. *)
Origin ==
    \A r \in Requests : ~session[r].pending_flush =>
        /\ \A q \in Requests : r \notin session[q].values
        /\ \A id \in Requests : store[id] # None =>
              \A i \in DOMAIN store[id] : r \notin store[id][i]

(* r stored what it set, and no request that has saved can have undone it.  *)
Rivals(r) == {q \in Requests \ {r} :
                /\ state[q] \in {"saved", "done"} /\ session[q].pending_flush
                /\ q \in cleared \/ (r \notin seen[q] /\ q \notin seen[r])}
Stands(r) == state[r] \in {"saved", "done"} /\ r \in session[r].values /\ Rivals(r) = {}

(* The client goes on with the session of an answered request that stands;  *)
(* what stands is in its file, unless that is spoiled or being written, and *)
(* in what later requests loaded from it and did not clear.                 *)
Lasts(r, id) ==
    /\ state[r] = "done" => jar = id
    /\ \A q \in Requests : r \in seen[q] => cookie[q] = id
    /\ id \notin spoiled /\ Saving(id) = {} => r \in Head(store[id])
    /\ \A q \in Requests :
          /\ id \notin spoiled /\ r \in seen[q]
          /\ state[q] \in {"loaded", "saving"} /\ q \notin cleared
          => r \in session[q].values
Standing == \A r \in Requests : Stands(r) => Lasts(r, session[r].uuid)

IInv == TypeOK /\ FileWhole /\ Known /\ Alone /\ Origin /\ Standing

-----------------------------------------------------------------------------
(* A dump is a sequence that loads, and gives back what was dumped. *)
LEMMA DumpProperties ==
    ASSUME NEW v \in Values
    PROVE  /\ Dumps(v) \in Seq(Values) /\ Len(Dumps(v)) \in Nat /\ Loadable(Dumps(v))
           /\ Head(Dumps(v)) = v
           /\ \A i \in DOMAIN Dumps(v) : Dumps(v)[i] = v
<1> DEFINE n == Cardinality(v) + 1
<1>1. n \in Nat /\ n > 0
  BY FS_CardinalityType DEF Values
<1> HIDE DEF n
<1>2. Dumps(v) = [i \in 1 .. n |-> v]
  BY DEF Dumps, n
<1>3. Dumps(v) \in Seq(Values) /\ Len(Dumps(v)) = n /\ DOMAIN Dumps(v) = 1 .. n
  BY <1>1, <1>2
<1>4. Dumps(v) # <<>> /\ Head(Dumps(v)) = v
  BY <1>1, <1>2, <1>3
<1>5. Loadable(Dumps(v))
  BY <1>4 DEF Loadable
<1> QED
  BY <1>1, <1>2, <1>3, <1>4, <1>5

(* What a write leaves in a file: a sequence that begins with the dump, is  *)
(* made of its elements and old ones, and is the dump if nothing was there. *)
Over(dump, old) == dump \o SubSeq(old, Len(dump) + 1, Len(old))

LEMMA OverProperties ==
    ASSUME NEW v \in Values, NEW old \in Seq(Values)
    PROVE  LET new == Over(Dumps(v), old)
           IN /\ new \in Seq(Values)
              /\ \A i \in DOMAIN new : new[i] = v \/ \E j \in DOMAIN old : new[i] = old[j]
              /\ old = <<>> => new = Dumps(v)
<1> DEFINE d == Dumps(v)
           rest == SubSeq(old, Len(d) + 1, Len(old))
<1>1. d \in Seq(Values) /\ Len(d) \in Nat /\ \A i \in DOMAIN d : d[i] = v
  BY DumpProperties
<1> HIDE DEF d
<1>2. Len(old) \in Nat /\ \A i \in Len(d) + 1 .. Len(old) : old[i] \in Values
  BY <1>1
<1>3. /\ rest \in Seq(Values)
      /\ Len(rest) = IF Len(d) + 1 <= Len(old) THEN Len(old) - Len(d) ELSE 0
      /\ \A i \in 1 .. Len(old) - Len(d) : rest[i] = old[Len(d) + i]
  <2>1. Len(d) + 1 \in Int /\ Len(old) \in Int
    BY <1>1, <1>2
  <2>2. /\ rest \in Seq(Values)
        /\ Len(rest) = IF Len(d) + 1 <= Len(old) THEN Len(old) - (Len(d) + 1) + 1 ELSE 0
        /\ \A i \in 1 .. Len(old) - (Len(d) + 1) + 1 : rest[i] = old[Len(d) + 1 + i - 1]
    BY <1>2, <2>1, SubSeqProperties
  <2> HIDE DEF rest
  <2> QED
    BY <1>1, <1>2, <2>2
<1>4. \A j \in DOMAIN rest : rest[j] = old[Len(d) + j] /\ Len(d) + j \in DOMAIN old
  <2> SUFFICES ASSUME NEW j \in DOMAIN rest
               PROVE  rest[j] = old[Len(d) + j] /\ Len(d) + j \in DOMAIN old
    OBVIOUS
  <2> HIDE DEF rest
  <2>1. DOMAIN rest = 1 .. Len(rest) /\ DOMAIN old = 1 .. Len(old)
    BY <1>3
  <2>2. Len(d) + 1 <= Len(old) /\ j \in 1 .. Len(old) - Len(d)
    <3>1. Len(rest) = IF Len(d) + 1 <= Len(old) THEN Len(old) - Len(d) ELSE 0
      BY <1>3
    <3>2. j \in 1 .. Len(rest) /\ Len(d) \in Nat /\ Len(old) \in Nat
      BY <1>1, <1>2, <2>1
    <3> QED
      BY <3>1, <3>2
  <2>3. rest[j] = old[Len(d) + j]
    BY <1>3, <2>2
  <2> QED
    BY <1>1, <1>2, <2>1, <2>2, <2>3
<1>5. old = <<>> => rest = <<>>
  BY <1>1, <1>3
<1> HIDE DEF rest
<1>6. d \o rest \in Seq(Values) /\ (rest = <<>> => d \o rest = d)
  BY <1>1, <1>3
<1>7. \A i \in DOMAIN (d \o rest) : (d \o rest)[i] = v \/ \E j \in DOMAIN old : (d \o rest)[i] = old[j]
  <2> SUFFICES ASSUME NEW i \in DOMAIN (d \o rest)
               PROVE  (d \o rest)[i] = v \/ \E j \in DOMAIN old : (d \o rest)[i] = old[j]
    OBVIOUS
  <2>1. i \in 1 .. Len(d) + Len(rest) /\ Len(rest) \in Nat
    BY <1>1, <1>3
  <2>2. CASE i <= Len(d)
    BY <1>1, <1>3, <2>1, <2>2
  <2>3. CASE i > Len(d)
    <3>1. (d \o rest)[i] = rest[i - Len(d)] /\ i - Len(d) \in DOMAIN rest
      BY <1>1, <1>3, <2>1, <2>3
    <3> QED
      BY <1>4, <3>1
  <2> QED
    BY <1>1, <2>1, <2>2, <2>3
<1> QED
  BY <1>5, <1>6, <1>7 DEF Over, d, rest

-----------------------------------------------------------------------------
(* The invariant holds when no request was sent yet. *)
LEMMA InitInvariant == Init => IInv
<1> SUFFICES ASSUME Init PROVE IInv
  OBVIOUS
<1>1. {} \in Values
  BY FS_EmptySet DEF Values
<1>2. TypeOK
  BY <1>1 DEF Init, TypeOK, NoSession, Files, SessionValues
<1>3. FileWhole
  BY DEF Init, FileWhole
<1>4. Known /\ Alone
  BY NoneAssumption DEF Init, Known, Alone
<1>5. Origin
  BY DEF Init, Origin, NoSession
<1>6. Standing
  BY DEF Init, Standing, Stands
<1> QED
  BY <1>2, <1>3, <1>4, <1>5, <1>6 DEF IInv

(* A file that exists is a sequence of dumps; one that loads is not empty,  *)
(* and begins with a set of requests.                                       *)
LEMMA FileProperties ==
    ASSUME TypeOK, NEW id \in Requests, store[id] # None
    PROVE  /\ store[id] \in Seq(Values)
           /\ store[id] # <<>> => Head(store[id]) \in Values /\ 1 \in DOMAIN store[id]
                                  /\ Head(store[id]) = store[id][1]
<1>1. store[id] \in Seq(Values)
  BY DEF TypeOK, Files
<1>2. ASSUME store[id] # <<>>
      PROVE  Head(store[id]) \in Values /\ 1 \in DOMAIN store[id]
             /\ Head(store[id]) = store[id][1]
  BY <1>1, <1>2
<1> QED
  BY <1>1, <1>2

(* A sequence of dumps is not None. *)
LEMMA SequenceIsNotNone == <<>> # None /\ \A s \in Seq(Values) : s # None
<1>0. <<>> \in Seq(Values)
  OBVIOUS
<1> SUFFICES ASSUME NEW s \in Seq(Values) PROVE s \in Seq(SUBSET Requests)
  BY <1>0, NoneAssumption
<1>1. Len(s) \in Nat /\ s \in [1 .. Len(s) -> Values]
  OBVIOUS
<1>2. s \in [1 .. Len(s) -> SUBSET Requests]
  BY <1>1 DEF Values
<1> HIDE DEF Values
<1> QED
  BY <1>1, <1>2

(* The types are kept. *)
LEMMA TypeStep ==
    ASSUME IInv, [Next]_vars
    PROVE  TypeOK'
<1> USE DEF TypeOK
<1>1. TypeOK
  BY DEF IInv
<1>2. ASSUME NEW r \in Requests, Send(r)
      PROVE  TypeOK'
  BY <1>1, <1>2 DEF Send, To, faults
<1>3. ASSUME NEW r \in Requests, Load(r)
      PROVE  TypeOK'
  <2> DEFINE id == cookie[r]
             known == id # None /\ store[id] # None
             values == IF known THEN Head(store[id]) ELSE {}
             uuid == IF known THEN id ELSE r
  <2>1. \/ UNCHANGED session
        \/ /\ known => Loadable(store[id])
           /\ session' = [session EXCEPT ![r].values = values, ![r].uuid = uuid]
    BY <1>3 DEF Load
  <2>2. {} \in Values
    BY FS_EmptySet DEF Values
  <2>3. known => id \in Requests
    BY <1>1
  <2>4. known /\ Loadable(store[id]) => Head(store[id]) \in Values
    BY <1>1, <2>3, FileProperties DEF Loadable
  <2>5. (known => Loadable(store[id])) => values \in Values /\ uuid \in Requests
    BY <2>2, <2>3, <2>4
  <2> HIDE DEF known, values, uuid
  <2>6. session' \in [Requests -> SessionValues]
    BY <1>1, <2>1, <2>5 DEF SessionValues
  <2> QED
    BY <1>1, <1>3, <2>6 DEF Load, To, client, faults
<1>4. ASSUME NEW r \in Requests, SetItem(r)
      PROVE  TypeOK'
  <2>1. session[r].values \cup {r} \in Values
    BY <1>1, FS_AddElement DEF Values, SessionValues
  <2> QED
    BY ZenonT(60), <1>1, <1>4, <2>1 DEF SessionValues, SetItem, client, faults
<1>5. ASSUME NEW r \in Requests, Clear(r)
      PROVE  TypeOK'
  <2>1. {} \in Values
    BY FS_EmptySet DEF Values
  <2> QED
    BY ZenonT(60), <1>1, <1>5, <2>1 DEF SessionValues, Clear, client, faults
<1>6. ASSUME NEW r \in Requests, Raise(r)
      PROVE  TypeOK'
  BY <1>1, <1>6 DEF Raise, To, client, faults
<1>7. ASSUME NEW r \in Requests, Flush(r)
      PROVE  TypeOK'
  <2>1. session[r].pending_flush => session[r].uuid \in Requests
    BY <1>1, <1>7 DEF SessionValues, Flush, IInv, Known
  <2>2. <<>> \in Files
    BY DEF Files
  <2> QED
    BY <1>1, <1>7, <2>1, <2>2 DEF Flush, To, client
<1>8. ASSUME NEW r \in Requests, Write(r)
      PROVE  TypeOK'
  <2> DEFINE id == session[r].uuid
             new == Over(Dumps(session[r].values), store[id])
  <2>1. id \in Requests /\ store[id] # None
    BY <1>1, <1>8 DEF Write, IInv, Known
  <2>2. session[r].values \in Values
    BY <1>1 DEF SessionValues
  <2>3. new \in Files
    BY <1>1, <2>1, <2>2, FileProperties, OverProperties DEF Files
  <2>4. store' = [store EXCEPT ![id] = new]
    BY <1>8 DEF Write, Over
  <2>5. To(r, "saved") /\ UNCHANGED <<client, session, cleared, faults>>
    BY <1>8 DEF Write
  <2> HIDE DEF new
  <2> QED
    BY <1>1, <2>3, <2>4, <2>5 DEF To, client, faults
<1>9. ASSUME NEW r \in Requests, Answer(r)
      PROVE  TypeOK'
  <2>1. session[r].uuid \in Requests \cup {None}
    BY <1>1 DEF SessionValues
  <2> QED
    BY <1>1, <1>9, <2>1 DEF Answer, To, faults
<1>10. ASSUME NEW w \in Workers, Die(w)
       PROVE  TypeOK'
  <2>1. \A q \in Requests : state[q] = "saving" => session[q].uuid \in Requests
    BY <1>1 DEF IInv, Known
  <2> QED
    BY <1>1, <1>10, <2>1 DEF Die, client
<1>11. CASE UNCHANGED vars
  BY <1>1, <1>11 DEF vars
<1> QED
  BY <1>2, <1>3, <1>4, <1>5, <1>6, <1>7, <1>8, <1>9, <1>10, <1>11 DEF Next

(* What the steps of a request that touch more than its own state do, at    *)
(* each request and each file.                                              *)
LEMMA LoadEffect ==
    ASSUME TypeOK, NEW r \in Requests, Load(r)
    PROVE  LET id == cookie[r]
               known == id # None /\ store[id] # None
           IN /\ state[r] = "sent"
              /\ UNCHANGED <<jar, where, cookie, seen, store, cleared, spoiled>>
              /\ \A q \in Requests \ {r} : state'[q] = state[q] /\ session'[q] = session[q]
              /\ session'[r].pending_flush = session[r].pending_flush
              /\ \/ state'[r] = "failed" /\ session'[r] = session[r]
                 \/ /\ state'[r] = "loaded" /\ (known => Loadable(store[id]))
                    /\ session'[r].values = IF known THEN Head(store[id]) ELSE {}
                    /\ session'[r].uuid = IF known THEN id ELSE r
<1> DEFINE id == cookie[r]
           known == id # None /\ store[id] # None
           values == IF known THEN Head(store[id]) ELSE {}
           uuid == IF known THEN id ELSE r
<1>1. /\ state[r] = "sent" /\ UNCHANGED <<client, store, cleared, faults>>
      /\ \/ To(r, "failed") /\ UNCHANGED session
         \/ /\ To(r, "loaded") /\ (known => Loadable(store[id]))
            /\ session' = [session EXCEPT ![r].values = values, ![r].uuid = uuid]
  BY DEF Load
<1>2. session \in [Requests -> SessionValues] /\ DOMAIN state = Requests
  BY DEF TypeOK
<1> HIDE DEF known, values, uuid
<1>3. \A q \in Requests \ {r} : state'[q] = state[q] /\ session'[q] = session[q]
  BY <1>1, <1>2 DEF To
<1>4. \/ state'[r] = "failed" /\ session'[r] = session[r]
      \/ /\ state'[r] = "loaded" /\ (known => Loadable(store[id]))
         /\ session'[r].values = values /\ session'[r].uuid = uuid
         /\ session'[r].pending_flush = session[r].pending_flush
  BY <1>1, <1>2 DEF To, SessionValues
<1> QED
  BY <1>1, <1>3, <1>4 DEF client, faults, known, values, uuid

LEMMA FlushEffect ==
    ASSUME TypeOK, Known, NEW r \in Requests, Flush(r)
    PROVE  LET id == session[r].uuid
           IN /\ state[r] = "loaded" /\ UNCHANGED <<jar, where, cookie, seen, session, cleared>>
              /\ \A q \in Requests \ {r} : state'[q] = state[q]
              /\ \/ ~session[r].pending_flush /\ state'[r] = "done" /\ UNCHANGED <<store, spoiled>>
                 \/ /\ session[r].pending_flush /\ state'[r] = "saving"
                    /\ id \in Requests /\ store'[id] = <<>>
                    /\ \A x \in Requests \ {id} : store'[x] = store[x]
                    /\ spoiled' = IF Saving(id) = {} THEN spoiled ELSE spoiled \cup {id}
<1> DEFINE id == session[r].uuid
           worse == IF Saving(id) = {} THEN spoiled ELSE spoiled \cup {id}
<1>1. /\ state[r] = "loaded" /\ UNCHANGED <<client, session, cleared>>
      /\ \/ ~session[r].pending_flush /\ To(r, "done") /\ UNCHANGED <<store, spoiled>>
         \/ /\ session[r].pending_flush /\ To(r, "saving")
            /\ store' = [store EXCEPT ![id] = <<>>] /\ spoiled' = worse
  BY DEF Flush
<1>2. id \in Requests
  BY <1>1 DEF TypeOK, Known
<1> HIDE DEF worse, id
<1>3. DOMAIN state = Requests /\ DOMAIN store = Requests
  BY DEF TypeOK
<1>4. \A q \in Requests \ {r} : state'[q] = state[q]
  BY <1>1, <1>3 DEF To
<1>5. \/ ~session[r].pending_flush /\ state'[r] = "done" /\ UNCHANGED <<store, spoiled>>
      \/ /\ session[r].pending_flush /\ state'[r] = "saving"
         /\ store'[id] = <<>> /\ \A x \in Requests \ {id} : store'[x] = store[x]
         /\ spoiled' = worse
  BY <1>1, <1>2, <1>3 DEF To
<1> QED
  BY <1>1, <1>2, <1>4, <1>5 DEF client, worse, id

LEMMA WriteEffect ==
    ASSUME TypeOK, Known, NEW r \in Requests, Write(r)
    PROVE  LET id == session[r].uuid
               values == session[r].values
           IN /\ state[r] = "saving" /\ state'[r] = "saved"
              /\ UNCHANGED <<jar, where, cookie, seen, session, cleared, spoiled>>
              /\ \A q \in Requests \ {r} : state'[q] = state[q]
              /\ id \in Requests /\ store[id] # None
              /\ store'[id] = Over(Dumps(values), store[id]) /\ store'[id] \in Seq(Values)
              /\ \A i \in DOMAIN store'[id] :
                    store'[id][i] = values \/ \E j \in DOMAIN store[id] : store'[id][i] = store[id][j]
              /\ store[id] = <<>> => Loadable(store'[id]) /\ Head(store'[id]) = values
              /\ \A x \in Requests \ {id} : store'[x] = store[x]
<1> DEFINE id == session[r].uuid
           values == session[r].values
           new == Over(Dumps(values), store[id])
<1>1. /\ state[r] = "saving" /\ UNCHANGED <<client, session, cleared, faults>>
      /\ To(r, "saved") /\ store' = [store EXCEPT ![id] = new]
  BY DEF Write, Over
<1>2. id \in Requests /\ store[id] # None /\ values \in Values
  BY <1>1 DEF TypeOK, SessionValues, Known
<1>3. store[id] \in Seq(Values)
  BY <1>2, FileProperties
<1>4. /\ new \in Seq(Values)
      /\ \A i \in DOMAIN new : new[i] = values \/ \E j \in DOMAIN store[id] : new[i] = store[id][j]
      /\ store[id] = <<>> => new = Dumps(values)
  BY <1>2, <1>3, OverProperties
<1>5. Loadable(Dumps(values)) /\ Head(Dumps(values)) = values
  BY <1>2, DumpProperties
<1> HIDE DEF id, values, new
<1>6. DOMAIN state = Requests /\ DOMAIN store = Requests
  BY DEF TypeOK
<1>7. state'[r] = "saved" /\ \A q \in Requests \ {r} : state'[q] = state[q]
  BY <1>1, <1>6 DEF To
<1>8. store'[id] = new /\ \A x \in Requests \ {id} : store'[x] = store[x]
  BY <1>1, <1>2, <1>6
<1>9. /\ \A i \in DOMAIN store'[id] :
            store'[id][i] = values \/ \E j \in DOMAIN store[id] : store'[id][i] = store[id][j]
      /\ store[id] = <<>> => Loadable(store'[id]) /\ Head(store'[id]) = values
  BY <1>4, <1>5, <1>8
<1> QED
  BY <1>1, <1>2, <1>4, <1>7, <1>8, <1>9 DEF client, faults, id, values, new

(* The client and its requests only know sessions that were written.      *)
LEMMA KnownStep ==
    ASSUME IInv, [Next]_vars
    PROVE  Known'
<1>1. TypeOK /\ TypeOK'
  BY TypeStep DEF IInv
<1>2. ASSUME NEW r \in Requests, Send(r)
      PROVE  Known'
  BY <1>1, <1>2 DEF IInv, TypeOK, SessionValues, Known, Send, To, faults
<1>3. ASSUME NEW r \in Requests, Load(r)
      PROVE  Known'
  <2>1. /\ \A q \in Requests \ {r} : state'[q] = state[q] /\ session'[q] = session[q]
        /\ UNCHANGED <<jar, store, cookie, seen>>
        /\ state[r] = "sent" /\ state'[r] \in {"failed", "loaded"}
    BY <1>1, <1>3, LoadEffect
  <2>2. state'[r] = "loaded" =>
           session'[r].uuid = IF cookie[r] = None THEN r ELSE cookie[r]
    BY <1>1, <1>3, LoadEffect DEF IInv, TypeOK, Known
  <2> QED
    BY <2>1, <2>2 DEF IInv, TypeOK, Known
<1>4. ASSUME NEW r \in Requests, SetItem(r)
      PROVE  Known'
  BY <1>1, <1>4 DEF IInv, TypeOK, SessionValues, Known, SetItem, client, faults
<1>5. ASSUME NEW r \in Requests, Clear(r)
      PROVE  Known'
  BY <1>1, <1>5 DEF IInv, TypeOK, SessionValues, Known, Clear, client, faults
<1>6. ASSUME NEW r \in Requests, Raise(r)
      PROVE  Known'
  BY <1>1, <1>6 DEF IInv, TypeOK, SessionValues, Known, Raise, To, client, faults
<1>7. ASSUME NEW r \in Requests, Flush(r)
      PROVE  Known'
  <2>0. <<>> # None
    BY SequenceIsNotNone
  <2>1. \A x \in Requests : store[x] # None => store'[x] # None
    BY <1>1, <1>7, <2>0, FlushEffect DEF IInv
  <2>2. \A q \in Requests : state'[q] = state[q] \/ q = r
    BY <1>1, <1>7, FlushEffect DEF IInv
  <2> QED
    BY <1>1, <1>7, <2>0, <2>1, <2>2, FlushEffect DEF IInv, TypeOK, Known
<1>8. ASSUME NEW r \in Requests, Write(r)
      PROVE  Known'
  <2>1. \A x \in Requests : store[x] # None => store'[x] # None
    BY <1>1, <1>8, WriteEffect, SequenceIsNotNone DEF IInv
  <2> QED
    BY <1>1, <1>8, <2>1, WriteEffect DEF IInv, TypeOK, Known
<1>9. ASSUME NEW r \in Requests, Answer(r)
      PROVE  Known'
  BY <1>1, <1>9 DEF IInv, TypeOK, SessionValues, Known, Answer, To, faults
<1>10. ASSUME NEW w \in Workers, Die(w)
       PROVE  Known'
  BY <1>1, <1>10 DEF IInv, TypeOK, SessionValues, Known, Die, client
<1>11. CASE UNCHANGED vars
  BY <1>11 DEF IInv, TypeOK, SessionValues, Known, vars
<1> QED
  BY <1>2, <1>3, <1>4, <1>5, <1>6, <1>7, <1>8, <1>9, <1>10, <1>11 DEF Next

(* What a request set is found nowhere before it set it. *)
LEMMA OriginStep ==
    ASSUME IInv, [Next]_vars
    PROVE  Origin'
<1>1. TypeOK /\ TypeOK'
  BY TypeStep DEF IInv
<1>2. ASSUME NEW r \in Requests, Send(r)
      PROVE  Origin'
  BY <1>1, <1>2 DEF IInv, TypeOK, SessionValues, Origin, Send, To, faults
<1>3. ASSUME NEW r \in Requests, Load(r)
      PROVE  Origin'
  <2> DEFINE id == cookie[r]
  <2>1. session'[r].values # session[r].values /\ session'[r].values # {}
        => /\ id \in Requests /\ store[id] # None /\ 1 \in DOMAIN store[id]
           /\ session'[r].values = store[id][1]
    BY <1>1, <1>3, LoadEffect, FileProperties DEF TypeOK, Loadable
  <2> HIDE DEF id
  <2>2. /\ store' = store /\ \A q \in Requests \ {r} : session'[q] = session[q]
        /\ session'[r].pending_flush = session[r].pending_flush
    BY <1>1, <1>3, LoadEffect
  <2>3. \A p \in Requests : ~session[p].pending_flush => p \notin session'[r].values
    BY <2>1 DEF IInv, Origin
  <2>4. \A p, q \in Requests : ~session'[p].pending_flush => p \notin session'[q].values
    BY <2>2, <2>3 DEF IInv, Origin
  <2> QED
    BY <2>2, <2>4 DEF IInv, Origin
<1>4. ASSUME NEW r \in Requests, SetItem(r)
      PROVE  Origin'
  BY <1>1, <1>4 DEF IInv, TypeOK, SessionValues, Origin, SetItem, client, faults
<1>5. ASSUME NEW r \in Requests, Clear(r)
      PROVE  Origin'
  BY <1>1, <1>5 DEF IInv, TypeOK, SessionValues, Origin, Clear, client, faults
<1>6. ASSUME NEW r \in Requests, Raise(r)
      PROVE  Origin'
  BY <1>1, <1>6 DEF IInv, TypeOK, SessionValues, Origin, Raise, To, client, faults
<1>7. ASSUME NEW r \in Requests, Flush(r)
      PROVE  Origin'
  BY <1>1, <1>7, FlushEffect DEF IInv, Origin
<1>8. ASSUME NEW r \in Requests, Write(r)
      PROVE  Origin'
  BY SMTT(30), <1>1, <1>8, WriteEffect DEF IInv, Origin
<1>9. ASSUME NEW r \in Requests, Answer(r)
      PROVE  Origin'
  BY <1>1, <1>9 DEF IInv, TypeOK, SessionValues, Origin, Answer, To, faults
<1>10. ASSUME NEW w \in Workers, Die(w)
       PROVE  Origin'
  BY <1>1, <1>10 DEF IInv, TypeOK, SessionValues, Origin, Die, client
<1>11. CASE UNCHANGED vars
  BY <1>11 DEF IInv, TypeOK, SessionValues, Origin, vars
<1> QED
  BY <1>2, <1>3, <1>4, <1>5, <1>6, <1>7, <1>8, <1>9, <1>10, <1>11 DEF Next

(* Nobody writes to the file of a request that saves alone. *)
LEMMA AloneStep ==
    ASSUME IInv, [Next]_vars
    PROVE  Alone'
<1>1. TypeOK /\ TypeOK'
  BY TypeStep DEF IInv
<1>2. ASSUME NEW r \in Requests, Send(r)
      PROVE  Alone'
  BY <1>1, <1>2 DEF IInv, TypeOK, SessionValues, Known, Alone, Saving, Send, To, faults
<1>3. ASSUME NEW r \in Requests, Load(r)
      PROVE  Alone'
  BY <1>1, <1>3, LoadEffect DEF IInv, TypeOK, Known, Alone, Saving
<1>4. ASSUME NEW r \in Requests, SetItem(r)
      PROVE  Alone'
  BY <1>1, <1>4 DEF IInv, TypeOK, SessionValues, Known, Alone, Saving, SetItem, client, faults
<1>5. ASSUME NEW r \in Requests, Clear(r)
      PROVE  Alone'
  BY <1>1, <1>5 DEF IInv, TypeOK, SessionValues, Known, Alone, Saving, Clear, client, faults
<1>6. ASSUME NEW r \in Requests, Raise(r)
      PROVE  Alone'
  BY <1>1, <1>6 DEF IInv, TypeOK, SessionValues, Known, Alone, Saving, Raise, To, client, faults
<1>7. ASSUME NEW r \in Requests, Flush(r)
      PROVE  Alone'
  BY <1>1, <1>7, FlushEffect DEF IInv, TypeOK, Known, Alone, Saving
<1>8. ASSUME NEW r \in Requests, Write(r)
      PROVE  Alone'
  BY <1>1, <1>8, WriteEffect DEF IInv, TypeOK, Known, Alone, Saving
<1>9. ASSUME NEW r \in Requests, Answer(r)
      PROVE  Alone'
  BY <1>1, <1>9 DEF IInv, TypeOK, SessionValues, Known, Alone, Saving, Answer, To, faults
<1>10. ASSUME NEW w \in Workers, Die(w)
       PROVE  Alone'
  BY <1>1, <1>10 DEF IInv, TypeOK, SessionValues, Known, Alone, Saving, Die, client
<1>11. CASE UNCHANGED vars
  BY <1>11 DEF IInv, TypeOK, SessionValues, Known, Alone, Saving, vars
<1> QED
  BY <1>2, <1>3, <1>4, <1>5, <1>6, <1>7, <1>8, <1>9, <1>10, <1>11 DEF Next

(* A file nobody is writing is whole, unless it is spoiled. *)
LEMMA FileStep ==
    ASSUME IInv, [Next]_vars
    PROVE  FileWhole'
<1>1. TypeOK /\ TypeOK'
  BY TypeStep DEF IInv
<1>2. ASSUME NEW r \in Requests, Send(r)
      PROVE  FileWhole'
  BY <1>1, <1>2 DEF IInv, TypeOK, SessionValues, FileWhole, Saving, Send, To, faults
<1>3. ASSUME NEW r \in Requests, Load(r)
      PROVE  FileWhole'
  BY <1>1, <1>3, LoadEffect DEF IInv, TypeOK, Known, FileWhole, Alone, Saving
<1>4. ASSUME NEW r \in Requests, SetItem(r)
      PROVE  FileWhole'
  BY <1>1, <1>4 DEF IInv, TypeOK, SessionValues, FileWhole, Saving, SetItem, client, faults
<1>5. ASSUME NEW r \in Requests, Clear(r)
      PROVE  FileWhole'
  BY <1>1, <1>5 DEF IInv, TypeOK, SessionValues, FileWhole, Saving, Clear, client, faults
<1>6. ASSUME NEW r \in Requests, Raise(r)
      PROVE  FileWhole'
  BY <1>1, <1>6 DEF IInv, TypeOK, SessionValues, FileWhole, Saving, Raise, To, client, faults
<1>7. ASSUME NEW r \in Requests, Flush(r)
      PROVE  FileWhole'
  BY <1>1, <1>7, FlushEffect DEF IInv, TypeOK, Known, FileWhole, Alone, Saving
<1>8. ASSUME NEW r \in Requests, Write(r)
      PROVE  FileWhole'
  BY <1>1, <1>8, WriteEffect DEF IInv, TypeOK, Known, FileWhole, Alone, Saving
<1>9. ASSUME NEW r \in Requests, Answer(r)
      PROVE  FileWhole'
  BY <1>1, <1>9 DEF IInv, TypeOK, SessionValues, FileWhole, Saving, Answer, To, faults
<1>10. ASSUME NEW w \in Workers, Die(w)
       PROVE  FileWhole'
  BY ZenonT(60), <1>1, <1>10 DEF IInv, TypeOK, SessionValues, FileWhole, Saving, Die, client
<1>11. CASE UNCHANGED vars
  BY <1>11 DEF IInv, TypeOK, SessionValues, FileWhole, Saving, vars
<1> QED
  BY <1>2, <1>3, <1>4, <1>5, <1>6, <1>7, <1>8, <1>9, <1>10, <1>11 DEF Next

(* What is settled of a request: what it was sent with, once it was sent;   *)
(* its state, its session and whether it cleared it, once it has saved.     *)
Past(q) ==
    /\ state[q] # "new" => seen'[q] = seen[q] /\ cookie'[q] = cookie[q]
    /\ state[q] \in {"saved", "done"} =>
          /\ state'[q] \in {"saved", "done"} /\ session'[q] = session[q]
          /\ state[q] = "done" => state'[q] = "done"
          /\ q \in cleared' => q \in cleared
    /\ state'[q] \in {"saved", "done"} /\ session'[q].pending_flush =>
          session'[q] = session[q] /\ state[q] \in {"saving", "saved", "done"}
    /\ state[q] = "saving" => state'[q] # "done"
    /\ q \in cleared => q \in cleared'
    /\ q \in spoiled => q \in spoiled'

(* No step changes what is settled. *)
LEMMA PastStep ==
    ASSUME IInv, [Next]_vars
    PROVE  \A q \in Requests : Past(q)
<1>1. TypeOK /\ TypeOK'
  BY TypeStep DEF IInv
<1>2. ASSUME NEW r \in Requests, Send(r)
      PROVE  \A q \in Requests : Past(q)
  BY <1>1, <1>2 DEF IInv, TypeOK, SessionValues, Known, Past, Send, To, faults
<1>3. ASSUME NEW r \in Requests, Load(r)
      PROVE  \A q \in Requests : Past(q)
  BY <1>1, <1>3, LoadEffect DEF IInv, TypeOK, SessionValues, Known, Past
<1>4. ASSUME NEW r \in Requests, SetItem(r)
      PROVE  \A q \in Requests : Past(q)
  BY <1>1, <1>4 DEF IInv, TypeOK, SessionValues, Known, Past, SetItem, client, faults
<1>5. ASSUME NEW r \in Requests, Clear(r)
      PROVE  \A q \in Requests : Past(q)
  BY <1>1, <1>5 DEF IInv, TypeOK, SessionValues, Known, Past, Clear, client, faults
<1>6. ASSUME NEW r \in Requests, Raise(r)
      PROVE  \A q \in Requests : Past(q)
  BY <1>1, <1>6 DEF IInv, TypeOK, SessionValues, Known, Past, Raise, To, client, faults
<1>7. ASSUME NEW r \in Requests, Flush(r)
      PROVE  \A q \in Requests : Past(q)
  <2>1. \A q \in spoiled : q \in spoiled'
    BY <1>1, <1>7, FlushEffect DEF IInv
  <2> QED
    BY <1>1, <1>7, <2>1, FlushEffect DEF IInv, TypeOK, Past
<1>8. ASSUME NEW r \in Requests, Write(r)
      PROVE  \A q \in Requests : Past(q)
  BY <1>1, <1>8, WriteEffect DEF IInv, TypeOK, SessionValues, Known, Past
<1>9. ASSUME NEW r \in Requests, Answer(r)
      PROVE  \A q \in Requests : Past(q)
  BY <1>1, <1>9 DEF IInv, TypeOK, SessionValues, Known, Past, Answer, To, faults
<1>10. ASSUME NEW w \in Workers, Die(w)
       PROVE  \A q \in Requests : Past(q)
  BY <1>1, <1>10 DEF IInv, TypeOK, SessionValues, Known, Past, Die, client
<1>11. CASE UNCHANGED vars
  BY <1>11 DEF IInv, TypeOK, SessionValues, Known, Past, vars
<1> QED
  BY <1>2, <1>3, <1>4, <1>5, <1>6, <1>7, <1>8, <1>9, <1>10, <1>11 DEF Next

(* What stands stood before, or was written by this step. *)
LEMMA StandsBefore ==
    ASSUME IInv, [Next]_vars, NEW r \in Requests, Stands(r)'
    PROVE  /\ session'[r] = session[r] /\ seen'[r] = seen[r]
           /\ Stands(r) \/ (state[r] = "saving" /\ state'[r] = "saved")
<1>1. \A q \in Requests : Past(q)
  BY PastStep
<1>2. state'[r] \in {"saved", "done"} /\ r \in session'[r].values /\ Rivals(r)' = {}
  BY DEF Stands
<1>3. session'[r].pending_flush
  BY <1>2, OriginStep DEF Origin
<1>4. session'[r] = session[r] /\ state[r] \in {"saving", "saved", "done"} /\ seen'[r] = seen[r]
  BY <1>1, <1>2, <1>3 DEF Past
<1>5. Rivals(r) \subseteq Rivals(r)'
  BY <1>1, <1>4 DEF Past, Rivals
<1> QED
  BY <1>1, <1>2, <1>4, <1>5 DEF Stands, Past

(* What may have caused a change of a request, of its session and of the    *)
(* file of one.                                                             *)
Causes(q) ==
    /\ state[q] = "saved" /\ state'[q] = "done" => Answer(q)
    /\ state[q] = "saving" /\ state'[q] = "saved" => Write(q)
    /\ state[q] = "saving" =>
          /\ session'[q] = session[q]
          /\ state'[q] \notin {"saving", "saved"} => session[q].uuid \in spoiled'
    /\ seen'[q] # seen[q] \/ cookie'[q] # cookie[q] => Send(q)
    /\ state'[q] \in {"loaded", "saving"} =>
          \/ Load(q)
          \/ /\ state[q] \in {"loaded", "saving"}
             /\ q \notin cleared' => session[q].values \subseteq session'[q].values
    /\ store'[q] # store[q] =>
          \E p \in Requests : /\ session[p].uuid = q /\ session'[p] = session[p]
                              /\ Write(p) \/ state'[p] = "saving"

(* Nothing else causes one. *)
LEMMA CausesStep ==
    ASSUME IInv, [Next]_vars
    PROVE  \A q \in Requests : Causes(q)
<1>1. TypeOK /\ TypeOK'
  BY TypeStep DEF IInv
<1>2. ASSUME NEW r \in Requests, Send(r)
      PROVE  \A q \in Requests : Causes(q)
  BY <1>1, <1>2 DEF IInv, TypeOK, SessionValues, Causes, Send, To, faults
<1>3. ASSUME NEW r \in Requests, Load(r)
      PROVE  \A q \in Requests : Causes(q)
  BY <1>1, <1>3, LoadEffect DEF IInv, TypeOK, SessionValues, Causes
<1>4. ASSUME NEW r \in Requests, SetItem(r)
      PROVE  \A q \in Requests : Causes(q)
  BY <1>1, <1>4 DEF IInv, TypeOK, SessionValues, Causes, SetItem, client, faults
<1>5. ASSUME NEW r \in Requests, Clear(r)
      PROVE  \A q \in Requests : Causes(q)
  BY <1>1, <1>5 DEF IInv, TypeOK, SessionValues, Causes, Clear, client, faults
<1>6. ASSUME NEW r \in Requests, Raise(r)
      PROVE  \A q \in Requests : Causes(q)
  BY <1>1, <1>6 DEF IInv, TypeOK, SessionValues, Causes, Raise, To, client, faults
<1>7. ASSUME NEW r \in Requests, Flush(r)
      PROVE  \A q \in Requests : Causes(q)
  BY <1>1, <1>7, FlushEffect DEF IInv, TypeOK, Causes
<1>8. ASSUME NEW r \in Requests, Write(r)
      PROVE  \A q \in Requests : Causes(q)
  BY <1>1, <1>8, WriteEffect DEF IInv, TypeOK, Causes
<1>9. ASSUME NEW r \in Requests, Answer(r)
      PROVE  \A q \in Requests : Causes(q)
  BY <1>1, <1>9 DEF IInv, TypeOK, SessionValues, Causes, Answer, To, faults
<1>10. ASSUME NEW w \in Workers, Die(w)
       PROVE  \A q \in Requests : Causes(q)
  BY <1>1, <1>10 DEF IInv, TypeOK, SessionValues, Causes, Die, client
<1>11. CASE UNCHANGED vars
  BY <1>11 DEF IInv, TypeOK, SessionValues, Causes, vars
<1> QED
  BY <1>2, <1>3, <1>4, <1>5, <1>6, <1>7, <1>8, <1>9, <1>10, <1>11 DEF Next

(* What a session file keeps of an answered request stays there: whoever    *)
(* writes the file later was sent later, and loaded it from there.          *)
LEMMA LastsStep ==
    ASSUME IInv, [Next]_vars, NEW r \in Requests, Stands(r)',
           NEW id, id = session[r].uuid
    PROVE  Lasts(r, id)'
<1>1. /\ TypeOK /\ Known /\ Alone
      /\ \A q \in Requests : Past(q)
      /\ \A q \in Requests : Causes(q)
  BY PastStep, CausesStep DEF IInv
<1>2. /\ session'[r] = session[r] /\ seen'[r] = seen[r] /\ r \in session[r].values
      /\ Stands(r) \/ (state[r] = "saving" /\ state'[r] = "saved")
  BY StandsBefore DEF Stands
<1>3. id \in Requests /\ store[id] # None
  <2>1. state[r] \in {"saving", "saved", "done"} /\ session[r].pending_flush
    BY <1>2 DEF Stands, IInv, Origin
  <2>2. id = IF cookie[r] = None THEN r ELSE cookie[r]
    BY <1>1, <2>1 DEF Known
  <2>3. id \in Requests
    BY <1>1, <2>2 DEF TypeOK
  <2>4. state[r] = "done" => store[id] # None
    <3> SUFFICES ASSUME state[r] = "done" PROVE store[id] # None
      OBVIOUS
    <3>1. Lasts(r, id)
      BY <1>2 DEF IInv, Standing
    <3> QED
      BY <1>1, <2>3, <3>1, NoneAssumption DEF Lasts, Known
  <2> QED
    BY <1>1, <2>1, <2>3, <2>4 DEF Known
<1>4. Stands(r) => Lasts(r, id)
  BY DEF IInv, Standing
<1>5. \A q \in Requests : r \in seen[q] => state[r] = "done" /\ Stands(r)
  BY <1>1, <1>2 DEF Known, Stands
<1>6. \A q \in Requests \ {r} :
         state'[q] \in {"saved", "done"} /\ session'[q].pending_flush
         => q \notin cleared' /\ (r \in seen'[q] \/ q \in seen[r])
  BY <1>2 DEF Stands, Rivals
<1>7. Answer(r) \/ state'[r] # "done" \/ state[r] = "done"
  BY <1>1, <1>2 DEF Stands, Causes
<1>8. (state[r] = "done" => jar = id) => (state'[r] = "done" => jar' = id)
  <2> SUFFICES ASSUME state[r] = "done" => jar = id, state'[r] = "done"
               PROVE  jar' = id
    OBVIOUS
  <2>1. CASE Answer(r)
    BY <2>1 DEF Answer
  <2>2. CASE \E q \in Requests \ {r} : Answer(q)
    <3>1. PICK q \in Requests \ {r} : Answer(q)
      BY <2>2
    <3>2. /\ state[q] = "saved" /\ state'[q] = "done" /\ jar' = session[q].uuid
          /\ seen'[q] = seen[q] /\ session'[q] = session[q]
      BY <1>1, <3>1 DEF Answer, To, TypeOK
    <3>3. session[q].pending_flush /\ q \notin seen[r]
      BY <1>1, <3>2 DEF Known
    <3>4. r \in seen[q]
      BY <1>6, <3>2, <3>3
    <3>5. cookie[q] = id
      BY <1>4, <1>5, <3>4 DEF Lasts
    <3> QED
      BY <1>1, <1>3, <3>2, <3>5, NoneAssumption DEF Known
  <2>3. CASE jar' = jar
    BY <1>7, <2>1, <2>3
  <2>4. jar' = jar \/ \E q \in Requests : Answer(q)
    BY DEF Next, vars, Send, Load, SetItem, Clear, Raise, Flush, Write, Die, client
  <2> QED
    BY <2>1, <2>2, <2>3, <2>4
<1>9. state'[r] = "done" => jar' = id
  BY <1>2, <1>4, <1>8 DEF Lasts
<1>10. ASSUME NEW q \in Requests, r \in seen'[q]
       PROVE  cookie'[q] = id
  <2>1. CASE seen'[q] = seen[q] /\ cookie'[q] = cookie[q]
    BY <1>4, <1>5, <1>10, <2>1 DEF Lasts
  <2>2. CASE Send(q)
    <3>1. cookie'[q] = jar /\ seen'[q] = {p \in Requests : state[p] \in {"done", "failed"}}
      BY <1>1, <2>2 DEF Send, TypeOK
    <3> QED
      BY <1>2, <1>4, <1>10, <3>1 DEF Lasts, Stands
  <2> QED
    BY <1>1, <2>1, <2>2 DEF Causes
<1>11. ASSUME id \notin spoiled', Saving(id)' = {}
       PROVE  r \in Head(store'[id])
  <2>1. id \notin spoiled /\ \A q \in Requests : state'[q] = "saving" => session'[q].uuid # id
    BY <1>1, <1>3, <1>11 DEF Saving, Past
  <2>2. CASE \E q \in Requests : Write(q) /\ session[q].uuid = id
    <3>1. PICK q \in Requests : Write(q) /\ session[q].uuid = id
      BY <2>2
    <3>2. /\ state[q] = "saving" /\ state'[q] = "saved" /\ session'[q] = session[q]
          /\ session[q].pending_flush /\ q \notin seen[r]
          /\ seen'[q] = seen[q] /\ cleared' = cleared
      BY <1>1, <3>1, WriteEffect DEF Known
    <3>3. store[id] = <<>> /\ Head(store'[id]) = session[q].values
      BY <1>1, <2>1, <3>1, <3>2, WriteEffect DEF Alone
    <3>4. q = r \/ (r \in seen[q] /\ q \notin cleared)
      BY <1>6, <3>2
    <3>5. r \in session[q].values
      BY <1>2, <1>4, <1>5, <2>1, <3>2, <3>4 DEF Lasts
    <3> QED
      BY <3>3, <3>5
  <2>3. CASE ~\E q \in Requests : Write(q) /\ session[q].uuid = id
    <3>1. store'[id] = store[id]
      <4>1. store'[id] # store[id] =>
               \E p \in Requests : /\ session[p].uuid = id /\ session'[p] = session[p]
                                   /\ Write(p) \/ state'[p] = "saving"
        BY <1>1, <1>3 DEF Causes
      <4> QED
        BY <2>1, <2>3, <4>1
    <3>2. Saving(id) = {}
      BY <1>1, <1>11, <2>1, <2>3 DEF Saving, Causes
    <3>3. Stands(r)
      BY <1>1, <1>2, <2>3 DEF Causes
    <3> QED
      BY <1>4, <2>1, <3>1, <3>2, <3>3 DEF Lasts
  <2> QED
    BY <2>2, <2>3
<1>12. ASSUME NEW q \in Requests, id \notin spoiled', r \in seen'[q],
              state'[q] \in {"loaded", "saving"}, q \notin cleared'
       PROVE  r \in session'[q].values
  <2>1. r \in seen[q] /\ id \notin spoiled /\ q \notin cleared
    <3>1. ~Send(q)
      BY <1>1, <1>12 DEF Send, To, TypeOK
    <3> QED
      BY <1>1, <1>3, <1>12, <3>1 DEF Causes, Past
  <2>2. Lasts(r, id)
    BY <1>4, <1>5, <2>1
  <2>3. CASE Load(q)
    <3>1. cookie[q] = id /\ id # None
      BY <1>3, <2>1, <2>2, NoneAssumption DEF Lasts
    <3>2. Loadable(store[id]) /\ session'[q].values = Head(store[id])
      BY <1>1, <1>3, <1>12, <2>3, <3>1, LoadEffect
    <3>3. Saving(id) = {}
      BY <1>1, <2>1, <3>2 DEF Alone, Saving, Loadable
    <3> QED
      BY <2>1, <2>2, <3>2, <3>3 DEF Lasts
  <2>4. CASE state[q] \in {"loaded", "saving"} /\ session[q].values \subseteq session'[q].values
    BY <2>1, <2>2, <2>4 DEF Lasts
  <2> QED
    BY <1>1, <1>12, <2>3, <2>4 DEF Causes
<1> QED
  BY <1>9, <1>10, <1>11, <1>12 DEF Lasts

LEMMA StandingStep ==
    ASSUME IInv, [Next]_vars
    PROVE  Standing'
<1> SUFFICES ASSUME NEW r \in Requests, Stands(r)'
             PROVE  Lasts(r, session[r].uuid)'
  BY DEF Standing
<1>1. PICK id : id = session[r].uuid
  OBVIOUS
<1>2. Lasts(r, id)' /\ session'[r] = session[r]
  BY <1>1, LastsStep, StandsBefore
<1> QED
  BY <1>1, <1>2 DEF Lasts, Saving

-----------------------------------------------------------------------------
(* Every reachable state of the sessions satisfies the invariant. *)
THEOREM Invariance == Spec => []IInv
<1>1. IInv /\ [Next]_vars => IInv'
  BY TypeStep, KnownStep, OriginStep, AloneStep, FileStep, StandingStep DEF IInv
<1> QED
  BY <1>1, InitInvariant, PTL DEF Spec

(* The types are kept: in particular a session file is never anything but   *)
(* a sequence of whole dumps or absent (sessions/files.py:22-41).           *)
THEOREM TypeCorrect == Spec => []TypeOK
<1>1. IInv => TypeOK
  BY DEF IInv
<1> QED
  BY <1>1, Invariance, PTL

(* A file that nobody is writing loads, unless two workers wrote it at once *)
(* or one was killed in the middle (sessions/files.py:22-41).               *)
THEOREM FilesAreWhole == Spec => []FileWhole
<1>1. IInv => FileWhole
  BY DEF IInv
<1> QED
  BY <1>1, Invariance, PTL

(* What an answered request stored is still there for its client, unless a  *)
(* request that ran beside it saved too or one cleared it                   *)
(* (sessions/files.py:18-41, request/request.pyx:157-164).                  *)
THEOREM NothingIsForgotten == Spec => []Kept
<1>1. IInv => Kept
  <2> SUFFICES ASSUME IInv, NEW r \in Requests,
                      state[r] = "done" /\ r \in session[r].values,
                      Saving(jar) = {} /\ jar \notin spoiled,
                      \A q \in Requests \ {r} :
                         ~(Stored(q) /\ (q \in cleared \/ (r \notin seen[q] /\ q \notin seen[r])))
               PROVE  Loadable(store[jar]) /\ r \in Head(store[jar])
    BY DEF Kept
  <2>1. Stands(r)
    BY DEF Stands, Rivals, Stored
  <2>2. jar = session[r].uuid /\ Lasts(r, jar)
    BY <2>1 DEF IInv, Standing, Lasts
  <2>3. r \in Head(store[jar])
    BY <2>2 DEF Lasts
  <2>4. jar \in Requests /\ store[jar] # None
    BY <2>2, NoneAssumption DEF IInv, TypeOK, Known
  <2>5. Loadable(store[jar])
    BY <2>4 DEF IInv, FileWhole
  <2> QED
    BY <2>3, <2>5
<1> QED
  BY <1>1, Invariance, PTL
=============================================================================
