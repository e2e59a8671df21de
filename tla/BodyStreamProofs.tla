-------------------------- MODULE BodyStreamProofs --------------------------
(***************************************************************************)
(* The body stream keeps its invariants, its back-pressure and the promise *)
(* of BodyChannel, for a body of any length and batches of any size.       *)
(***************************************************************************)
EXTENDS BodyStream, SequenceTheorems, TLAPS

(* A batch is a sequence of k chunks, numbered from the next one on. *)
LEMMA BatchProperties ==
    ASSUME TypeOK, NEW k \in Nat, sent + k \in 0 .. N
    PROVE  /\ Batch(k) \in Seq((1 .. N) \cup {EndMark})
           /\ Len(Batch(k)) = k
           /\ \A i \in 1 .. k : Batch(k)[i] = sent + i
  BY NAssumption DEF Batch, TypeOK

(* Queueing a batch keeps what was queued and puts the batch behind it. *)
LEMMA PutAllProperties ==
    ASSUME TypeOK, NEW k \in Nat, sent + k \in 0 .. N
    PROVE  LET q == PutAll(queue, Batch(k)) IN
           /\ q \in QueueOf(1 .. N)
           /\ Len(q.items) = Len(queue.items) + k
           /\ \A i \in 1 .. Len(queue.items) : q.items[i] = queue.items[i]
           /\ \A i \in 1 .. k : q.items[Len(queue.items) + i] = sent + i
           /\ q.waiting = queue.waiting
           /\ q.finished = queue.finished
<1> DEFINE S == (1 .. N) \cup {EndMark}
           b == Batch(k)
<1>1. /\ b \in Seq(S) /\ Len(b) = k
      /\ \A i \in 1 .. k : b[i] = sent + i
  BY BatchProperties
<1>2. queue.items \in Seq(S) /\ Len(queue.items) \in Nat
  BY LenProperties DEF TypeOK, QueueOf
<1>3. CASE b = <<>>
  <2>1. k = 0
    BY <1>1, <1>3, EmptySeq
  <2> QED
    BY <2>1, <1>2, <1>3 DEF PutAll, TypeOK, QueueOf
<1>4. CASE b # <<>>
  <2> HIDE DEF b
  <2>1. /\ queue.items \o b \in Seq(S)
        /\ Len(queue.items \o b) = Len(queue.items) + k
        /\ \A i \in 1 .. Len(queue.items) + k :
              (queue.items \o b)[i] = IF i <= Len(queue.items) THEN queue.items[i]
                                      ELSE b[i - Len(queue.items)]
    BY <1>1, <1>2, ConcatProperties
  <2>2. \A i \in 1 .. k : (queue.items \o b)[Len(queue.items) + i] = sent + i
    BY <1>1, <1>2, <2>1
  <2>3. PutAll(queue, b) = [items |-> queue.items \o b, waiting |-> queue.waiting,
                            dirty |-> TRUE, finished |-> queue.finished]
    BY <1>4 DEF PutAll, TypeOK, QueueOf
  <2> QED
    BY <1>2, <2>1, <2>2, <2>3 DEF TypeOK, QueueOf, b
<1> QED
  BY <1>3, <1>4

(* A queue whose items are replaced, spelled out. *)
LEMMA ItemsUpdate ==
    ASSUME NEW q \in QueueOf(1 .. N), NEW s
    PROVE  [q EXCEPT !.items = s] =
               [items |-> s, waiting |-> q.waiting, dirty |-> q.dirty,
                finished |-> q.finished]
  BY DEF QueueOf

(* The end of a message marks the queue of a reader that waits. *)
LEMMA EndProperties ==
    ASSUME NEW q \in QueueOf(1 .. N)
    PROVE  /\ End(q) \in QueueOf(1 .. N)
           /\ End(q).items = IF q.waiting THEN Append(q.items, EndMark) ELSE q.items
           /\ End(q).waiting = q.waiting
           /\ End(q).finished
<1>1. Append(q.items, EndMark) \in Seq((1 .. N) \cup {EndMark})
  BY DEF QueueOf
<1>2. CASE q.waiting
  <2> DEFINE p == [items |-> Append(q.items, EndMark), waiting |-> q.waiting,
                   dirty |-> TRUE, finished |-> q.finished]
  <2>1. Put(q, EndMark) = p
    <3> DEFINE r == [q EXCEPT !.items = Append(q.items, EndMark)]
    <3>2. r = [items |-> Append(q.items, EndMark), waiting |-> q.waiting,
               dirty |-> q.dirty, finished |-> q.finished]
      BY ItemsUpdate
    <3>3. Put(q, EndMark) = [r EXCEPT !.dirty = TRUE]
      BY DEF Put
    <3> QED
      BY <3>2, <3>3
  <2>2. End(q) = [p EXCEPT !.finished = TRUE]
    BY <1>2, <2>1 DEF End
  <2>3. End(q) = [items |-> Append(q.items, EndMark), waiting |-> q.waiting,
                  dirty |-> TRUE, finished |-> TRUE]
    BY <2>2
  <2> QED
    BY <1>1, <1>2, <2>3 DEF QueueOf
<1>3. CASE ~q.waiting
  BY <1>3 DEF End, QueueOf
<1> QED
  BY <1>2, <1>3

-----------------------------------------------------------------------------
(* The invariant holds before anything has been received. *)
LEMMA InitInvariant ==
    ASSUME Init
    PROVE  IInv
<1>1. /\ queue.items = <<>> /\ Len(queue.items) = 0
      /\ ~queue.waiting /\ ~queue.finished
      /\ sent = 0 /\ got = <<>> /\ Len(got) = 0 /\ pc = "user" /\ ~consumed
  BY DEF Init, NewQueue
<1>2. TypeOK
  <2>1. queue \in QueueOf(1 .. N)
    BY DEF Init, NewQueue, QueueOf
  <2>2. got \in Seq(1 .. N)
    BY <1>1, EmptySeq
  <2>3. sent \in 0 .. N /\ pc \in Places
    BY <1>1, NAssumption DEF Places
  <2>4. readable \in BOOLEAN /\ consumed \in BOOLEAN
    BY DEF Init
  <2> QED
    BY <2>1, <2>2, <2>3, <2>4 DEF TypeOK
<1>3. Unread = 0
  <2>1. Unread = 0 - 0
    BY <1>1 DEF Unread
  <2> QED
    BY <2>1
<1>4. InOrder
  BY <1>1, <1>3 DEF InOrder
<1>5. EndsComplete /\ NoLostWakeup /\ Bookkeeping
  BY <1>1 DEF EndsComplete, NoLostWakeup, Bookkeeping, HasItem
<1> QED
  BY <1>2, <1>4, <1>5 DEF IInv

(* Data and the end of the message go behind what is queued, and a reader  *)
(* that waited is woken.                                                   *)
LEMMA ReceiveInvariant ==
    ASSUME IInv, NEW k \in Nat, k <= N - sent, NEW last \in BOOLEAN,
           DataReceived(k, last)
    PROVE  IInv'
<1> DEFINE q == PutAll(queue, Batch(k))
<1> USE DEF IInv
<1>0. /\ ~queue.finished /\ readable /\ (k > 0 \/ last)
      /\ got' = got /\ consumed' = consumed
      /\ sent' = sent + k /\ readable' = (k = 0) /\ (last => sent + k = N)
      /\ pc' = IF pc = "blocked" /\ queue.waiting THEN "woken" ELSE pc
  BY DEF DataReceived, Wakes
<1>1. sent + k \in 0 .. N /\ sent \in 0 .. N
  BY NAssumption DEF TypeOK
<1>2. /\ q \in QueueOf(1 .. N)
      /\ Len(q.items) = Len(queue.items) + k
      /\ \A i \in 1 .. Len(queue.items) : q.items[i] = queue.items[i]
      /\ \A i \in 1 .. k : q.items[Len(queue.items) + i] = sent + i
      /\ q.waiting = queue.waiting
      /\ q.finished = queue.finished
  BY <1>1, PutAllProperties
<1>3. queue' = IF last THEN End(q) ELSE q
  BY DEF DataReceived
<1> HIDE DEF q
<1>4. /\ End(q) \in QueueOf(1 .. N)
      /\ End(q).items = IF q.waiting THEN Append(q.items, EndMark) ELSE q.items
      /\ End(q).waiting = q.waiting
      /\ End(q).finished
  BY <1>2, EndProperties
<1>5. /\ queue' \in QueueOf(1 .. N)
      /\ queue'.waiting = queue.waiting
      /\ queue'.finished <=> last
  BY <1>2, <1>3, <1>4 DEF DataReceived
<1>6. /\ queue.items \in Seq((1 .. N) \cup {EndMark}) /\ Len(queue.items) \in Nat
      /\ got \in Seq(1 .. N) /\ Len(got) \in Nat
  BY LenProperties DEF TypeOK, QueueOf
<1>7. ~queue.finished /\ readable /\ Len(queue.items) = Unread
  BY <1>1, <1>6 DEF DataReceived, InOrder, Unread
<1>8. Unread' = Unread + k /\ Unread' >= 0
  BY <1>1, <1>6 DEF DataReceived, Unread, InOrder
<1>9. queue'.items = IF last /\ queue.waiting THEN Append(q.items, EndMark) ELSE q.items
  BY <1>2, <1>3, <1>4
<1>10. /\ Len(queue'.items) = Unread' + (IF last /\ queue.waiting THEN 1 ELSE 0)
       /\ \A j \in 1 .. Unread' : queue'.items[j] = q.items[j]
       /\ last /\ queue.waiting => queue'.items[Unread' + 1] = EndMark
  <2>1. q.items \in Seq((1 .. N) \cup {EndMark})
    BY <1>2 DEF QueueOf
  <2> QED
    BY <2>1, <1>2, <1>7, <1>8, <1>9, <1>1
<1>11. InOrder'
  <2>1. ASSUME NEW j \in 1 .. Unread'
        PROVE  queue'.items[j] = Len(got') + j
    <3>1. CASE j <= Unread
      <4>1. queue'.items[j] = queue.items[j]
        BY <3>1, <1>1, <1>2, <1>6, <1>7, <1>10
      <4>2. queue.items[j] = Len(got) + j
        BY <3>1, <1>1, <1>6, <1>7 DEF InOrder
      <4> QED
        BY <4>1, <4>2, <1>0
    <3>2. CASE j > Unread
      <4>1. j - Unread \in 1 .. k /\ j = Len(queue.items) + (j - Unread)
        BY <3>2, <1>1, <1>6, <1>7, <1>8
      <4>2. q.items[j] = sent + (j - Unread)
        BY <4>1, <1>2
      <4>3. q.items[j] = Len(got) + j
        BY <4>2, <1>1, <1>6 DEF Unread
      <4> QED
        BY <4>3, <1>10, <1>0
    <3> QED
      BY <3>1, <3>2, <1>1, <1>6, <1>8 DEF Unread
  <2> QED
    BY <2>1, <1>5, <1>8, <1>10, <1>1, <1>6 DEF InOrder, DataReceived
<1>12. TypeOK'
  BY <1>1, <1>5 DEF TypeOK, DataReceived, Places
<1>13. HasItem(queue)' <=> HasItem(queue) \/ k > 0 \/ (last /\ queue.waiting)
  <2>1. queue'.items \in Seq((1 .. N) \cup {EndMark})
    BY <1>5 DEF QueueOf
  <2>2. HasItem(queue)' <=> Len(queue'.items) > 0
    BY <2>1, EmptySeq DEF HasItem
  <2>3. HasItem(queue) <=> Len(queue.items) > 0
    BY <1>6, EmptySeq DEF HasItem
  <2>4. CASE last /\ queue.waiting
    <3>1. Len(queue'.items) = Unread + k + 1
      BY <2>4, <1>8, <1>10
    <3> QED
      BY <3>1, <2>2, <2>4, <1>6, <1>7
  <2>5. CASE ~(last /\ queue.waiting)
    <3>1. Len(queue'.items) = Unread + k
      BY <2>5, <1>8, <1>10
    <3> QED
      <4>1. Len(queue'.items) > 0 <=> Len(queue.items) > 0 \/ k > 0
        BY <3>1, <1>6, <1>7
      <4> QED
        BY <4>1, <2>2, <2>3, <2>5
  <2> QED
    BY <2>4, <2>5
<1>14. NoLostWakeup'
  <2>1. pc' # "blocked"
    BY <1>0 DEF NoLostWakeup
  <2>2. pc' = "woken" => HasItem(queue)'
    <3>1. pc = "woken" => HasItem(queue)
      BY DEF NoLostWakeup
    <3>2. pc' = "woken" => pc = "woken" \/ queue.waiting
      BY <1>0
    <3> QED
      <4>1. k > 0 \/ last
        BY <1>0
      <4> QED
        BY <3>1, <3>2, <4>1, <1>13
  <2>3. pc' # "failed"
    BY <1>0 DEF NoLostWakeup
  <2> QED
    BY <2>1, <2>2, <2>3 DEF NoLostWakeup
<1>15. EndsComplete'
  BY <1>0, <1>7 DEF EndsComplete
<1>16. Bookkeeping'
  <2>1. queue'.finished => sent' = N
    BY <1>0, <1>1, <1>5
  <2>2. queue'.waiting <=> pc' \in {"blocked", "woken"}
    BY <1>0, <1>5 DEF Bookkeeping
  <2>3. pc' \in {"blocked", "woken"} => ~consumed'
    BY <1>0 DEF Bookkeeping
  <2>4. HasItem(queue)' /\ ~queue'.finished => ~readable'
    BY <1>0, <1>5, <1>7, <1>13 DEF Bookkeeping
  <2> QED
    BY <2>1, <2>2, <2>3, <2>4 DEF Bookkeeping
<1> QED
  BY <1>11, <1>12, <1>14, <1>15, <1>16 DEF IInv

(* The item get() pops: the next chunk of the body, or the mark, which is  *)
(* the last item and only there once the whole body has been yielded.      *)
LEMMA PopProperties ==
    ASSUME IInv, HasItem(queue)
    PROVE  /\ Tail(queue.items) \in Seq((1 .. N) \cup {EndMark})
           /\ Len(Tail(queue.items)) = Len(queue.items) - 1
           /\ \A j \in 1 .. Len(queue.items) - 1 :
                  Tail(queue.items)[j] = queue.items[j + 1]
           /\ AtEnd(queue) => /\ Unread = 0 /\ Len(got) = N
                              /\ queue.finished /\ Tail(queue.items) = <<>>
           /\ ~AtEnd(queue) => /\ Unread > 0
                               /\ Head(queue.items) = Len(got) + 1
                               /\ Len(got) + 1 \in 1 .. N
<1> DEFINE S == (1 .. N) \cup {EndMark}
<1>1. /\ queue.items \in Seq(S) /\ Len(queue.items) \in Nat \ {0}
      /\ got \in Seq(1 .. N) /\ Len(got) \in Nat /\ sent \in 0 .. N
  <2>1. queue.items \in Seq(S) /\ queue.items # <<>>
    BY DEF IInv, TypeOK, QueueOf, HasItem
  <2> QED
    BY <2>1, EmptySeq, LenProperties DEF IInv, TypeOK
<1>2. /\ Unread \in Nat /\ Len(queue.items) \in {Unread, Unread + 1}
      /\ sent = Len(got) + Unread
  BY <1>1, NAssumption DEF IInv, InOrder, Unread
<1>3. /\ Tail(queue.items) \in Seq(S)
      /\ Len(Tail(queue.items)) = Len(queue.items) - 1
      /\ \A j \in 1 .. Len(queue.items) - 1 : Tail(queue.items)[j] = queue.items[j + 1]
  BY <1>1, EmptySeq, HeadTailProperties
<1>4. Head(queue.items) = queue.items[1]
  BY <1>1
<1>5. AtEnd(queue) <=> Head(queue.items) = EndMark
  BY DEF AtEnd
<1>6. CASE Unread = 0
  <2>1. Len(queue.items) = 1
    BY <1>1, <1>2, <1>6
  <2>2. queue.items[1] = EndMark /\ queue.finished
    BY <2>1, <1>6 DEF IInv, InOrder
  <2>3. Tail(queue.items) = <<>>
    <3>1. Len(Tail(queue.items)) = 0
      BY <2>1, <1>3
    <3> QED
      BY <3>1, <1>3, EmptySeq
  <2>4. Len(got) = N
    BY <2>2, <1>1, <1>2, <1>6 DEF IInv, Bookkeeping
  <2> QED
    BY <2>2, <2>3, <2>4, <1>3, <1>4, <1>5, <1>6
<1>7. CASE Unread # 0
  <2>1. queue.items[1] = Len(got) + 1
    BY <1>1, <1>2, <1>7 DEF IInv, InOrder
  <2>2. Len(got) + 1 \in 1 .. N
    BY <1>1, <1>2, <1>7, NAssumption
  <2>3. ~AtEnd(queue)
    BY <2>1, <2>2, <1>4, <1>5, EndMarkAssumption
  <2> QED
    BY <2>1, <2>2, <2>3, <1>2, <1>3, <1>4, <1>7
<1> QED
  BY <1>6, <1>7

(* What the iterator does with a popped item keeps the order. *)
LEMMA TakeInvariant ==
    ASSUME IInv, HasItem(queue), NEW r \in BOOLEAN, Take(r),
           queue' \in QueueOf(1 .. N),
           queue'.items = Tail(queue.items),
           queue'.finished = queue.finished, sent' = sent
    PROVE  /\ InOrder' /\ EndsComplete'
           /\ got' \in Seq(1 .. N) /\ readable' \in BOOLEAN /\ consumed' \in BOOLEAN
           /\ HasItem(queue)' => ~readable'
<1>1. /\ queue.items \in Seq((1 .. N) \cup {EndMark}) /\ Len(queue.items) \in Nat
      /\ got \in Seq(1 .. N) /\ Len(got) \in Nat /\ sent \in 0 .. N
      /\ consumed \in BOOLEAN
  BY LenProperties DEF IInv, TypeOK, QueueOf
<1>2. CASE AtEnd(queue)
  <2>1. /\ consumed' = TRUE /\ readable' = r /\ got' = got
        /\ Unread = 0 /\ Len(got) = N /\ queue.finished /\ queue'.items = <<>>
    BY <1>2, PopProperties DEF Take
  <2>2. Unread' = 0 /\ Len(queue'.items) = 0
    BY <2>1 DEF Unread
  <2>3. InOrder'
    <3>1. \A i \in 1 .. Len(got') : got'[i] = i
      BY <2>1 DEF IInv, InOrder
    <3>2. \A j \in 1 .. Unread' : queue'.items[j] = Len(got') + j
      BY <2>2
    <3>3. /\ Unread' >= 0 /\ Len(queue'.items) \in {Unread', Unread' + 1}
          /\ Len(queue'.items) # Unread' + 1
      BY <2>2
    <3> QED
      BY <3>1, <3>2, <3>3 DEF InOrder
  <2> QED
    BY <2>1, <2>3, <1>1 DEF EndsComplete, HasItem
<1>3. CASE ~AtEnd(queue)
  <2>1. /\ got' = Append(got, Len(got) + 1) /\ readable' = FALSE
        /\ consumed' = consumed
        /\ Unread > 0 /\ Len(got) + 1 \in 1 .. N
    BY <1>3, PopProperties DEF Take
  <2>2. /\ got' \in Seq(1 .. N) /\ Len(got') = Len(got) + 1
        /\ \A i \in 1 .. Len(got) : got'[i] = got[i]
        /\ got'[Len(got) + 1] = Len(got) + 1
    BY <2>1, <1>1
  <2>3. Unread' = Unread - 1 /\ Unread \in Nat
    BY <2>1, <2>2, <1>1 DEF Unread
  <2>4. /\ Len(queue'.items) = Len(queue.items) - 1
        /\ \A j \in 1 .. Len(queue.items) - 1 : queue'.items[j] = queue.items[j + 1]
    BY PopProperties
  <2>5. \A i \in 1 .. Len(got') : got'[i] = i
    <3> TAKE i \in 1 .. Len(got')
    <3>1. CASE i \in 1 .. Len(got)
      BY <3>1, <2>2 DEF IInv, InOrder
    <3>2. CASE i = Len(got) + 1
      BY <3>2, <2>2
    <3> QED
      BY <3>1, <3>2, <2>2, <1>1
  <2>6. Len(queue'.items) \in {Unread', Unread' + 1}
    BY <2>3, <2>4, <1>1 DEF IInv, InOrder
  <2>7. \A j \in 1 .. Unread' : queue'.items[j] = Len(got') + j
    <3> TAKE j \in 1 .. Unread'
    <3>1. j + 1 \in 1 .. Unread /\ j \in 1 .. Len(queue.items) - 1
      BY <2>3, <1>1 DEF IInv, InOrder
    <3>2. queue.items[j + 1] = Len(got) + (j + 1)
      BY <3>1 DEF IInv, InOrder
    <3> QED
      BY <3>1, <3>2, <2>2, <2>4, <1>1
  <2>8. Len(queue'.items) = Unread' + 1 =>
            queue'.items[Unread' + 1] = EndMark /\ queue'.finished
    <3> HAVE Len(queue'.items) = Unread' + 1
    <3>1. Len(queue.items) = Unread + 1 /\ Unread \in 1 .. Len(queue.items) - 1
      BY <2>1, <2>3, <2>4, <1>1
    <3>2. queue.items[Unread + 1] = EndMark /\ queue.finished
      BY <3>1 DEF IInv, InOrder
    <3> QED
      BY <3>1, <3>2, <2>3, <2>4
  <2>9. InOrder'
    BY <2>3, <2>5, <2>6, <2>7, <2>8, <2>1 DEF InOrder
  <2>10. ~consumed
    <3>1. Len(got) # N
      BY <2>1, <1>1, NAssumption
    <3> QED
      BY <3>1 DEF IInv, EndsComplete
  <2> QED
    BY <2>1, <2>2, <2>9, <2>10, <1>1 DEF EndsComplete
<1> QED
  BY <1>2, <1>3

-----------------------------------------------------------------------------
(* get() returns at once: the item at the head, or the end of a finished   *)
(* and empty queue.                                                        *)
LEMMA AskNowInvariant ==
    ASSUME IInv, AskNow
    PROVE  IInv'
<1>1. /\ pc = "user" /\ ~consumed /\ pc' = pc /\ sent' = sent
      /\ HasItem(queue) \/ queue.finished
      /\ Take(TRUE)
      /\ queue' = IF HasItem(queue) THEN Pop(queue) ELSE queue
  BY DEF AskNow
<1>2. ~queue.waiting /\ (queue.finished => sent = N)
  BY <1>1 DEF IInv, Bookkeeping
<1>3. CASE HasItem(queue)
  <2>1. queue' = [queue EXCEPT !.items = Tail(queue.items)]
    BY <1>1, <1>3 DEF Pop
  <2>2. Tail(queue.items) \in Seq((1 .. N) \cup {EndMark})
    BY <1>3, PopProperties
  <2>3. /\ queue' \in QueueOf(1 .. N) /\ queue'.items = Tail(queue.items)
        /\ queue'.finished = queue.finished /\ queue'.waiting = queue.waiting
    BY <2>1, <2>2 DEF IInv, TypeOK, QueueOf
  <2>4. /\ InOrder' /\ EndsComplete'
        /\ got' \in Seq(1 .. N) /\ readable' \in BOOLEAN /\ consumed' \in BOOLEAN
        /\ HasItem(queue)' => ~readable'
    BY <1>1, <1>3, <2>3, TakeInvariant
  <2>5. TypeOK'
    BY <1>1, <2>3, <2>4 DEF IInv, TypeOK
  <2>6. NoLostWakeup' /\ Bookkeeping'
    BY <1>1, <1>2, <2>3, <2>4 DEF NoLostWakeup, Bookkeeping
  <2> QED
    BY <2>4, <2>5, <2>6 DEF IInv
<1>4. CASE ~HasItem(queue)
  <2>1. AtEnd(queue) /\ queue.finished
    BY <1>1, <1>4 DEF AtEnd
  <2>2. /\ queue' = queue /\ got' = got /\ sent' = sent /\ pc' = pc
        /\ consumed' = TRUE /\ readable' = TRUE
    BY <1>1, <1>4, <2>1 DEF Take
  <2>3. Len(got) = N
    <3>1. queue.items = <<>> /\ Len(queue.items) = 0
      BY <1>4 DEF HasItem
    <3>2. Len(got) \in Nat /\ sent = N
      BY <2>1, LenProperties DEF IInv, TypeOK, Bookkeeping
    <3> QED
      BY <3>1, <3>2, NAssumption DEF IInv, InOrder, Unread
  <2>4. TypeOK'
    BY <2>2 DEF IInv, TypeOK
  <2>5. InOrder'
    BY <2>2 DEF IInv, InOrder, Unread
  <2>6. EndsComplete'
    BY <2>1, <2>2, <2>3 DEF EndsComplete
  <2>7. NoLostWakeup' /\ Bookkeeping'
    BY <1>1, <1>2, <2>1, <2>2 DEF NoLostWakeup, Bookkeeping, HasItem
  <2> QED
    BY <2>4, <2>5, <2>6, <2>7 DEF IInv
<1> QED
  BY <1>3, <1>4

(* get() finds nothing and waits, with the socket resumed. *)
LEMMA AskWaitInvariant ==
    ASSUME IInv, AskWait
    PROVE  IInv'
<1>1. /\ ~consumed /\ consumed' = consumed /\ got' = got /\ sent' = sent
      /\ ~HasItem(queue) /\ ~queue.finished
      /\ pc' = "blocked" /\ readable' = TRUE
      /\ queue' = [queue EXCEPT !.waiting = TRUE]
  BY DEF AskWait, Wait
<1>2. /\ queue' \in QueueOf(1 .. N) /\ queue'.items = queue.items
      /\ queue'.finished = queue.finished /\ queue'.waiting = TRUE
  BY <1>1 DEF IInv, TypeOK, QueueOf
<1>3. TypeOK'
  BY <1>1, <1>2 DEF IInv, TypeOK, Places
<1>4. InOrder' /\ EndsComplete'
  BY <1>1, <1>2 DEF IInv, InOrder, EndsComplete, Unread
<1>5. NoLostWakeup' /\ Bookkeeping'
  BY <1>1, <1>2 DEF NoLostWakeup, Bookkeeping, HasItem
<1> QED
  BY <1>3, <1>4, <1>5 DEF IInv

(* The reader runs again after its wait and finds the item it was woken for. *)
LEMMA ResumeInvariant ==
    ASSUME IInv, Resume
    PROVE  IInv'
<1>1. pc = "woken" /\ HasItem(queue) /\ ~consumed
  BY DEF Resume, IInv, NoLostWakeup, Bookkeeping
<1>2. /\ Take(readable) /\ pc' = "user" /\ sent' = sent
      /\ queue' = Pop(Woken(queue))
  BY <1>1 DEF Resume
<1>3. Tail(queue.items) \in Seq((1 .. N) \cup {EndMark})
  BY <1>1, PopProperties
<1>4. /\ queue' \in QueueOf(1 .. N) /\ queue'.items = Tail(queue.items)
      /\ queue'.finished = queue.finished /\ ~queue'.waiting
  <2> DEFINE w == Woken(queue)
  <2>1. /\ w \in QueueOf(1 .. N) /\ w.items = queue.items
        /\ w.finished = queue.finished /\ ~w.waiting
    BY DEF Woken, IInv, TypeOK, QueueOf
  <2>2. queue' = [w EXCEPT !.items = Tail(w.items)]
    BY <1>2 DEF Pop
  <2> HIDE DEF w
  <2> QED
    BY <1>3, <2>1, <2>2 DEF QueueOf
<1>5. /\ InOrder' /\ EndsComplete'
      /\ got' \in Seq(1 .. N) /\ readable' \in BOOLEAN /\ consumed' \in BOOLEAN
      /\ HasItem(queue)' => ~readable'
  BY <1>1, <1>2, <1>4, TakeInvariant DEF IInv, TypeOK
<1>6. TypeOK'
  BY <1>2, <1>4, <1>5 DEF IInv, TypeOK, Places
<1>7. NoLostWakeup' /\ Bookkeeping'
  BY <1>2, <1>4, <1>5 DEF IInv, NoLostWakeup, Bookkeeping
<1> QED
  BY <1>5, <1>6, <1>7 DEF IInv

(* Every step of the parser and of the reader keeps the invariant. *)
LEMMA NextInvariant ==
    ASSUME IInv, [Next]_vars
    PROVE  IInv'
<1>1. CASE Receive
  <2>1. PICK k \in 0 .. Min2(MaxBatch, N - sent), last \in BOOLEAN :
            DataReceived(k, last)
    BY <1>1 DEF Receive
  <2>2. k \in Nat /\ k <= N - sent
    BY NAssumption, MaxBatchAssumption DEF Min2, IInv, TypeOK
  <2> QED
    BY <2>1, <2>2, ReceiveInvariant
<1>2. CASE AskNow
  BY <1>2, AskNowInvariant
<1>3. CASE AskWait
  BY <1>3, AskWaitInvariant
<1>4. CASE Resume
  BY <1>4, ResumeInvariant
<1>5. CASE UNCHANGED vars
  BY <1>5 DEF vars, IInv, TypeOK, InOrder, EndsComplete, NoLostWakeup,
              Bookkeeping, Unread, HasItem
<1> QED
  BY <1>1, <1>2, <1>3, <1>4, <1>5 DEF Next, Ask

(* The inductive invariant of the body stream: its types, the order of the *)
(* chunks, the end of the body and the wake-ups of a reader that waits.    *)
THEOREM Invariance == Spec => []IInv
<1>1. Init => IInv
  BY InitInvariant
<1>2. IInv /\ [Next]_vars => IInv'
  BY NextInvariant
<1> QED
  BY <1>1, <1>2, PTL DEF Spec

(* Every variable keeps its type, for a body of any length. *)
THEOREM TypeCorrect == Spec => []TypeOK
<1>1. IInv => TypeOK
  BY DEF IInv
<1> QED
  BY <1>1, Invariance, PTL

(* No chunk of a body is lost, duplicated or reordered, its end is seen    *)
(* after all of it, and a handler waiting in get() always has a wake-up    *)
(* coming and finds an item when it comes.                                 *)
THEOREM StreamSafe == Spec => [](InOrder /\ EndsComplete /\ NoLostWakeup)
<1>1. IInv => InOrder /\ EndsComplete /\ NoLostWakeup
  BY DEF IInv
<1> QED
  BY <1>1, Invariance, PTL

(* The socket is only read into an empty queue: the pause of on_body and   *)
(* of the iterator bounds what a slow handler makes the server hold.       *)
THEOREM BackPressured == Spec => BackPressure
<1>1. IInv /\ [Next]_vars => [sent' # sent => ~HasItem(queue)]_vars
  <2> SUFFICES ASSUME IInv, Next PROVE sent' # sent => ~HasItem(queue)
    OBVIOUS
  <2>1. CASE Receive
    BY <2>1 DEF Receive, DataReceived, IInv, Bookkeeping
  <2>2. CASE Ask \/ Resume
    BY <2>2 DEF Ask, AskNow, AskWait, Resume
  <2> QED
    BY <2>1, <2>2 DEF Next
<1> QED
  BY <1>1, Invariance, PTL DEF Spec, BackPressure

-----------------------------------------------------------------------------
(* Every step of the stream is a step of BodyChannel or leaves it alone. *)
LEMMA StepRefines ==
    ASSUME IInv, [Next]_vars
    PROVE  [Channel!Next]_(Channel!vars)
<1> USE DEF Channel!vars
<1>0. /\ Len(got) \in Nat /\ sent \in 0 .. N /\ queue.finished \in BOOLEAN
      /\ queue \in QueueOf(1 .. N)
  BY LenProperties DEF IInv, TypeOK, QueueOf
<1>1. CASE Receive
  <2>1. PICK k \in 0 .. Min2(MaxBatch, N - sent), last \in BOOLEAN :
            DataReceived(k, last)
    BY <1>1 DEF Receive
  <2>2. k \in Nat /\ sent + k \in sent .. N
    BY <1>0, NAssumption, MaxBatchAssumption DEF Min2
  <2> DEFINE q == PutAll(queue, Batch(k))
  <2>3. q \in QueueOf(1 .. N) /\ q.finished = queue.finished
    BY <1>0, <2>2, PutAllProperties DEF IInv
  <2>4. End(q).finished
    BY <2>3, EndProperties
  <2>5. /\ queue' = IF last THEN End(q) ELSE q
        /\ ~queue.finished /\ sent' = sent + k /\ (last => sent + k = N)
        /\ got' = got /\ consumed' = consumed
    BY <2>1 DEF DataReceived
  <2> HIDE DEF q
  <2>6. queue'.finished <=> last
    BY <2>3, <2>4, <2>5
  <2>7. queue'.finished \in BOOLEAN
    <3>1. queue' \in QueueOf(1 .. N)
      BY <1>1, NextInvariant DEF Next, IInv, TypeOK
    <3> QED
      BY <3>1 DEF QueueOf
  <2> QED
    BY <2>2, <2>5, <2>6, <2>7 DEF Channel!Next, Channel!Arrive
<1>2. ASSUME HasItem(queue), ~consumed, NEW r \in BOOLEAN, Take(r),
             queue'.finished = queue.finished, sent' = sent
      PROVE  Channel!Next
  <2>1. CASE AtEnd(queue)
    BY <1>2, <2>1, PopProperties DEF Take, Channel!Next, Channel!Finish
  <2>2. CASE ~AtEnd(queue)
    <3>1. Len(got) < sent
      BY <1>0, <1>2, <2>2, PopProperties DEF Unread
    <3>2. got' = Append(got, Len(got) + 1) /\ consumed' = consumed
      BY <1>2, <2>2, PopProperties DEF Take
    <3> QED
      BY <1>2, <3>1, <3>2 DEF Channel!Next, Channel!Deliver
  <2> QED
    BY <2>1, <2>2
<1>3. CASE AskNow
  <2>1. CASE HasItem(queue)
    <3>1. queue'.finished = queue.finished
      BY <1>0, <1>3, <2>1 DEF AskNow, Pop, QueueOf
    <3> QED
      BY <1>2, <1>3, <2>1, <3>1 DEF AskNow
  <2>2. CASE ~HasItem(queue)
    <3>1. queue.finished /\ AtEnd(queue) /\ queue' = queue /\ sent' = sent
          /\ consumed' = TRUE /\ got' = got /\ ~consumed
      BY <1>3, <2>2 DEF AskNow, AtEnd, Take
    <3>2. IInv'
      BY <1>3, AskNowInvariant
    <3>3. Len(got) = N
      BY <3>1, <3>2 DEF IInv, EndsComplete
    <3> QED
      BY <3>1, <3>3 DEF Channel!Next, Channel!Finish
  <2> QED
    BY <2>1, <2>2
<1>4. CASE AskWait
  <2>1. queue'.finished = queue.finished
    BY <1>0, <1>4 DEF AskWait, Wait, QueueOf
  <2> QED
    BY <1>4, <2>1 DEF AskWait
<1>5. CASE Resume
  <2>1. HasItem(queue) /\ ~consumed
    BY <1>5 DEF Resume, IInv, NoLostWakeup, Bookkeeping
  <2>2. Take(readable) /\ sent' = sent /\ queue' = Pop(Woken(queue))
    BY <1>5, <2>1 DEF Resume
  <2>3. queue'.finished = queue.finished
    BY <1>0, <2>2 DEF Pop, Woken, QueueOf
  <2> QED
    BY <1>2, <2>1, <2>2, <2>3 DEF IInv, TypeOK
<1>6. CASE UNCHANGED vars
  BY <1>6 DEF vars
<1> QED
  BY <1>1, <1>3, <1>4, <1>5, <1>6 DEF Next, Ask

(* The stream implements BodyChannel: whatever the batches and however the *)
(* reader and the parser interleave, the reader sees the body of its       *)
(* request as the client sent it.                                          *)
THEOREM Refinement == Spec => Refines
<1>1. Init => Channel!Init
  BY DEF Init, Channel!Init, NewQueue
<1>2. IInv /\ [Next]_vars => [Channel!Next]_(Channel!vars)
  BY StepRefines
<1> QED
  BY <1>1, <1>2, Invariance, PTL DEF Spec, Refines, Channel!Spec
=============================================================================
