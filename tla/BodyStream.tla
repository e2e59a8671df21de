----------------------------- MODULE BodyStream -----------------------------
(***************************************************************************)
(* One request body on its way from the socket to the handler that reads   *)
(* it: the parser fills the StreamQueue from data_received and pauses the  *)
(* socket, the iterator of Stream empties it and resumes the socket.       *)
(*                                                                         *)
(* Both run on the event loop, so a step here is what runs between two     *)
(* awaits.  One data_received can carry several chunks and the end of the  *)
(* message: the pause that on_body asks for takes effect after it.         *)
(***************************************************************************)
EXTENDS StreamQueue

CONSTANTS
    N,               \* how many chunks the body has
    MaxBatch         \* how many of them one data_received can carry

ASSUME NAssumption == N \in Nat
ASSUME MaxBatchAssumption == MaxBatch \in Nat \ {0}
ASSUME EndMarkAssumption == EndMark \notin Nat

VARIABLES
    queue,           \* the StreamQueue
    readable,        \* the transport delivers data
    sent,            \* chunks 1..sent have been received
    pc,              \* where the reader is
    got,             \* the chunks the iterator has yielded
    consumed         \* Stream.consumed

vars == <<queue, readable, sent, pc, got, consumed>>

(* "user": in the code of the handler.  "blocked": in event.wait().        *)
(* "woken": the event was set, the coroutine is scheduled.                 *)
(* "failed": popleft() raised IndexError after the wait.                   *)
Places == {"user", "blocked", "woken", "failed"}

Min2(a, b) == IF a < b THEN a ELSE b

Init ==
    /\ queue = NewQueue
    /\ readable = TRUE
    /\ sent = 0
    /\ pc = "user"
    /\ got = <<>>
    /\ consumed = FALSE

-----------------------------------------------------------------------------
(* on_body for each chunk of a batch of k, then on_message_complete. *)
Batch(k) == [i \in 1 .. k |-> sent + i]

(* Mutant: on_body does not pause the socket. *)
DataReceivedUnpaused(k, last) ==
    /\ readable /\ ~queue.finished
    /\ k > 0 \/ last
    /\ last => sent + k = N
    /\ LET q == PutAll(queue, Batch(k))
       IN  queue' = IF last THEN End(q) ELSE q
    /\ sent' = sent + k
    /\ pc' = IF pc = "blocked" /\ Wakes(queue) THEN "woken" ELSE pc
    /\ UNCHANGED <<readable, got, consumed>>

DataReceived(k, last) ==
    /\ readable /\ ~queue.finished
    /\ k > 0 \/ last
    /\ last => sent + k = N
    /\ LET q == PutAll(queue, Batch(k))
       IN  queue' = IF last THEN End(q) ELSE q
    /\ sent' = sent + k
    /\ readable' = (k = 0)
    /\ pc' = IF pc = "blocked" /\ Wakes(queue) THEN "woken" ELSE pc
    /\ UNCHANGED <<got, consumed>>

(* Mutant: the end mark is taken for a chunk. *)
TakeMark(resumed) ==
    IF ~HasItem(queue)
    THEN /\ consumed' = TRUE
         /\ readable' = resumed
         /\ UNCHANGED got
    ELSE /\ got' = Append(got, Head(queue.items))
         /\ readable' = FALSE
         /\ UNCHANGED consumed

(* What the iterator does with the result of get(): a chunk pauses the     *)
(* socket again and is yielded, a falsy result ends the iteration and      *)
(* leaves the socket as it is.                                             *)
Take(resumed) ==
    IF AtEnd(queue)
    THEN /\ consumed' = TRUE
         /\ readable' = resumed
         /\ UNCHANGED got
    ELSE /\ got' = Append(got, Head(queue.items))
         /\ readable' = FALSE
         /\ UNCHANGED consumed

(* The handler asks the iterator for the next chunk: the socket resumes,   *)
(* and get() returns at once or waits.                                     *)
AskNow ==
    /\ pc = "user" /\ ~consumed
    /\ HasItem(queue) \/ queue.finished
    /\ Take(TRUE)
    /\ queue' = IF HasItem(queue) THEN Pop(queue) ELSE queue
    /\ UNCHANGED <<sent, pc>>

(* Mutant: the socket is not resumed before the wait. *)
AskWaitPaused ==
    /\ pc = "user" /\ ~consumed
    /\ ~HasItem(queue) /\ ~queue.finished
    /\ queue' = Wait(queue)
    /\ pc' = "blocked"
    /\ UNCHANGED <<readable, sent, got, consumed>>

AskWait ==
    /\ pc = "user" /\ ~consumed
    /\ ~HasItem(queue) /\ ~queue.finished
    /\ queue' = Wait(queue)
    /\ pc' = "blocked"
    /\ readable' = TRUE
    /\ UNCHANGED <<sent, got, consumed>>

(* The coroutine runs again after event.wait() and pops without looking. *)
Resume ==
    /\ pc = "woken"
    /\ IF HasItem(queue)
       THEN /\ Take(readable)
            /\ queue' = Pop(Woken(queue))
            /\ pc' = "user"
       ELSE /\ queue' = Woken(queue)
            /\ pc' = "failed"
            /\ UNCHANGED <<readable, got, consumed>>
    /\ UNCHANGED sent

Receive == \E k \in 0 .. Min2(MaxBatch, N - sent), last \in BOOLEAN :
               DataReceived(k, last)

Ask == AskNow \/ AskWait

Next == Receive \/ Ask \/ Resume

(* The loop runs what is ready, and the client sends the whole body.  The  *)
(* handler owes nothing: it may leave the body unread.                     *)
Fairness == WF_vars(Receive) /\ WF_vars(Resume)

Spec == Init /\ [][Next]_vars /\ Fairness

(* A handler that does read its body, as request.stream.read() does. *)
ReadingSpec == Spec /\ WF_vars(Ask)
-----------------------------------------------------------------------------
(* The type of the queue and of the reader. *)
TypeOK ==
    /\ queue \in QueueOf(1 .. N)
    /\ readable \in BOOLEAN
    /\ sent \in 0 .. N
    /\ pc \in Places
    /\ got \in Seq(1 .. N)
    /\ consumed \in BOOLEAN

(* The chunks received and not yet yielded. *)
Unread == sent - Len(got)

(* No chunk is lost, duplicated or reordered between on_body and the       *)
(* handler, whatever the batches: the handler has a prefix of the body and *)
(* the queue holds what follows, with at most the mark of end() behind it. *)
InOrder ==
    /\ \A i \in 1 .. Len(got) : got[i] = i
    /\ Unread >= 0
    /\ Len(queue.items) \in {Unread, Unread + 1}
    /\ \A j \in 1 .. Unread : queue.items[j] = Len(got) + j
    /\ Len(queue.items) = Unread + 1 =>
           queue.items[Unread + 1] = EndMark /\ queue.finished

(* The iteration ends only after the whole body: neither the finished flag *)
(* nor a mark queued behind unread chunks can cut it short.                *)
EndsComplete == consumed => queue.finished /\ Len(got) = N

(* A handler that waits in get() has a reason to: nothing is queued, the   *)
(* message is not over and the socket is being read; one that was woken    *)
(* finds an item, so popleft() after the wait never raises.                *)
NoLostWakeup ==
    /\ pc = "blocked" => /\ ~HasItem(queue) /\ ~queue.finished
                         /\ queue.waiting /\ readable
    /\ pc = "woken" => HasItem(queue)
    /\ pc # "failed"

(* What ties the flags to the rest; with the parts above, it makes an      *)
(* inductive invariant.                                                    *)
Bookkeeping ==
    /\ queue.finished => sent = N
    /\ queue.waiting <=> pc \in {"blocked", "woken"}
    /\ pc \in {"blocked", "woken"} => ~consumed
    /\ HasItem(queue) /\ ~queue.finished => ~readable

IInv == TypeOK /\ InOrder /\ EndsComplete /\ NoLostWakeup /\ Bookkeeping

(* Back-pressure: body data is only read from the socket into an empty     *)
(* queue, so one body occupies at most one data_received of memory however *)
(* slowly the handler reads (the pause in on_body and in the iterator).    *)
BackPressure == [][sent' # sent => ~HasItem(queue)]_vars

(* A handler that keeps reading gets the end of the body. *)
ReadEnds == <>[]consumed

Channel == INSTANCE BodyChannel
               WITH complete <- queue.finished, atEnd <- consumed

(* The stream keeps the promise of BodyChannel. *)
Refines == Channel!Spec

=============================================================================
