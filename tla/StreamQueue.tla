---------------------------- MODULE StreamQueue ----------------------------
(***************************************************************************)
(* The queue between the HTTP parser and the coroutine that reads a        *)
(* request body (class StreamQueue of request/request.pyx).                *)
(*                                                                         *)
(* get() clears the asyncio.Event just before it waits on it, so the flag  *)
(* of the Event is never read: what remains of it is which coroutines      *)
(* wait and have been woken, and that is state of the coroutines, kept by  *)
(* the modules that use this one.  Wakes(q) says whether a put wakes them. *)
(***************************************************************************)
EXTENDS Naturals, Sequences

CONSTANT EndMark      \* the None that end() queues for a coroutine that waits

NewQueue ==
    [items |-> <<>>, waiting |-> FALSE, dirty |-> FALSE, finished |-> FALSE]

QueueOf(Chunk) ==
    [items : Seq(Chunk \cup {EndMark}), waiting : BOOLEAN, dirty : BOOLEAN,
     finished : BOOLEAN]

-----------------------------------------------------------------------------
(* The producer's side. *)

(* Mutants: put adds on the other side; end() leaves a waiting get alone;  *)
(* clear() forgets the finished flag.                                      *)
PutFront(q, x) == [q EXCEPT !.items = <<x>> \o @, !.dirty = TRUE]

EndSilent(q) == [q EXCEPT !.finished = TRUE]

ClearItems(q) == [q EXCEPT !.items = IF q.dirty THEN <<>> ELSE @, !.dirty = FALSE]

Put(q, x) == [q EXCEPT !.items = Append(@, x), !.dirty = TRUE]

PutAll(q, s) ==
    IF s = <<>> THEN q ELSE [q EXCEPT !.items = @ \o s, !.dirty = TRUE]

End(q) == [(IF q.waiting THEN Put(q, EndMark) ELSE q) EXCEPT !.finished = TRUE]

(* put sets the event when, and only when, a get declared that it waits. *)
Wakes(q) == q.waiting

(* Emptied after every response; "waiting" is left as it is. *)
Clear(q) ==
    [q EXCEPT !.items = IF q.dirty THEN <<>> ELSE @,
              !.dirty = FALSE, !.finished = FALSE]

-----------------------------------------------------------------------------
(* get(), cut at its await. *)

HasItem(q) == q.items # <<>>

Pop(q) == [q EXCEPT !.items = Tail(@)]

(* The falsy results: the b'' of a finished queue, and the mark. *)
AtEnd(q) == IF HasItem(q) THEN Head(q.items) = EndMark ELSE q.finished

Wait(q) == [q EXCEPT !.waiting = TRUE]

Woken(q) == [q EXCEPT !.waiting = FALSE]
=============================================================================
