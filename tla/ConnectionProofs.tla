-------------------------- MODULE ConnectionProofs --------------------------
(***************************************************************************)
(* A connection handles one request at a time until one of them has been   *)
(* answered twice; in the settings whose requests do not disturb each      *)
(* other, every request is given its own body, answered once and in order, *)
(* and the socket is never left paused.                                    *)
(***************************************************************************)
EXTENDS Connection, SequenceTheorems, FiniteSetTheorems, TLAPS

(* What makes the invariants of Connection inductive. *)

(* The request that was begun last. *)
Now == IF at.part = 0 THEN at.req - 1 ELSE at.req

(* The parser stands within what the client sends, and stops for good at an *)
(* error; a timer of a route is that of a task.                             *)
Places ==
    /\ at.req <= Last + 1 /\ call.upto <= Last
    /\ at.part # 0 => at.req <= Last /\ at.part <= Body[at.req] + 1
    /\ Idle /\ ~poisoned /\ at.part = 1 => Body[at.req] > 0
    /\ poisoned => Idle /\ Oversized # {}
    /\ \A r \in Req : <<"route", r>> \in armed => current_task # 0

(* Requests are answered once they were begun, and when their handler is    *)
(* through with them, unless the parser failed.  The parser goes no further *)
(* than the next request of a client that had an answer to all before.      *)
Answering(r) == Sending(r) \/ Erring(r) \/ Answered(r)

Begun ==
    /\ current_task <= Now
    /\ \A r \in Req : /\ task[r] # "none" \/ Answering(r) => r <= Now
                      /\ Answering(r) /\ ~poisoned => ~Handling(r)
    /\ ~Idle => call.upto <= Cardinality(Complete) + 1 \/ call.upto <= Now

(* The connection in such a setting, before an error of its parser. *)
Calm == Orderly /\ ~poisoned

(* Then one request is processed at a time, by its handler until the        *)
(* message is whole and afterwards by a stream or an error handler.         *)
Lone ==
    /\ \A r \in Req : Running(r) => r = Now
    /\ \A r \in Req : Sending(r) => ~Erring(r)
    /\ \A e, f \in errors : e = f
    /\ at.part # 0 => Handling(at.req)
    /\ \A r \in Req : stream[r] \notin {"wait_flush", "flushed"}
    /\ \A r \in Req : stream[r] = "wait_tail" => permission \/ ~writable
    /\ ~Idle => call.upto <= at.req
    /\ ~Idle /\ at.part = 0 /\ at.req <= call.upto => \A r \in Req : ~Running(r)
    /\ May("pauses") => errors = {}
    /\ ~May("pauses") => writable

(* What the connection keeps for that request, and lets go of when it is    *)
(* answered.                                                                *)
Kept ==
    /\ ~Idle => status # "pending" /\ ~closed
    /\ \A r \in Req : Running(r) => status # "pending"
    /\ \A r \in Req : Handling(r) => request = r /\ timeout_task # NoTimer
    /\ \A r \in Req : <<"route", r>> \in armed =>
          /\ timeout_task = <<"route", r>>
          /\ May("route_timeouts") => Handling(r) /\ current_task = r
    /\ ~readable /\ ~closed => closing \/ \E r \in Req : Running(r)
    /\ (\A r \in Req : ~Running(r)) =>
          closed \/ (timeout_task = NoTimer /\ ~queue.finished /\ ~consumed)

(* The chunks of request r that were parsed. *)
Parts(r) == IF at.req = r /\ at.part # 0 THEN at.part - 1 ELSE Body[r]

(* The handler has a prefix of the body and the queue what follows, with    *)
(* at most the end mark behind it; when no handler is there, nothing.       *)
Unread(r) ==
    LET n == Parts(r) - Len(got[r]) IN
    /\ n >= 0 /\ Len(queue.items) \in {n, n + 1}
    /\ \A j \in 1 .. n : queue.items[j] = <<r, Len(got[r]) + j>>
    /\ Len(queue.items) = n + 1 => queue.items[n + 1] = EndMark /\ queue.finished

Reading ==
    /\ \A r \in Req : \A i \in DOMAIN got[r] : got[r][i] = <<r, i>>
    /\ \A r \in eof : r < at.req /\ Len(got[r]) = Body[r]
    /\ \A r \in Req : r > Now => got[r] = <<>>
    /\ (\A r \in Req : ~Handling(r)) => queue.items = <<>> /\ ~queue.waiting
    /\ \A r \in Req : Handling(r) =>
         /\ Unread(r)
         /\ queue.finished <=> at.part = 0
         /\ queue.waiting <=> task[r] # "endpoint"
         /\ task[r] = "blocked" => queue.items = <<>> /\ ~queue.finished
         /\ task[r] = "woken" => queue.items # <<>>
         /\ consumed <=> r \in eof
         /\ consumed \/ Body[r] = 0 => queue.items = <<>> /\ task[r] = "endpoint"

(* The answers are in the order of the requests, and that of the request    *)
(* being processed is still to come, or was written but for its flush.      *)
Answers ==
    /\ \A i, j \in Complete : i < j => out[i].req < out[j].req
    /\ \A i \in Complete : Running(out[i].req) => stream[out[i].req] = "wait_tail"
    /\ Cardinality(Complete) <= Now
    /\ \A r \in Req : Running(r) /\ stream[r] # "wait_tail" => Cardinality(Complete) < Now
    /\ \A i \in 1 .. Len(out) : out[i].kind = "head" =>
          IF i = Len(out)
          THEN closed \/ stream[out[i].req] \in {"wait_head", "body", "wait_chunk"}
          ELSE out[i + 1] = [req |-> out[i].req, kind |-> "tail"]

(* The body of a request over the limit is not parsed beyond the chunk that *)
(* passes it, and the handler that is left behind never sees its end.       *)
Refused ==
    IF poisoned
    THEN /\ ~queue.finished /\ \A i \in DOMAIN queue.items : queue.items[i] # EndMark
         /\ \A r \in Req : Handling(r) => Body[r] > 0 /\ r \notin eof
    ELSE \A r \in Oversized : r >= at.req /\ (r = at.req => at.part <= Limit[r] + 1)

IInv == /\ TypeOK /\ Places /\ Begun /\ OneHandler
        /\ Calm => Lone /\ Kept /\ Reading /\ Answers
        /\ Orderly => Refused
        /\ RejectedNotServed

-----------------------------------------------------------------------------
Chunks == Req \X Nat
Items == Seq(Chunks \cup {EndMark})
Tasks == {"none", "endpoint", "blocked", "woken", "after_sent", "done", "cancelled"}
Streams == {"none", "start", "wait_head", "body", "wait_chunk", "wait_tail", "wait_flush",
            "flushed", "done", "cancelled"}
Failures == [req : Req, cause : {"parser", "handler", "hook", "timeout"} \X Nat]

(* The queue and what its operators do to it. *)
QueueRecord(S) == [items : S, waiting : BOOLEAN, dirty : BOOLEAN, finished : BOOLEAN]

LEMMA QueueUpdate ==
    ASSUME NEW S, NEW q \in QueueRecord(S), NEW s \in S
    PROVE  /\ [q EXCEPT !.items = s] \in QueueRecord(S)
           /\ [q EXCEPT !.items = s, !.dirty = TRUE] \in QueueRecord(S)
           /\ [q EXCEPT !.items = s, !.dirty = FALSE, !.finished = FALSE] \in QueueRecord(S)
           /\ [q EXCEPT !.finished = TRUE] \in QueueRecord(S)
           /\ [q EXCEPT !.waiting = TRUE] \in QueueRecord(S)
           /\ [q EXCEPT !.waiting = FALSE] \in QueueRecord(S)
BY DEF QueueRecord

LEMMA QueueFields ==
    /\ QueueOf(Chunks) = QueueRecord(Items)
    /\ \A q \in QueueOf(Chunks) :
          /\ q.items \in Items /\ q.waiting \in BOOLEAN /\ q.dirty \in BOOLEAN
          /\ q.finished \in BOOLEAN
    /\ <<>> \in Items /\ \A s \in Items : Len(s) \in Nat
<1>1. QueueOf(Chunks) = QueueRecord(Items)
  BY DEF QueueOf, Items, QueueRecord
<1>2. \A q \in QueueRecord(Items) :
        /\ q.items \in Items /\ q.waiting \in BOOLEAN /\ q.dirty \in BOOLEAN
        /\ q.finished \in BOOLEAN
  BY DEF QueueRecord
<1>3. <<>> \in Items /\ \A s \in Items : Len(s) \in Nat
  BY DEF Items
<1> QED
  BY <1>1, <1>2, <1>3

LEMMA ClearProperties ==
    ASSUME NEW q \in QueueOf(Chunks)
    PROVE  /\ Clear(q) \in QueueOf(Chunks)
           /\ Clear(q).items = <<>> \/ Clear(q).items = q.items
           /\ Clear(q).waiting = q.waiting /\ Clear(q).finished = FALSE
<1> DEFINE s == IF q.dirty THEN <<>> ELSE q.items
<1>1. s \in Items /\ (s = <<>> \/ s = q.items) /\ q \in QueueRecord(Items)
  BY QueueFields
<1>2. Clear(q) = [q EXCEPT !.items = s, !.dirty = FALSE, !.finished = FALSE]
  BY DEF Clear
<1> HIDE DEF s
<1>3. Clear(q) \in QueueRecord(Items)
  BY <1>1, <1>2, QueueUpdate
<1>4. Clear(q).items = s /\ Clear(q).waiting = q.waiting /\ Clear(q).finished = FALSE
  BY <1>1, <1>2 DEF QueueRecord
<1> QED
  BY <1>1, <1>3, <1>4, QueueFields

LEMMA PutProperties ==
    ASSUME NEW q \in QueueOf(Chunks), NEW x \in Chunks \cup {EndMark}
    PROVE  /\ Put(q, x) \in QueueOf(Chunks)
           /\ Put(q, x).items = Append(q.items, x)
           /\ Put(q, x).waiting = q.waiting /\ Put(q, x).finished = q.finished
<1> DEFINE s == Append(q.items, x)
<1>1. s \in Items /\ q \in QueueRecord(Items)
  BY QueueFields DEF Items
<1>2. Put(q, x) = [q EXCEPT !.items = s, !.dirty = TRUE]
  BY DEF Put
<1> HIDE DEF s
<1>3. Put(q, x) \in QueueRecord(Items)
  BY <1>1, <1>2 DEF QueueRecord
<1>4. Put(q, x).items = s /\ Put(q, x).waiting = q.waiting /\ Put(q, x).finished = q.finished
  BY <1>1, <1>2 DEF QueueRecord
<1> QED
  BY <1>3, <1>4, QueueFields DEF s

LEMMA EndProperties ==
    ASSUME NEW q \in QueueOf(Chunks)
    PROVE  /\ End(q) \in QueueOf(Chunks)
           /\ End(q).items = IF q.waiting THEN Append(q.items, EndMark) ELSE q.items
           /\ End(q).waiting = q.waiting /\ End(q).finished = TRUE
<1> DEFINE p == IF q.waiting THEN Put(q, EndMark) ELSE q
<1>1. /\ p \in QueueRecord(Items) /\ p.waiting = q.waiting
      /\ p.items = IF q.waiting THEN Append(q.items, EndMark) ELSE q.items
  <2>1. EndMark \in Chunks \cup {EndMark} /\ QueueOf(Chunks) = QueueRecord(Items)
    BY QueueFields
  <2>2. /\ Put(q, EndMark) \in QueueOf(Chunks)
        /\ Put(q, EndMark).items = Append(q.items, EndMark)
        /\ Put(q, EndMark).waiting = q.waiting
    BY <2>1, PutProperties
  <2> QED
    BY <2>1, <2>2
<1>2. End(q) = [p EXCEPT !.finished = TRUE]
  BY DEF End
<1> HIDE DEF p
<1>3. End(q) \in QueueRecord(Items)
  BY <1>1, <1>2, QueueUpdate, QueueFields
<1>4. End(q).items = p.items /\ End(q).waiting = p.waiting /\ End(q).finished = TRUE
  BY <1>1, <1>2 DEF QueueRecord
<1> QED
  BY <1>1, <1>3, <1>4, QueueFields

LEMMA WaitProperties ==
    ASSUME NEW q \in QueueOf(Chunks)
    PROVE  /\ Wait(q) \in QueueOf(Chunks) /\ Wait(q).items = q.items
           /\ Wait(q).waiting = TRUE /\ Wait(q).finished = q.finished
           /\ Woken(q) \in QueueOf(Chunks) /\ Woken(q).items = q.items
           /\ Woken(q).waiting = FALSE /\ Woken(q).finished = q.finished
<1>1. q \in QueueRecord(Items)
  BY QueueFields
<1>2. Wait(q) \in QueueRecord(Items) /\ Woken(q) \in QueueRecord(Items)
  BY <1>1, QueueUpdate, QueueFields DEF Wait, Woken
<1>3. /\ Wait(q).items = q.items /\ Wait(q).waiting = TRUE /\ Wait(q).finished = q.finished
      /\ Woken(q).items = q.items /\ Woken(q).waiting = FALSE
      /\ Woken(q).finished = q.finished
  BY <1>1 DEF QueueRecord, Wait, Woken
<1> QED
  BY <1>2, <1>3, QueueFields

LEMMA PopProperties ==
    ASSUME NEW q \in QueueOf(Chunks), HasItem(q)
    PROVE  /\ Pop(q) \in QueueOf(Chunks) /\ Pop(q).items = Tail(q.items)
           /\ Pop(q).waiting = q.waiting /\ Pop(q).finished = q.finished
           /\ Head(q.items) \in Chunks \cup {EndMark}
<1> DEFINE s == Tail(q.items)
<1>1. s \in Items /\ Head(q.items) \in Chunks \cup {EndMark} /\ q \in QueueRecord(Items)
  <2>1. q.items \in Seq(Chunks \cup {EndMark}) /\ q.items # <<>> /\ q \in QueueRecord(Items)
    BY QueueFields DEF HasItem, Items
  <2> QED
    BY <2>1, HeadTailProperties DEF Items
<1>2. Pop(q) = [q EXCEPT !.items = s]
  BY DEF Pop
<1> HIDE DEF s
<1>3. Pop(q) \in QueueRecord(Items)
  BY ZenonT(60), <1>1, <1>2, QueueUpdate
<1>4. Pop(q).items = s /\ Pop(q).waiting = q.waiting /\ Pop(q).finished = q.finished
  BY <1>1, <1>2 DEF QueueRecord
<1> QED
  BY <1>1, <1>3, <1>4, QueueFields DEF s

-----------------------------------------------------------------------------
(* The setting stays, and so does what is read from it. *)
LEMMA SettingProperties ==
    ASSUME setting \in Settings
    PROVE  /\ Body \in Seq(Nat) /\ Last \in 1 .. R /\ Last \in Nat /\ R \in Nat
           /\ \A r \in 1 .. Last : Body[r] \in Nat /\ r \in Req
           /\ \A r \in 1 .. Last : Limit[r] \in Nat
           /\ \A r \in Oversized :
                 r \in 1 .. Last /\ r \in Req /\ Limit[r] > 0 /\ Limit[r] < Body[r]
<1>1. setting \in Setting /\ Len(setting.body) \in Req
  BY SettingsAssumption
<1>2. Len(setting.limit) = Len(setting.body)
  BY SettingsAssumption
<1>3. setting.body \in Seq(Nat) /\ setting.limit \in Seq(Nat)
  BY <1>1 DEF Setting
<1>4. Last \in 1 .. R /\ Last \in Nat /\ R \in Nat /\ Body \in Seq(Nat)
  BY <1>1, <1>3, RequestsAssumption DEF Last, Body, Req
<1>5. \A r \in 1 .. Last : Body[r] \in Nat /\ r \in Req
  BY <1>4 DEF Last, Req
<1>6. \A r \in 1 .. Last : Limit[r] \in Nat
  BY <1>2, <1>3 DEF Last, Body, Limit
<1> QED
  BY <1>4, <1>5, <1>6 DEF Oversized

LEMMA SettingStays ==
    ASSUME setting' = setting
    PROVE  /\ Body' = Body /\ Last' = Last /\ Limit' = Limit /\ Oversized' = Oversized
           /\ Orderly' = Orderly /\ Tame' = Tame /\ \A f : May(f)' = May(f)
BY DEF Body, Last, Limit, Oversized, Orderly, Tame, May, Cached, Upgrades

Typed == TypeOK /\ Places

(* What a step is. *)
LEMMA StepCases ==
    ASSUME [Next]_vars
    PROVE  /\ setting' = setting
           /\ \/ DataReceived \/ DataRefused \/ FeedDone \/ OnHeadersComplete \/ OnBody
              \/ BodyLimit \/ OnMessageComplete \/ ResumeWriting \/ ConnectionLost
              \/ Stop \/ ScheduledClose \/ ErrorHandlerRaises \/ UNCHANGED vars
              \/ \E r \in Req : \/ ReadBody(r) \/ ReadResumes(r) \/ Answer(r) \/ AnswerStream(r)
                                \/ Fail(r) \/ HooksDone(r) \/ CancelRequest(r)
                                \/ CancelStreamingTask(r) \/ StreamHead(r) \/ StreamChunk(r)
                                \/ StreamTail(r) \/ StreamWake(r) \/ StreamDone(r)
                                \/ ChunkTimeout(r)
              \/ \E e \in errors : HandleException(e)
<1>1. setting' = setting
  BY DEF Next, vars
<1>2. CASE Step
  BY <1>1, <1>2 DEF Step, Parsing, Handler, Streaming, Timer
<1> QED
  BY <1>1, <1>2 DEF Next

(* Where the parser goes. *)
LEMMA AfterProperties ==
    ASSUME Typed
    PROVE  /\ at.req \in 1 .. R + 1 /\ at.part \in Nat /\ Last \in Nat /\ at.req \in Nat
           /\ at.req <= Last => at.req \in Req /\ Body[at.req] \in Nat
           /\ Ends(at) <=> at.part = Body[at.req] + 1
           /\ Ends(at) => After(at) = [req |-> at.req + 1, part |-> 0]
           /\ ~Ends(at) => After(at) = [req |-> at.req, part |-> at.part + 1]
           /\ at.req <= Last => After(at) \in [req : 1 .. R + 1, part : Nat]
<1>1. at \in [req : 1 .. R + 1, part : Nat] /\ R \in Nat
  BY RequestsAssumption DEF Typed, TypeOK
<1>2. /\ Last \in 1 .. R /\ Last \in Nat
      /\ \A r \in 1 .. Last : Body[r] \in Nat /\ r \in Req
  BY SettingProperties DEF Typed, TypeOK
<1>3. at.req \in 1 .. R + 1 /\ at.part \in Nat /\ at.req \in Nat
  BY <1>1
<1>4. at.req <= Last => at.req \in 1 .. Last
  BY <1>2, <1>3
<1>5. ~Ends(at) => After(at) = [req |-> at.req, part |-> at.part + 1]
  BY <1>1 DEF After
<1>6. Ends(at) => After(at) = [req |-> at.req + 1, part |-> 0]
  BY DEF After
<1>7. at.req <= Last => at.req + 1 \in 1 .. R + 1 /\ at.part + 1 \in Nat
  BY <1>1, <1>2, <1>3
<1> QED
  BY <1>2, <1>3, <1>4, <1>5, <1>6, <1>7 DEF Ends

LEMMA LimitProperties ==
    ASSUME Typed, at.part # 0, ~Ends(at), at.req <= Last
    PROVE  /\ ~WithinLimit(at) => at.req \in Oversized
           /\ WithinLimit(at) /\ at.req \in Oversized => at.part <= Limit[at.req]
<1>1. /\ at.part \in Nat /\ at.req \in 1 .. Last /\ Limit[at.req] \in Nat
      /\ Body[at.req] \in Nat /\ at.part # Body[at.req] + 1
      /\ at.part # 0 => at.part <= Body[at.req] + 1
  <2>1. at.part \in Nat /\ at.req \in 1 .. R + 1 /\ Last \in Nat /\ R \in Nat
    BY AfterProperties, RequestsAssumption
  <2>2. at.req \in 1 .. Last
    BY <2>1
  <2> QED
    BY <2>1, <2>2, AfterProperties, SettingProperties DEF Typed, TypeOK, Places
<1>2. at.part <= Body[at.req]
  BY <1>1
<1>3. at.req \in Oversized <=> 0 < Limit[at.req] /\ Limit[at.req] < Body[at.req]
  BY <1>1 DEF Oversized
<1> QED
  BY <1>1, <1>2, <1>3 DEF WithinLimit

LEMMA CompleteProperties ==
    ASSUME Typed
    PROVE  /\ IsFiniteSet(Complete) /\ Cardinality(Complete) \in Nat
           /\ Len(out) \in Nat /\ Complete \subseteq 1 .. Len(out)
           /\ \A i \in 1 .. Len(out) : out[i] \in Piece /\ out[i].req \in Req
<1>1. out \in Seq(Piece)
  BY DEF Typed, TypeOK
<1>2. Len(out) \in Nat /\ \A i \in 1 .. Len(out) : out[i] \in Piece
  BY <1>1
<1>3. IsFiniteSet(1 .. Len(out)) /\ Complete \subseteq 1 .. Len(out)
  BY <1>2, FS_Interval DEF Complete
<1>4. IsFiniteSet(Complete)
  BY <1>3, FS_Subset
<1> QED
  BY <1>2, <1>3, <1>4, FS_CardinalityType DEF Piece

LEMMA SentProperties ==
    ASSUME Typed
    PROVE  /\ SentUpTo \in 0 .. Last
           /\ at.part # 0 /\ ~writable => SentUpTo = at.req
           /\ at.part = 0 /\ ~writable => SentUpTo = 0
           /\ writable /\ SentUpTo # 0 => /\ SentUpTo <= Cardinality(Complete) + 1
                                          /\ at.req <= Cardinality(Complete) + 1
<1>1. /\ Cardinality(Complete) \in Nat /\ Last \in Nat /\ at.req \in Nat
      /\ at.req \in 1 .. R + 1 /\ R \in Nat
  BY CompleteProperties, AfterProperties, RequestsAssumption
<1>2. at.part # 0 => at.req <= Last
  BY DEF Typed, Places
<1> DEFINE n == Cardinality(Complete)
<1>3. SentUpTo = IF at.part # 0 /\ ~writable THEN at.req
                 ELSE IF ~writable \/ n + 1 < at.req THEN 0
                 ELSE IF n < Last THEN n + 1 ELSE Last
  BY DEF SentUpTo
<1>4. n \in Nat
  BY <1>1
<1> HIDE DEF n
<1>5. CASE at.part # 0 /\ ~writable
  <2>1. at.req \in 0 .. Last
    BY <1>1, <1>2, <1>5
  <2> QED
    BY <1>3, <1>5, <2>1
<1>6. CASE at.part = 0 /\ ~writable
  <2>1. SentUpTo = 0 /\ 0 \in 0 .. Last
    BY <1>1, <1>3, <1>6
  <2> QED
    BY <1>6, <2>1
<1>7. CASE writable
  <2>1. SentUpTo = IF n + 1 < at.req THEN 0 ELSE IF n < Last THEN n + 1 ELSE Last
    BY <1>3, <1>7
  <2>2. /\ SentUpTo \in 0 .. Last
        /\ SentUpTo # 0 => SentUpTo <= n + 1 /\ at.req <= n + 1
    BY <1>1, <1>4, <2>1
  <2> QED
    BY <1>7, <2>2 DEF n
<1> QED
  BY <1>5, <1>6, <1>7

-----------------------------------------------------------------------------
(* Writing and what follows a response. *)
LEMMA WriteProperties ==
    ASSUME Typed, NEW r \in Req, NEW kind \in {"full", "error", "head", "tail"}, Write(r, kind)
    PROVE  /\ out' = IF closed THEN out ELSE Append(out, [req |-> r, kind |-> kind])
           /\ out' \in Seq(Piece)
           /\ writable' \in BOOLEAN /\ (writable' => writable)
           /\ ~May("pauses") => writable' = writable
<1>1. [req |-> r, kind |-> kind] \in Piece /\ out \in Seq(Piece)
  BY DEF Typed, TypeOK, Piece
<1>2. Append(out, [req |-> r, kind |-> kind]) \in Seq(Piece)
  BY <1>1
<1>3. writable \in BOOLEAN /\ closed \in BOOLEAN
  BY DEF Typed, TypeOK
<1>4. May("pauses") \in BOOLEAN
  BY DEF May
<1> QED
  BY <1>1, <1>2, <1>3, <1>4 DEF Write

(* The state after a response, or what is left as it is before. *)
Rested ==
    /\ status' = "pending" /\ consumed' = FALSE /\ timeout_task' = NoTimer /\ request' = 0
    /\ queue' \in QueueOf(Chunks) /\ ~queue'.finished
    /\ queue'.items = <<>> \/ queue'.items = queue.items
    /\ queue'.waiting = queue.waiting
    /\ armed' = armed \ {timeout_task}
    /\ closed' \in BOOLEAN /\ readable' \in BOOLEAN /\ closing' \in BOOLEAN
    /\ closed => closed'
    /\ closed' \/ closing' \/ readable'

LEMMA AfterResponseProperties ==
    ASSUME Typed, AfterResponse
    PROVE  Rested
<1>1. queue \in QueueOf(Chunks) /\ {closed, closing, readable, stopped} \subseteq BOOLEAN
  BY DEF Typed, TypeOK, Chunks
<1>2. May("keep_alive") \in BOOLEAN
  BY DEF May
<1>3. /\ Clear(queue) \in QueueOf(Chunks)
      /\ Clear(queue).items = <<>> \/ Clear(queue).items = queue.items
      /\ Clear(queue).waiting = queue.waiting /\ Clear(queue).finished = FALSE
  BY <1>1, ClearProperties
<1> QED
  BY <1>1, <1>2, <1>3 DEF AfterResponse, Rested

LEMMA SendProperties ==
    ASSUME Typed, NEW r \in Req, NEW kind \in {"full", "error"}, NEW q, Send(r, kind, q)
    PROVE  /\ Write(r, kind)
           /\ \/ writable' /\ Rested
              \/ ~writable' /\ NotYet /\ request' = q
  BY AfterResponseProperties DEF Send

-----------------------------------------------------------------------------
(* Types. *)
LEMMA NotYetTyped ==
    ASSUME Typed, Rested \/ (NotYet /\ request' \in 0 .. R)
    PROVE  /\ status' \in {"pending", "receiving", "processing"}
           /\ readable' \in BOOLEAN /\ closed' \in BOOLEAN /\ consumed' \in BOOLEAN
           /\ closing' \in BOOLEAN /\ request' \in 0 .. R
           /\ timeout_task' \in {NoTimer} \cup Timers /\ armed' \subseteq Timers
           /\ armed' \subseteq armed
           /\ queue' \in QueueOf(Req \X Nat)
<1>1. R \in Nat /\ 0 \in 0 .. R
  BY RequestsAssumption
<1> QED
  BY <1>1 DEF Rested, NotYet, Typed, TypeOK, Chunks

LEMMA TypedReceive ==
    ASSUME Typed, setting' = setting,
           \/ DataReceived \/ DataRefused \/ FeedDone \/ ResumeWriting \/ ConnectionLost
           \/ Stop \/ ScheduledClose \/ ErrorHandlerRaises \/ UNCHANGED vars
    PROVE  Typed'
<1> USE DEF Typed, TypeOK, Places, Idle
<1>0. /\ SentUpTo \in 0 .. Last /\ Last \in 1 .. R /\ R \in Nat /\ Last \in Nat
      /\ Body' = Body /\ Last' = Last /\ Limit' = Limit /\ Oversized' = Oversized
  BY SentProperties, SettingProperties, SettingStays
<1>1. CASE DataReceived
  <2>1. SentUpTo \in 0 .. R /\ at.req \in Nat /\ at.req <= SentUpTo
    BY <1>0, <1>1, AfterProperties DEF DataReceived
  <2>2. call' \in [upto : 0 .. R, empty : BOOLEAN] /\ call'.upto = SentUpTo
    BY <1>1, <2>1 DEF DataReceived
  <2>3. SentUpTo # 0
    BY <1>0, <2>1, AfterProperties
  <2>4. TypeOK'
    BY <1>1, <2>2 DEF DataReceived, slots, shared, loop, seen
  <2>5. Places'
    BY <1>0, <1>1, <2>2, <2>3 DEF DataReceived, slots, shared, loop, seen
  <2> QED
    BY <2>4, <2>5
<1>2. CASE DataRefused
  <2>1. at.req <= Last /\ at.req \in Req /\ at.part \in Nat
    BY <1>0, <1>2, AfterProperties DEF DataRefused
  <2>2. Raise(at.req, <<"parser", at.part>>) \in Failures
    BY <2>1 DEF Raise, Failures
  <2>3. TypeOK'
    <3>1. at' \in [req : 1 .. R + 1, part : Nat]
      BY <1>2, <2>1, AfterProperties DEF DataRefused
    <3>2. errors' \subseteq Failures
      BY <1>2, <2>2 DEF DataRefused, Failures
    <3>3. /\ UNCHANGED <<setting, writable, permission, closed, stopped, current_task, timeout_task,
                         request, queue, consumed, call, poisoned, armed, task, stream, closing,
                         out, got, eof>>
          /\ status' = "receiving" /\ readable' = FALSE
      BY <1>2 DEF DataRefused, slots, shared, seen
    <3> QED
      BY ZenonT(60), <3>1, <3>2, <3>3 DEF Failures
  <2>4. Places'
    <3>1. /\ at'.req <= Last + 1
          /\ at'.part # 0 => at'.req <= Last /\ at'.part <= Body[at'.req] + 1
      <4>1. at' = After(at)
        BY <1>2 DEF DataRefused
      <4>2. CASE Ends(at)
        <5>1. at'.req = at.req + 1 /\ at'.part = 0
          BY <4>1, <4>2, AfterProperties
        <5> QED
          BY <1>0, <2>1, <5>1
      <4>3. CASE ~Ends(at)
        <5>1. at'.req = at.req /\ at'.part = at.part + 1
          BY SMTT(30), <4>1, <4>3, AfterProperties
        <5>2. at.part <= Body[at.req] /\ Body[at.req] \in Nat
          <6>1. Body[at.req] \in Nat /\ at.part \in Nat /\ at.part # Body[at.req] + 1
            BY <2>1, <4>3, AfterProperties
          <6>2. at.part = 0 \/ at.part <= Body[at.req] + 1
            BY <1>0
          <6> QED
            BY <6>1, <6>2
        <5> QED
          BY <1>0, <2>1, <5>1, <5>2
      <4> QED
        BY <4>2, <4>3
    <3> QED
      BY <1>0, <1>2, <3>1 DEF DataRefused, slots
  <2> QED
    BY <2>3, <2>4
<1>3. CASE FeedDone
  <2>1. call' = [upto |-> 0, empty |-> TRUE] /\ 0 \in 0 .. R /\ 0 <= Last
    BY <1>0, <1>3 DEF FeedDone
  <2>2. TypeOK'
    BY <1>3, <2>1 DEF FeedDone, conn, slots, shared, loop, seen
  <2>3. at.part = 1 => Body[at.req] > 0
    <3>1. at.part = 1 => at.req <= Last /\ Body[at.req] \in Nat /\ Body[at.req] # 0
      BY <1>3, AfterProperties DEF FeedDone
    <3> QED
      BY <3>1
  <2>4. Places'
    BY <1>0, <1>3, <2>1, <2>3 DEF FeedDone, conn, slots, shared, loop, seen
  <2> QED
    BY <2>2, <2>4
<1>4. CASE ResumeWriting \/ ConnectionLost \/ Stop \/ ScheduledClose \/ UNCHANGED vars
  <2>1. /\ UNCHANGED <<current_task, timeout_task, request, queue, consumed, at, call, poisoned,
                       armed, task, errors, stream, out, got, eof, status, readable>>
        /\ writable' \in BOOLEAN /\ permission' \in BOOLEAN /\ closed' \in BOOLEAN
        /\ stopped' \in BOOLEAN /\ closing' \in BOOLEAN
    BY <1>4 DEF ResumeWriting, ConnectionLost, Stop, ScheduledClose, vars, state, conn, slots,
                shared, parser, loop, seen
  <2>2. TypeOK'
    BY <2>1
  <2>3. Places'
    BY <1>0, <2>1
  <2> QED
    BY <2>2, <2>3
<1>5. CASE ErrorHandlerRaises
  <2>1. /\ UNCHANGED <<setting, status, readable, writable, permission, closed, stopped,
                       current_task, timeout_task, request, queue, consumed, at, call,
                       poisoned, armed, task, stream, closing, out, got, eof>>
        /\ errors' \subseteq errors
    BY <1>5 DEF ErrorHandlerRaises, conn, slots, shared, parser, seen
  <2>2. TypeOK'
    BY <2>1
  <2>3. Places'
    BY <1>0, <2>1
  <2> QED
    BY <2>2, <2>3
<1> QED
  BY <1>1, <1>2, <1>3, <1>4, <1>5

LEMMA WokeProperties ==
    ASSUME Typed
    PROVE  /\ Woke \in [Req -> Tasks]
           /\ \A r \in Req : Woke[r] = IF task[r] = "blocked" /\ Wakes(queue) THEN "woken"
                                       ELSE task[r]
BY DEF Woke, Typed, TypeOK, Tasks

LEMMA TypedParse ==
    ASSUME Typed, setting' = setting,
           OnHeadersComplete \/ OnBody \/ BodyLimit \/ OnMessageComplete
    PROVE  Typed'
<1> USE DEF Typed
<1>0. /\ Last \in 1 .. R /\ R \in Nat /\ Last \in Nat
      /\ Body' = Body /\ Last' = Last /\ Limit' = Limit /\ Oversized' = Oversized
  BY SettingProperties, SettingStays DEF TypeOK
<1>1. /\ at.req <= call.upto /\ call.upto \in 0 .. R /\ call.upto <= Last /\ call.empty \in BOOLEAN
      /\ call \in [upto : 0 .. R, empty : BOOLEAN]
  BY DEF OnHeadersComplete, OnBody, BodyLimit, OnMessageComplete, TypeOK, Places
<1>2. /\ at.req \in 1 .. R + 1 /\ at.req \in Nat /\ at.part \in Nat /\ at.req <= Last
      /\ at.req \in Req /\ Body[at.req] \in Nat /\ ~Idle
  BY <1>0, <1>1, AfterProperties DEF Idle
<1>3. /\ at' = After(at) /\ at' \in [req : 1 .. R + 1, part : Nat]
      /\ at'.req <= Last + 1
      /\ at'.part # 0 => at'.req <= Last /\ at'.part <= Body[at'.req] + 1
  <2>1. at' = After(at)
    BY DEF OnHeadersComplete, OnBody, BodyLimit, OnMessageComplete, Parsed
  <2>2. After(at) \in [req : 1 .. R + 1, part : Nat]
    BY <1>2, AfterProperties
  <2>3. CASE Ends(at)
    <3>1. at'.req = at.req + 1 /\ at'.part = 0
      BY <2>1, <2>3, AfterProperties
    <3> QED
      BY <1>0, <1>2, <2>1, <2>2, <3>1
  <2>4. CASE ~Ends(at)
    <3>1. at'.req = at.req /\ at'.part = at.part + 1 /\ at.part # Body[at.req] + 1
      BY <2>1, <2>4, AfterProperties
    <3>2. at.part # 0 => at.part <= Body[at.req] + 1
      BY DEF Places
    <3>3. at.part + 1 <= Body[at.req] + 1
      BY <1>2, <3>1, <3>2
    <3> QED
      BY <1>0, <1>2, <2>1, <2>2, <3>1, <3>3
  <2> QED
    BY <2>3, <2>4
<1>4. at'.part = 1 => at.part = 0
  BY <1>2, <1>3, AfterProperties
<1>5. ASSUME Parsed
      PROVE  call' \in [upto : 0 .. R, empty : BOOLEAN] /\ call'.upto = call.upto /\ ~Idle'
  <2>1. call' = [call EXCEPT !.empty = FALSE]
    BY <1>5 DEF Parsed
  <2> QED
    BY <1>1, <1>2, <2>1 DEF Idle
<1>6. CASE OnHeadersComplete
  <2> DEFINE r == at.req
  <2>1. Parsed /\ UNCHANGED poisoned /\ ~poisoned
    BY <1>2, <1>6 DEF OnHeadersComplete, Places
  <2>2. <<"route", r>> \in Timers /\ r \in 0 .. R /\ r # 0
    BY <1>2 DEF Timers, Req
  <2>3. CASE request' = r /\ UNCHANGED <<conn, current_task, timeout_task, shared, loop, seen>>
    <3>1. TypeOK'
      BY <1>3, <1>5, <2>1, <2>2, <2>3 DEF TypeOK, conn, shared, loop, seen
    <3>2. Places'
      BY <1>0, <1>1, <1>3, <1>5, <2>1, <2>3 DEF Places, loop
    <3> QED
      BY <3>1, <3>2
  <2>4. CASE /\ Send(r, "full", r)
             /\ UNCHANGED <<permission, stopped, current_task, task, errors, stream, got, eof>>
    <3>1. Write(r, "full") /\ (Rested \/ (NotYet /\ request' = r))
      BY <1>2, <2>4, SendProperties
    <3>2. out' \in Seq(Piece) /\ writable' \in BOOLEAN
      BY <1>2, <3>1, WriteProperties
    <3>3. Rested \/ (NotYet /\ request' \in 0 .. R)
      BY <2>2, <3>1
    <3>4. /\ status' \in {"pending", "receiving", "processing"}
          /\ readable' \in BOOLEAN /\ closed' \in BOOLEAN /\ consumed' \in BOOLEAN
          /\ closing' \in BOOLEAN /\ request' \in 0 .. R
          /\ timeout_task' \in {NoTimer} \cup Timers /\ armed' \subseteq Timers
          /\ armed' \subseteq armed /\ queue' \in QueueOf(Req \X Nat)
      BY <3>3, NotYetTyped
    <3>5. TypeOK'
      BY <1>3, <1>5, <2>1, <2>4, <3>2, <3>4 DEF TypeOK
    <3>6. Places'
      BY <1>0, <1>1, <1>3, <1>5, <2>1, <2>4, <3>4 DEF Places
    <3> QED
      BY <3>5, <3>6
  <2>5. CASE /\ request' = r
             /\ task' = [task EXCEPT ![r] = "endpoint"]
             /\ current_task' = r
             /\ timeout_task' = <<"route", r>>
             /\ armed' = armed \cup {<<"route", r>>}
             /\ UNCHANGED <<conn, shared, errors, stream, closing, seen>>
    <3>1. TypeOK'
      BY ZenonT(60), <1>2, <1>3, <1>5, <2>1, <2>2, <2>5 DEF TypeOK, conn, shared, seen
    <3>2. Places'
      BY <1>0, <1>1, <1>3, <1>5, <2>1, <2>2, <2>5 DEF Places
    <3> QED
      BY <3>1, <3>2
  <2> QED
    BY <1>6, <2>3, <2>4, <2>5 DEF OnHeadersComplete
<1>7. CASE OnBody \/ OnMessageComplete
  <2>1. Parsed /\ UNCHANGED poisoned /\ ~poisoned
    BY <1>2, <1>7 DEF OnBody, OnMessageComplete, Places
  <2>2. queue' \in QueueOf(Req \X Nat)
    <3>1. queue \in QueueOf(Chunks) /\ <<at.req, at.part>> \in Chunks \cup {EndMark}
      BY <1>2 DEF Chunks, TypeOK
    <3>2. Put(queue, <<at.req, at.part>>) \in QueueOf(Chunks) /\ End(queue) \in QueueOf(Chunks)
      BY <3>1, PutProperties, EndProperties
    <3>3. queue' = Put(queue, <<at.req, at.part>>) \/ queue' = End(queue)
      BY <1>7 DEF OnBody, OnMessageComplete
    <3> QED
      BY <3>2, <3>3 DEF Chunks
  <2>3. /\ UNCHANGED <<writable, permission, closed, stopped, slots, consumed, armed, errors,
                       stream, closing, seen>>
        /\ task' = Woke /\ status' \in {status, "processing"} /\ readable' \in {readable, FALSE}
    BY <1>7 DEF OnBody, OnMessageComplete
  <2>4. TypeOK'
    <3>1. task' \in [Req -> Tasks]
      BY <2>3, WokeProperties
    <3> QED
      BY ZenonT(60), <1>3, <1>5, <2>1, <2>2, <2>3, <3>1 DEF TypeOK, Tasks, slots, seen
  <2>5. Places'
    BY <1>0, <1>1, <1>3, <1>5, <2>1, <2>3 DEF Places, slots
  <2> QED
    BY <2>4, <2>5
<1>8. CASE BodyLimit
  <2>1. Raise(at.req, <<"parser", at.part>>) \in Failures
    BY <1>2 DEF Raise, Failures
  <2>2. /\ UNCHANGED <<status, writable, permission, closed, stopped, slots, shared, armed, task,
                       stream, closing, seen>>
        /\ readable' = FALSE /\ poisoned' = TRUE
        /\ call' = [upto |-> 0, empty |-> TRUE]
        /\ errors' = errors \cup {Raise(at.req, <<"parser", at.part>>)}
    BY <1>8 DEF BodyLimit
  <2>3. call' \in [upto : 0 .. R, empty : BOOLEAN] /\ call'.upto = 0 /\ 0 <= Last
    BY <1>0, <2>2
  <2>4. errors' \subseteq Failures
    BY <2>1, <2>2 DEF TypeOK, Failures
  <2>5. TypeOK'
    BY ZenonT(60), <1>3, <2>2, <2>3, <2>4 DEF TypeOK, slots, shared, seen, Failures
  <2>6. at.req \in Oversized
    BY <1>2, <1>8, LimitProperties DEF BodyLimit
  <2>7. Places'
    BY <1>0, <1>3, <2>2, <2>3, <2>6 DEF Places, slots, Idle
  <2> QED
    BY <2>5, <2>7
<1> QED
  BY <1>6, <1>7, <1>8

LEMMA TakeTyped ==
    ASSUME Typed, NEW r \in Req, NEW resumed \in BOOLEAN, HasItem(queue) \/ queue.finished,
           Take(r, resumed)
    PROVE  /\ got' \in [Req -> Seq(Req \X Nat)] /\ eof' \subseteq Req
           /\ readable' \in BOOLEAN /\ consumed' \in BOOLEAN
<1>1. CASE AtEnd(queue)
  BY <1>1 DEF Take, Typed, TypeOK
<1>2. CASE ~AtEnd(queue)
  <2>1. HasItem(queue) /\ Head(queue.items) # EndMark
    BY <1>2 DEF AtEnd
  <2>2. Head(queue.items) \in Chunks
    BY <2>1, PopProperties DEF Typed, TypeOK, Chunks
  <2>3. got \in [Req -> Seq(Chunks)] /\ eof \subseteq Req /\ consumed \in BOOLEAN
    BY DEF Typed, TypeOK, Chunks
  <2>4. Append(got[r], Head(queue.items)) \in Seq(Chunks)
    BY <2>2, <2>3
  <2>5. /\ got' = [got EXCEPT ![r] = Append(got[r], Head(queue.items))]
        /\ readable' = FALSE /\ UNCHANGED <<consumed, eof>>
    BY <1>2 DEF Take
  <2> DEFINE S == Seq(Chunks)
             s == Append(got[r], Head(queue.items))
  <2>6. got' \in [Req -> S]
    <3>1. got \in [Req -> S] /\ s \in S /\ got' = [got EXCEPT ![r] = s]
      BY <2>3, <2>4, <2>5
    <3> HIDE DEF S, s
    <3> QED
      BY <3>1
  <2> QED
    BY <2>3, <2>5, <2>6 DEF Chunks
<1> QED
  BY <1>1, <1>2

(* Outside the parser, its places stay. *)
LEMMA PlacesStay ==
    ASSUME Typed, UNCHANGED <<setting, at, call, poisoned, current_task>>,
           \A r \in Req : <<"route", r>> \in armed' => <<"route", r>> \in armed
    PROVE  Places'
BY SettingStays DEF Typed, Places, Idle

LEMMA TypedRead ==
    ASSUME Typed, setting' = setting, NEW r \in Req, ReadBody(r) \/ ReadResumes(r)
    PROVE  Typed'
<1>1. /\ UNCHANGED <<setting, status, writable, permission, closed, stopped, current_task,
                     timeout_task, request, at, call, poisoned, armed, stream, closing, out>>
  BY DEF ReadBody, ReadResumes, slots, parser
<1>2. queue \in QueueOf(Chunks) /\ readable \in BOOLEAN
  BY DEF Typed, TypeOK, Chunks
<1>3. /\ queue' \in QueueOf(Chunks) /\ task' \in [Req -> Tasks] /\ errors' \subseteq Failures
      /\ got' \in [Req -> Seq(Req \X Nat)] /\ eof' \subseteq Req
      /\ readable' \in BOOLEAN /\ consumed' \in BOOLEAN
  <2>0. task \in [Req -> Tasks] /\ errors \subseteq Failures /\ TypeOK
    BY DEF Typed, TypeOK, Tasks, Failures
  <2>1. CASE ReadBody(r) /\ (HasItem(queue) \/ queue.finished)
    <3>1. /\ Take(r, TRUE) /\ queue' = (IF HasItem(queue) THEN Pop(queue) ELSE queue)
          /\ task' = task /\ errors' = errors
      BY <2>1 DEF ReadBody
    <3>2. queue' \in QueueOf(Chunks)
      BY <1>2, <3>1, PopProperties
    <3> QED
      BY <2>0, <2>1, <3>1, <3>2, TakeTyped
  <2>2. CASE ReadBody(r) /\ ~(HasItem(queue) \/ queue.finished)
    <3>1. /\ queue' = Wait(queue) /\ task' = [task EXCEPT ![r] = "blocked"]
          /\ readable' = TRUE /\ UNCHANGED <<consumed, got, eof, errors>>
      BY <2>2 DEF ReadBody
    <3>2. queue' \in QueueOf(Chunks)
      BY <1>2, <3>1, WaitProperties
    <3> QED
      BY <2>0, <3>1, <3>2 DEF TypeOK, Tasks
  <2>3. CASE ReadResumes(r) /\ HasItem(queue)
    <3>1. /\ Take(r, readable) /\ queue' = Pop(Woken(queue)) /\ errors' = errors
          /\ task' = [task EXCEPT ![r] = "endpoint"]
      BY <2>3 DEF ReadResumes
    <3>2. Woken(queue) \in QueueOf(Chunks) /\ HasItem(Woken(queue))
      BY <1>2, <2>3, WaitProperties DEF HasItem
    <3>3. queue' \in QueueOf(Chunks)
      BY <3>1, <3>2, PopProperties
    <3> QED
      BY <1>2, <2>0, <2>3, <3>1, <3>3, TakeTyped DEF Tasks
  <2>4. CASE ReadResumes(r) /\ ~HasItem(queue)
    <3>1. /\ queue' = Woken(queue) /\ task' = [task EXCEPT ![r] = "done"]
          /\ errors' = errors \cup {Raise(r, <<"handler", 0>>)}
          /\ UNCHANGED <<readable, consumed, got, eof>>
      BY <2>4 DEF ReadResumes
    <3>2. queue' \in QueueOf(Chunks) /\ Raise(r, <<"handler", 0>>) \in Failures
      BY <1>2, <3>1, WaitProperties DEF Raise, Failures
    <3> QED
      BY <2>0, <3>1, <3>2 DEF TypeOK, Tasks
  <2> QED
    BY <2>1, <2>2, <2>3, <2>4
<1>4. TypeOK'
  BY <1>1, <1>3 DEF Typed, TypeOK, Chunks, Tasks, Failures
<1>5. Places'
  BY <1>1, PlacesStay
<1> QED
  BY <1>4, <1>5 DEF Typed

LEMMA TypedAnswer ==
    ASSUME Typed, setting' = setting, NEW r \in Req,
           \/ Answer(r) \/ AnswerStream(r) \/ Fail(r) \/ HooksDone(r)
           \/ CancelRequest(r) \/ CancelStreamingTask(r)
           \/ \E e \in errors : e.req = r /\ HandleException(e)
    PROVE  Typed'
<1>0. /\ task \in [Req -> Tasks] /\ errors \subseteq Failures /\ stream \in [Req -> Streams]
      /\ timeout_task \in {NoTimer} \cup Timers /\ armed \subseteq Timers /\ request \in 0 .. R
  BY DEF Typed, TypeOK, Tasks, Failures, Streams
<1>1. CASE Answer(r) \/ \E e \in errors : e.req = r /\ HandleException(e)
  <2>1. PICK kind \in {"full", "error"} : Send(r, kind, request)
    BY <1>1 DEF Answer, HandleException
  <2>2. /\ UNCHANGED <<permission, stopped, current_task, at, call, poisoned, stream, got, eof>>
        /\ task' \in [Req -> Tasks] /\ errors' \subseteq Failures
    BY <1>0, <1>1 DEF Answer, AfterSend, HandleException, parser, Tasks
  <2>3. Write(r, kind) /\ (Rested \/ (NotYet /\ request' \in 0 .. R))
    BY <1>0, <2>1, SendProperties
  <2>4. out' \in Seq(Piece) /\ writable' \in BOOLEAN
    BY <2>3, WriteProperties
  <2>5. /\ status' \in {"pending", "receiving", "processing"}
        /\ readable' \in BOOLEAN /\ closed' \in BOOLEAN /\ consumed' \in BOOLEAN
        /\ closing' \in BOOLEAN /\ request' \in 0 .. R
        /\ timeout_task' \in {NoTimer} \cup Timers /\ armed' \subseteq Timers
        /\ armed' \subseteq armed /\ queue' \in QueueOf(Req \X Nat)
    BY <2>3, NotYetTyped
  <2>6. TypeOK'
    BY <2>2, <2>4, <2>5 DEF Typed, TypeOK, Tasks, Failures
  <2>7. Places'
    BY <2>2, <2>5, PlacesStay
  <2> QED
    BY <2>6, <2>7 DEF Typed
<1>2. CASE \/ AnswerStream(r) \/ Fail(r) \/ HooksDone(r)
           \/ CancelRequest(r) \/ CancelStreamingTask(r)
  <2>1. /\ UNCHANGED <<status, readable, writable, permission, stopped, current_task, request,
                       queue, consumed, at, call, poisoned, closing, out, got, eof>>
        /\ closed' \in BOOLEAN
    BY <1>2 DEF AnswerStream, Fail, HooksDone, CancelRequest, CancelStreamingTask, conn, slots,
                shared, parser, seen, Typed, TypeOK
  <2>2. /\ <<"stream", r>> \in Timers
        /\ \A q \in Req : <<"route", q>> # <<"stream", r>>
    BY DEF Timers
  <2>3. /\ timeout_task' \in {NoTimer} \cup Timers /\ armed' \subseteq armed \cup {<<"stream", r>>}
    <3>1. CASE AnswerStream(r)
      BY <1>0, <2>2, <3>1 DEF AnswerStream, SendStream
    <3>2. CASE Fail(r) \/ HooksDone(r) \/ CancelRequest(r) \/ CancelStreamingTask(r)
      BY <1>0, <3>2 DEF Fail, HooksDone, CancelRequest, CancelStreamingTask, slots
    <3> QED
      BY <1>2, <3>1, <3>2
  <2>4. task' \in [Req -> Tasks] /\ errors' \subseteq Failures /\ stream' \in [Req -> Streams]
    <3>1. CASE AnswerStream(r)
      BY <1>0, <3>1 DEF AnswerStream, SendStream, AfterSend, Tasks, Streams
    <3>2. CASE Fail(r) \/ HooksDone(r)
      <4>1. Raise(r, <<"handler", 0>>) \in Failures /\ Raise(r, <<"hook", 0>>) \in Failures
        BY DEF Raise, Failures
      <4>2. /\ errors' \in {errors, errors \cup {Raise(r, <<"handler", 0>>)},
                            errors \cup {Raise(r, <<"hook", 0>>)}}
            /\ task' = [task EXCEPT ![r] = "done"] /\ stream' = stream
        BY <3>2 DEF Fail, HooksDone
      <4> QED
        BY <1>0, <4>1, <4>2 DEF Tasks
    <3>3. CASE CancelRequest(r)
      <4>1. current_task \in Req
        BY <3>3, RequestsAssumption DEF CancelRequest, Typed, TypeOK, Places, Req
      <4>2. Raise(current_task, <<"timeout", r>>) \in Failures
        <5>1. r \in Nat
          BY RequestsAssumption DEF Req
        <5> QED
          BY <4>1, <5>1 DEF Raise, Failures
      <4>3. /\ errors' = errors \cup {Raise(current_task, <<"timeout", r>>)} /\ stream' = stream
            /\ task' = [task EXCEPT ![current_task] = IF @ = "done" THEN "done" ELSE "cancelled"]
        BY <3>3 DEF CancelRequest
      <4> QED
        BY <1>0, <4>1, <4>2, <4>3 DEF Tasks
    <3>4. CASE CancelStreamingTask(r)
      BY <1>0, <3>4 DEF CancelStreamingTask, Streams
    <3> QED
      BY <1>2, <3>1, <3>2, <3>3, <3>4
  <2>5. TypeOK'
    BY ZenonT(60), <1>0, <2>1, <2>2, <2>3, <2>4 DEF Typed, TypeOK, Tasks, Failures, Streams
  <2>6. Places'
    BY <2>1, <2>2, <2>3, PlacesStay
  <2> QED
    BY <2>5, <2>6 DEF Typed
<1> QED
  BY <1>1, <1>2

LEMMA TypedStream ==
    ASSUME Typed, setting' = setting, NEW r \in Req,
           \/ StreamHead(r) \/ StreamChunk(r) \/ StreamTail(r) \/ StreamWake(r)
           \/ StreamDone(r) \/ ChunkTimeout(r)
    PROVE  Typed'
<1>0. stream \in [Req -> Streams] /\ out \in Seq(Piece) /\ writable \in BOOLEAN /\ request \in 0 .. R
      /\ closed \in BOOLEAN
  BY DEF Typed, TypeOK, Streams
<1>1. stream' \in [Req -> Streams]
  BY <1>0 DEF StreamHead, StreamChunk, StreamTail, StreamWake, StreamDone, ChunkTimeout, Streams
<1>2. UNCHANGED <<permission, stopped, current_task, at, call, poisoned, task, errors, got, eof>>
  BY DEF StreamHead, StreamChunk, StreamTail, StreamWake, StreamDone, ChunkTimeout, conn, slots,
         shared, parser, seen
<1>3. CASE StreamTail(r) \/ StreamDone(r)
  <2>1. Rested \/ (NotYet /\ request' \in 0 .. R)
    BY <1>0, <1>3, AfterResponseProperties DEF StreamTail, StreamDone
  <2>2. out' \in Seq(Piece) /\ writable' \in BOOLEAN
    BY <1>0, <1>3, WriteProperties DEF StreamTail, StreamDone
  <2>3. /\ status' \in {"pending", "receiving", "processing"}
        /\ readable' \in BOOLEAN /\ closed' \in BOOLEAN /\ consumed' \in BOOLEAN
        /\ closing' \in BOOLEAN /\ request' \in 0 .. R
        /\ timeout_task' \in {NoTimer} \cup Timers /\ armed' \subseteq Timers
        /\ armed' \subseteq armed /\ queue' \in QueueOf(Req \X Nat)
    BY <2>1, NotYetTyped
  <2>4. TypeOK'
    BY <1>1, <1>2, <2>2, <2>3 DEF Typed, TypeOK, Streams
  <2>5. Places'
    BY <1>2, <2>3, PlacesStay
  <2> QED
    BY <2>4, <2>5 DEF Typed
<1>4. CASE StreamHead(r) \/ StreamChunk(r) \/ StreamWake(r) \/ ChunkTimeout(r)
  <2>1. /\ UNCHANGED <<status, readable, timeout_task, request, queue, consumed, armed, closing>>
        /\ writable' \in BOOLEAN /\ closed' \in BOOLEAN /\ out' \in Seq(Piece)
    BY <1>0, <1>4, WriteProperties DEF StreamHead, StreamChunk, StreamWake, ChunkTimeout, conn,
         slots, shared, seen
  <2>2. TypeOK'
    BY <1>1, <1>2, <2>1 DEF Typed, TypeOK, Streams
  <2>3. Places'
    BY <1>2, <2>1, PlacesStay
  <2> QED
    BY <2>2, <2>3 DEF Typed
<1> QED
  BY <1>3, <1>4

LEMMA TypedStep ==
    ASSUME Typed, [Next]_vars
    PROVE  Typed'
<1>1. \A e \in errors : e.req \in Req
  BY DEF Typed, TypeOK
<1>2. (\E e \in errors : HandleException(e)) =>
        \E r \in Req : \E e \in errors : e.req = r /\ HandleException(e)
  BY <1>1
<1> QED
  BY <1>2, StepCases, TypedReceive, TypedParse, TypedRead, TypedAnswer, TypedStream

LEMMA InitTyped == Init => Typed
<1> SUFFICES ASSUME Init PROVE Typed
  OBVIOUS
<1>1. /\ Last \in 1 .. R /\ R \in Nat /\ Last \in Nat
  BY SettingProperties DEF Init
<1>2. NewQueue \in QueueOf(Req \X Nat)
  BY DEF NewQueue, QueueOf
<1>3. [req |-> 1, part |-> 0] \in [req : 1 .. R + 1, part : Nat]
  BY <1>1
<1>4. TypeOK
  <2>1. call \in [upto : 0 .. R, empty : BOOLEAN]
    BY <1>1 DEF Init
  <2>2. got \in [Req -> Seq(Req \X Nat)] /\ out \in Seq(Piece)
    BY DEF Init
  <2>3. 0 \in 0 .. R /\ queue \in QueueOf(Req \X Nat) /\ at \in [req : 1 .. R + 1, part : Nat]
    BY <1>1, <1>2, <1>3 DEF Init
  <2> QED
    BY <2>1, <2>2, <2>3 DEF Init, TypeOK
<1>5. Places
  BY <1>1 DEF Init, Places, Idle
<1> QED
  BY <1>4, <1>5 DEF Typed

-----------------------------------------------------------------------------
(* One request at a time. *)
LEMMA NowProperties ==
    ASSUME Typed
    PROVE  /\ Now \in Nat /\ Now <= at.req /\ at.req \in Nat
           /\ at.part # 0 => Now = at.req /\ Now \in Req
           /\ at.part = 0 => at.req = Now + 1
           /\ at.req <= Last => at.req \in Req
           /\ at.req <= Last /\ at' = After(at) => Now' = at.req
<1>1. /\ at.req \in 1 .. R + 1 /\ at.part \in Nat /\ at.req \in Nat /\ R \in Nat
      /\ at.req <= Last => at.req \in Req /\ Body[at.req] \in Nat
  BY AfterProperties, RequestsAssumption
<1>2. at.part # 0 => at.req <= Last
  BY DEF Typed, Places
<1>3. ASSUME at.req <= Last, at' = After(at)
      PROVE  Now' = at.req
  <2>1. CASE Ends(at)
    <3>1. at'.req = at.req + 1 /\ at'.part = 0
      BY <1>3, <2>1, AfterProperties
    <3>3. Now' = at'.req - 1
      BY <3>1 DEF Now
    <3> QED
      BY <1>1, <3>1, <3>3
  <2>2. CASE ~Ends(at)
    <3>1. at'.req = at.req /\ at'.part = at.part + 1 /\ at.part + 1 # 0
      BY <1>1, <1>3, <2>2, AfterProperties
    <3> QED
      BY <3>1 DEF Now
  <2> QED
    BY <2>1, <2>2
<1> QED
  BY <1>1, <1>2, <1>3 DEF Now

(* What a write adds to the answers. *)
LEMMA Written ==
    ASSUME Typed, NEW r \in Req, NEW kind \in {"full", "error", "head", "tail"}, Write(r, kind)
    PROVE  /\ closed \/ kind = "head" => /\ Complete' = Complete
                                         /\ \A q : Answered(q)' <=> Answered(q)
           /\ closed => out' = out
           /\ ~closed => /\ Len(out') = Len(out) + 1
                         /\ out'[Len(out) + 1] = [req |-> r, kind |-> kind]
           /\ ~closed /\ kind # "head" =>
                /\ Complete' = Complete \cup {Len(out) + 1}
                /\ Cardinality(Complete') = Cardinality(Complete) + 1
                /\ \A q : Answered(q)' <=> Answered(q) \/ q = r
           /\ \A i \in 1 .. Len(out) : i \in 1 .. Len(out') /\ out'[i] = out[i]
           /\ Complete \subseteq Complete' /\ Cardinality(Complete') >= Cardinality(Complete)
           /\ Len(out') \in Nat
<1>1. out \in Seq(Piece) /\ Len(out) \in Nat
  BY CompleteProperties DEF Typed, TypeOK
<1>2. /\ IsFiniteSet(Complete) /\ Cardinality(Complete) \in Nat /\ Complete \subseteq 1 .. Len(out)
  BY CompleteProperties
<1>3. CASE closed
  <2>1. out' = out
    BY <1>3, WriteProperties
  <2>2. Complete' = Complete /\ \A q : Answered(q)' <=> Answered(q)
    BY <2>1 DEF Complete, Answered
  <2> QED
    BY <1>1, <1>2, <1>3, <2>1, <2>2
<1>4. CASE ~closed
  <2> DEFINE piece == [req |-> r, kind |-> kind]
  <2>1. out' = Append(out, piece)
    BY <1>4, WriteProperties
  <2>2. piece.req = r /\ piece.kind = kind /\ piece \in Piece
    BY DEF Piece
  <2>3. /\ Len(out') = Len(out) + 1 /\ out'[Len(out) + 1] = piece
        /\ \A i \in 1 .. Len(out) : i \in 1 .. Len(out') /\ out'[i] = out[i]
    <3> HIDE DEF piece
    <3> QED
      BY <1>1, <2>1, <2>2
  <2>4. \A i \in 1 .. Len(out') : i \in 1 .. Len(out) \/ i = Len(out) + 1
    BY <1>1, <2>3
  <2>5. Len(out) + 1 \in 1 .. Len(out') /\ Len(out) + 1 \notin Complete
    BY <1>1, <1>2, <2>3
  <2> HIDE DEF piece
  <2>6. CASE kind = "head"
    <3>1. Complete' = Complete
      BY <2>2, <2>3, <2>4, <2>6 DEF Complete
    <3>2. \A q : Answered(q)' <=> Answered(q)
      BY <1>2, <2>3, <3>1 DEF Answered
    <3> QED
      BY <1>1, <1>2, <1>4, <2>3, <2>6, <3>1, <3>2 DEF piece
  <2>7. CASE kind # "head"
    <3>1. Complete' = Complete \cup {Len(out) + 1}
      BY <2>2, <2>3, <2>4, <2>5, <2>7 DEF Complete
    <3>2. Cardinality(Complete') = Cardinality(Complete) + 1
      BY <1>2, <2>5, <3>1, FS_AddElement
    <3>3. \A q : Answered(q)' <=> Answered(q) \/ q = r
      BY <1>2, <2>2, <2>3, <3>1 DEF Answered
    <3> QED
      BY <1>1, <1>2, <1>4, <2>3, <2>7, <3>1, <3>2, <3>3 DEF piece
  <2> QED
    BY <2>6, <2>7
<1> QED
  BY <1>3, <1>4

(* What a step outside the parser means for request q: it begins none, and  *)
(* answers one whose handler lets go of it.                                 *)
Outside ==
    /\ Idle /\ UNCHANGED <<at, call, poisoned, current_task>>
    /\ \A q \in Req :
          /\ Handling(q)' => Handling(q)
          /\ task'[q] # "none" => task[q] # "none" \/ q = current_task
          /\ Answering(q)' => \/ Answering(q)
                              \/ (task[q] # "none" \/ q = current_task) /\ ~Handling(q)'

LEMMA OutsideBegun ==
    ASSUME Typed, Begun, Outside
    PROVE  Begun'
<1>1. Now' = Now /\ Idle' /\ poisoned' = poisoned /\ current_task' = current_task
  BY DEF Outside, Now, Idle
<1> QED
  BY <1>1 DEF Outside, Begun

(* The steps that answer nothing, or what is being answered. *)
LEMMA OutsideQuiet ==
    ASSUME Typed,
           \/ ResumeWriting \/ ConnectionLost \/ Stop \/ ScheduledClose \/ ErrorHandlerRaises
           \/ \E r \in Req : \/ ReadBody(r) \/ CancelStreamingTask(r) \/ StreamHead(r)
                             \/ StreamChunk(r) \/ StreamTail(r) \/ StreamWake(r)
                             \/ StreamDone(r) \/ ChunkTimeout(r) \/ HooksDone(r)
    PROVE  Outside
<1>1. CASE ResumeWriting \/ ConnectionLost \/ Stop \/ ScheduledClose \/ ErrorHandlerRaises
  BY <1>1 DEF ResumeWriting, ConnectionLost, Stop, ScheduledClose,
      ErrorHandlerRaises, Outside, slots, parser, loop,
       seen, Handling, Answering, Sending, Erring, Answered, Complete
<1>2. ASSUME NEW r \in Req, ReadBody(r)
      PROVE  Outside
  <2>1. /\ Idle /\ UNCHANGED <<at, call, poisoned, current_task, errors, stream, out>>
        /\ task[r] = "endpoint" /\ task' \in {task, [task EXCEPT ![r] = "blocked"]}
    BY <1>2 DEF ReadBody, slots, parser
  <2>2. \A q \in Req : (Handling(q)' => Handling(q)) /\ (task'[q] # "none" => task[q] # "none")
    BY <2>1 DEF Handling, Typed, TypeOK
  <2> QED
    BY <2>1, <2>2 DEF Outside, Answering, Sending, Erring, Answered, Complete
<1>3. ASSUME NEW r \in Req, CancelStreamingTask(r) \/ StreamChunk(r) \/ StreamWake(r) \/ ChunkTimeout(r)
      PROVE  Outside
  <2>1. /\ Idle /\ UNCHANGED <<at, call, poisoned, current_task, errors, task, out>>
        /\ \/ Sending(r) /\ \E s : stream' = [stream EXCEPT ![r] = s]
           \/ stream' = [stream EXCEPT ![r] = IF @ = "done" THEN "done" ELSE "cancelled"]
    BY <1>3 DEF CancelStreamingTask, StreamChunk, StreamWake, ChunkTimeout, slots, parser, seen, Sending
  <2>2. \A q \in Req : Sending(q)' => Sending(q)
    BY <2>1 DEF Sending, Typed, TypeOK
  <2> QED
    BY <2>1, <2>2 DEF Outside, Answering, Handling, Erring, Answered, Complete
<1>4. ASSUME NEW r \in Req, StreamHead(r) \/ StreamTail(r)
      PROVE  Outside
  <2>1. /\ Idle /\ UNCHANGED <<at, call, poisoned, current_task, errors, task>>
        /\ Sending(r) /\ \E s : stream' = [stream EXCEPT ![r] = s]
        /\ \E kind \in {"head", "tail"} : Write(r, kind)
    BY <1>4 DEF StreamHead, StreamTail, slots, parser, Sending
  <2>2. \A q \in Req : Sending(q)' => Sending(q)
    BY <2>1 DEF Sending, Typed, TypeOK
  <2>3. \A q \in Req : Answered(q)' => Answered(q) \/ q = r
    BY <2>1, Written
  <2> QED
    BY <2>1, <2>2, <2>3 DEF Outside, Answering, Handling, Erring
<1>5. ASSUME NEW r \in Req, StreamDone(r)
      PROVE  Outside
  <2>1. /\ Idle /\ UNCHANGED <<at, call, poisoned, current_task, errors, task, out>>
        /\ stream' = [stream EXCEPT ![r] = "done"]
    BY <1>5 DEF StreamDone, parser
  <2>2. \A q \in Req : Sending(q)' => Sending(q)
    BY <2>1 DEF Sending, Typed, TypeOK
  <2> QED
    BY <2>1, <2>2 DEF Outside, Answering, Handling, Erring, Answered, Complete
<1>6. ASSUME NEW r \in Req, HooksDone(r)
      PROVE  Outside
  <2>1. /\ Idle /\ UNCHANGED <<at, call, poisoned, current_task, stream, out>>
        /\ task[r] = "after_sent" /\ task' = [task EXCEPT ![r] = "done"]
        /\ errors' \in {errors, errors \cup {Raise(r, <<"hook", 0>>)}}
    BY <1>6 DEF HooksDone, slots, parser, seen
  <2>2. Raise(r, <<"hook", 0>>).req = r
    BY DEF Raise
  <2>3. \A q \in Req : /\ Handling(q)' => Handling(q)
                       /\ task'[q] # "none" => task[q] # "none"
                       /\ q = r => ~Handling(q)' /\ task[q] # "none"
    BY <2>1 DEF Handling, Typed, TypeOK
  <2>4. \A q \in Req : Erring(q)' => Erring(q) \/ q = r
    BY <2>1, <2>2 DEF Erring
  <2> QED
    BY <2>1, <2>3, <2>4 DEF Outside, Answering, Sending, Answered, Complete
<1> QED
  BY <1>1, <1>2, <1>3, <1>4, <1>5, <1>6

LEMMA OutsideAnswer ==
    ASSUME Typed, Begun,
           \/ \E r \in Req : \/ ReadResumes(r) \/ Answer(r) \/ AnswerStream(r) \/ Fail(r)
                             \/ CancelRequest(r)
           \/ \E e \in errors : HandleException(e)
    PROVE  Outside
<1>0. /\ task \in [Req -> Tasks] /\ stream \in [Req -> Streams] /\ \A e \in errors : e.req \in Req
  BY DEF Typed, TypeOK, Tasks, Streams
<1>1. ASSUME NEW r \in Req, ReadResumes(r) \/ Fail(r)
      PROVE  Outside
  <2>1. /\ Idle /\ UNCHANGED <<at, call, poisoned, current_task, stream, out>>
        /\ Handling(r)
        /\ \/ task' = [task EXCEPT ![r] = "endpoint"] /\ errors' = errors
           \/ /\ task' = [task EXCEPT ![r] = "done"]
              /\ errors' = errors \cup {Raise(r, <<"handler", 0>>)}
    BY <1>1 DEF ReadResumes, Fail, MayAnswer, slots, parser, seen, Handling
  <2>2. Raise(r, <<"handler", 0>>).req = r
    BY DEF Raise
  <2>3. \A q \in Req : (Handling(q)' => Handling(q)) /\ (task'[q] # "none" => task[q] # "none")
    BY <1>0, <2>1 DEF Handling
  <2>4. \A q \in Req : Erring(q)' => Erring(q) \/ (q = r /\ task[q] # "none" /\ ~Handling(q)')
    BY <1>0, <2>1, <2>2 DEF Handling, Erring
  <2> QED
    BY <2>1, <2>3, <2>4 DEF Outside, Answering, Sending, Answered, Complete
<1>2. ASSUME NEW r \in Req, Answer(r)
      PROVE  Outside
  <2>1. /\ Idle /\ UNCHANGED <<at, call, poisoned, current_task, stream, errors>>
        /\ Handling(r) /\ Write(r, "full")
        /\ \E t \in {"after_sent", "done"} : task' = [task EXCEPT ![r] = t]
    BY <1>2 DEF Answer, MayAnswer, AfterSend, Send, parser, Handling
  <2>2. \A q \in Req : /\ Handling(q)' => Handling(q)
                       /\ task'[q] # "none" => task[q] # "none"
                       /\ q = r => ~Handling(q)' /\ task[q] # "none"
    BY <1>0, <2>1 DEF Handling
  <2>3. \A q \in Req : Answered(q)' => Answered(q) \/ q = r
    BY <2>1, Written
  <2> QED
    BY <2>1, <2>2, <2>3 DEF Outside, Answering, Sending, Erring
<1>3. ASSUME NEW r \in Req, AnswerStream(r)
      PROVE  Outside
  <2>1. /\ Idle /\ UNCHANGED <<at, call, poisoned, current_task, errors, out>>
        /\ Handling(r)
        /\ stream' \in {stream, [stream EXCEPT ![r] = "start"]}
        /\ \E t \in {"after_sent", "done"} : task' = [task EXCEPT ![r] = t]
    BY <1>3 DEF AnswerStream, SendStream, MayAnswer, AfterSend, parser, seen, Handling
  <2>2. \A q \in Req : /\ Handling(q)' => Handling(q)
                       /\ task'[q] # "none" => task[q] # "none"
                       /\ q = r => ~Handling(q)' /\ task[q] # "none"
    BY <1>0, <2>1 DEF Handling
  <2>3. \A q \in Req : Sending(q)' => Sending(q) \/ q = r
    BY <1>0, <2>1 DEF Sending
  <2> QED
    BY <2>1, <2>2, <2>3 DEF Outside, Answering, Answered, Complete, Erring
<1>4. ASSUME NEW r \in Req, CancelRequest(r)
      PROVE  Outside
  <2>1. current_task \in Req
    BY <1>4, RequestsAssumption DEF CancelRequest, Typed, TypeOK, Places, Req
  <2>2. /\ Idle /\ UNCHANGED <<at, call, poisoned, current_task, stream, out>>
        /\ task' = [task EXCEPT ![current_task] = IF @ = "done" THEN "done" ELSE "cancelled"]
        /\ errors' = errors \cup {Raise(current_task, <<"timeout", r>>)}
    BY <1>4 DEF CancelRequest, conn, slots, parser, seen
  <2>3. Raise(current_task, <<"timeout", r>>).req = current_task
    BY DEF Raise
  <2>4. \A q \in Req : /\ Handling(q)' => Handling(q)
                       /\ task'[q] # "none" => task[q] # "none" \/ q = current_task
                       /\ q = current_task => ~Handling(q)'
    BY <1>0, <2>1, <2>2 DEF Handling
  <2>5. \A q \in Req : Erring(q)' => Erring(q) \/ q = current_task
    BY <2>2, <2>3 DEF Erring
  <2> QED
    BY <2>2, <2>4, <2>5 DEF Outside, Answering, Sending, Answered, Complete
<1>5. ASSUME NEW e \in errors, HandleException(e)
      PROVE  Outside
  <2>1. /\ Idle /\ UNCHANGED <<at, call, poisoned, current_task, stream, task>>
        /\ errors' = errors \ {e} /\ Write(e.req, "error")
    BY <1>5 DEF HandleException, Send, parser
  <2>2. \A q \in Req : Answered(q)' => Answered(q) \/ q = e.req
    BY <1>0, <2>1, Written
  <2>3. \A q \in Req : Erring(q)' => Erring(q)
    BY <2>1 DEF Erring
  <2>4. Erring(e.req)
    BY DEF Erring
  <2> QED
    BY <2>1, <2>2, <2>3, <2>4 DEF Outside, Answering, Handling, Sending
<1> QED
  BY <1>1, <1>2, <1>3, <1>4, <1>5

(* The parser begins a request that no one answered yet. *)
LEMMA BegunParse ==
    ASSUME Typed, Begun,
           \/ DataReceived \/ DataRefused \/ FeedDone
           \/ OnHeadersComplete \/ OnBody \/ BodyLimit \/ OnMessageComplete
    PROVE  Begun'
<1>0. /\ Now \in Nat /\ Now <= at.req /\ at.req \in Nat /\ current_task \in Nat
      /\ Cardinality(Complete) \in Nat /\ call.upto \in Nat /\ Last \in Nat
      /\ task \in [Req -> Tasks] /\ \A r \in Req : r \in Nat
  <2>1. current_task \in 0 .. R /\ call \in [upto : 0 .. R, empty : BOOLEAN] /\ R \in Nat
    BY RequestsAssumption DEF Typed, TypeOK
  <2>2. call.upto \in Nat /\ current_task \in Nat /\ \A r \in Req : r \in Nat
    BY <2>1 DEF Req
  <2>3. task \in [Req -> Tasks]
    BY DEF Typed, TypeOK, Tasks
  <2> QED
    BY <2>2, <2>3, NowProperties, CompleteProperties, AfterProperties
<1>1. /\ SentUpTo \in 0 .. Last
      /\ at.part # 0 /\ ~writable => SentUpTo = at.req
      /\ at.part = 0 /\ ~writable => SentUpTo = 0
      /\ writable /\ SentUpTo # 0 => SentUpTo <= Cardinality(Complete) + 1
  BY SentProperties
<1>2. CASE DataReceived
  <2>1. /\ UNCHANGED <<current_task, at, task, errors, stream, out, poisoned>>
        /\ call' = [upto |-> SentUpTo, empty |-> TRUE] /\ at.req <= SentUpTo
    BY <1>2 DEF DataReceived, slots, loop, seen
  <2>2. SentUpTo <= Cardinality(Complete) + 1 \/ SentUpTo <= Now
    <3>0. at.req >= 1 /\ SentUpTo \in Nat
      BY <1>0, <1>1, RequestsAssumption, AfterProperties
    <3>1. SentUpTo # 0 /\ (at.part # 0 => Now = at.req) /\ (at.part = 0 => at.req = Now + 1)
      BY <1>0, <2>1, <3>0, NowProperties
    <3>2. SentUpTo = at.req => SentUpTo <= at.req
      BY <1>0
    <3> QED
      BY <1>1, <3>1, <3>2
  <2>3. call'.upto = SentUpTo /\ Now' = Now /\ Complete' = Complete
    BY <2>1 DEF Now, Complete
  <2>4. \A r \in Req : (Handling(r)' <=> Handling(r)) /\ (Answering(r)' <=> Answering(r))
    BY <2>1, <2>3 DEF Handling, Answering, Sending, Erring, Answered
  <2> QED
    BY <2>1, <2>2, <2>3, <2>4 DEF Begun
<1>3. CASE FeedDone
  <2>1. /\ UNCHANGED <<current_task, at, task, errors, stream, out, poisoned>> /\ Idle'
    BY <1>3 DEF FeedDone, slots, loop, seen, Idle
  <2>2. Now' = Now
    BY <2>1 DEF Now
  <2>3. \A r \in Req : (Handling(r)' <=> Handling(r)) /\ (Answering(r)' <=> Answering(r))
    BY <2>1 DEF Handling, Answering, Sending, Erring, Answered, Complete
  <2> QED
    BY <2>1, <2>2, <2>3 DEF Begun
<1>4. CASE DataRefused \/ BodyLimit
  <2>1. /\ UNCHANGED <<current_task, task, stream, out>> /\ poisoned' /\ Idle'
        /\ at' = After(at)
        /\ errors' = errors \cup {Raise(at.req, <<"parser", at.part>>)}
    BY <1>4 DEF DataRefused, BodyLimit, Polled, Idle, slots, loop, seen
  <2>2. at.req <= Last
    <3>1. at.req <= SentUpTo \/ (at.req <= call.upto /\ call.upto <= Last)
      BY <1>4 DEF DataRefused, BodyLimit, Typed, Places
    <3> QED
      BY <1>0, <1>1, <3>1
  <2>3. Now' = at.req
    BY <2>1, <2>2, NowProperties
  <2>4. Raise(at.req, <<"parser", at.part>>).req = at.req
    BY DEF Raise
  <2>5. \A r \in Req : Answering(r)' => Answering(r) \/ r = at.req
    BY <2>1, <2>4 DEF Answering, Sending, Erring, Answered, Complete
  <2>6. current_task <= at.req /\ \A r \in Req : task[r] # "none" \/ Answering(r) => r <= at.req
    BY <1>0 DEF Begun
  <2> QED
    BY <1>0, <2>1, <2>3, <2>5, <2>6 DEF Begun
<1>5. CASE OnHeadersComplete \/ OnBody \/ OnMessageComplete
  <2>1. at.req <= call.upto /\ Parsed /\ UNCHANGED poisoned /\ ~Idle
    BY <1>0, <1>5, AfterProperties DEF OnHeadersComplete, OnBody, OnMessageComplete, Idle, Typed, TypeOK
  <2>2. ~poisoned /\ ~poisoned' /\ call.upto <= Last
    BY <2>1 DEF Typed, Places
  <2>3. call'.upto = call.upto /\ Now' = at.req /\ at.req \in Req
    <3>1. at.req <= Last /\ call \in [upto : 0 .. R, empty : BOOLEAN]
      BY <1>0, <2>1, <2>2 DEF Typed, TypeOK
    <3> QED
      BY <2>1, <3>1, NowProperties DEF Parsed
  <2>4. ASSUME Cardinality(Complete') >= Cardinality(Complete), Cardinality(Complete') \in Nat
        PROVE  ~Idle' => call'.upto <= Cardinality(Complete') + 1 \/ call'.upto <= Now'
    <3> DEFINE n == Cardinality(Complete)
               m == Cardinality(Complete')
    <3>1. call.upto <= n + 1 \/ call.upto <= Now
      BY <2>1 DEF Begun
    <3>2. n \in Nat /\ m \in Nat /\ m >= n
      BY <1>0, <2>4
    <3> HIDE DEF n, m
    <3>3. call.upto <= m + 1 \/ call.upto <= at.req
      BY <1>0, <3>1, <3>2
    <3> QED
      BY <2>3, <3>3 DEF m
  <2>5. /\ current_task <= at.req
        /\ \A r \in Req : task[r] # "none" \/ Answering(r) => r <= at.req /\ r <= Now
    BY <1>0 DEF Begun
  <2>6. CASE OnBody \/ OnMessageComplete
    <3>1. UNCHANGED <<current_task, errors, stream, out>> /\ task' = Woke
      BY <2>6 DEF OnBody, OnMessageComplete, slots, seen
    <3>2. /\ \A r \in Req : Handling(r)' <=> Handling(r)
          /\ \A r \in Req : task'[r] # "none" <=> task[r] # "none"
      BY <3>1, WokeProperties DEF Handling
    <3>3. /\ \A r \in Req : Answering(r)' <=> Answering(r)
          /\ Complete' = Complete
      BY <3>1 DEF Answering, Sending, Erring, Answered, Complete
    <3>4. ~Idle' => call'.upto <= Cardinality(Complete') + 1 \/ call'.upto <= Now'
      BY <1>0, <2>4, <3>3
    <3> QED
      BY <2>2, <2>3, <2>5, <3>1, <3>2, <3>3, <3>4 DEF Begun
  <2>7. CASE OnHeadersComplete
    <3> DEFINE q == at.req
    <3>1. /\ q = Now + 1 /\ q \in Req
          /\ task[q] = "none" /\ ~Answering(q)
      <4>1. q = Now + 1 /\ ~(q <= Now)
        BY <1>0, <2>7, NowProperties DEF OnHeadersComplete
      <4> QED
        BY <2>3, <2>5, <4>1
    <3>2. CASE UNCHANGED <<conn, current_task, timeout_task, shared, loop, seen>>
      <4>1. UNCHANGED <<current_task, task, errors, stream, out>>
        BY <3>2 DEF loop, seen
      <4>2. /\ \A r \in Req : (Answering(r)' <=> Answering(r)) /\ (Handling(r)' <=> Handling(r))
            /\ Complete' = Complete
        BY <4>1 DEF Answering, Handling, Sending, Erring, Answered, Complete
      <4>3. ~Idle' => call'.upto <= Cardinality(Complete') + 1 \/ call'.upto <= Now'
        BY <1>0, <2>4, <4>2
      <4> QED
        BY <2>2, <2>3, <2>5, <4>1, <4>2, <4>3 DEF Begun
    <3>3. CASE /\ Send(q, "full", q)
               /\ UNCHANGED <<permission, stopped, current_task, task, errors, stream, got, eof>>
      <4>1. Write(q, "full")
        BY <3>1, <3>3, SendProperties
      <4>2. /\ \A r \in Req : Answered(r)' => Answered(r) \/ r = q
            /\ Cardinality(Complete') >= Cardinality(Complete)
            /\ Cardinality(Complete') \in Nat
        <5>1. /\ closed => Complete' = Complete /\ \A r : Answered(r)' <=> Answered(r)
              /\ ~closed => /\ Cardinality(Complete') = Cardinality(Complete) + 1
                            /\ \A r : Answered(r)' <=> Answered(r) \/ r = q
          BY <3>1, <4>1, Written
        <5>2. Cardinality(Complete') \in {Cardinality(Complete), Cardinality(Complete) + 1}
          BY <5>1
        <5>3. /\ Cardinality(Complete') >= Cardinality(Complete)
              /\ Cardinality(Complete') \in Nat
          BY <1>0, <5>2
        <5> QED
          BY <5>1, <5>3
      <4>3. \A r \in Req : /\ Answering(r)' => Answering(r) \/ r = q
                           /\ Handling(r)' <=> Handling(r)
        BY <3>3, <4>2 DEF Answering, Handling, Sending, Erring
      <4>4. ~Idle' => call'.upto <= Cardinality(Complete') + 1 \/ call'.upto <= Now'
        BY <2>4, <4>2
      <4>5. ~Handling(q) /\ q <= q
        BY <1>0, <3>1 DEF Handling
      <4> QED
        BY <2>2, <2>3, <2>5, <3>3, <4>3, <4>4, <4>5 DEF Begun
    <3>4. CASE /\ task' = [task EXCEPT ![q] = "endpoint"] /\ current_task' = q
               /\ UNCHANGED <<conn, shared, errors, stream, closing, seen>>
      <4>1. /\ \A r \in Req : Answering(r)' <=> Answering(r)
            /\ Complete' = Complete
        BY <3>4 DEF Answering, Sending, Erring, Answered, Complete, seen
      <4>2. \A r \in Req : r # q => task'[r] = task[r]
        BY <1>0, <3>4
      <4>3. ~Idle' => call'.upto <= Cardinality(Complete') + 1 \/ call'.upto <= Now'
        BY <1>0, <2>4, <4>1
      <4>4. q <= q
        BY <1>0
      <4>5. \A r \in Req : /\ task'[r] # "none" \/ Answering(r)' => r <= q
                           /\ Answering(r)' => ~Handling(r)'
        BY <2>2, <2>5, <3>1, <4>1, <4>2, <4>4 DEF Begun, Handling
      <4> QED
        BY <2>2, <2>3, <3>4, <4>3, <4>4, <4>5 DEF Begun
    <3> QED
      BY <2>7, <3>2, <3>3, <3>4 DEF OnHeadersComplete
  <2> QED
    BY <1>5, <2>6, <2>7
<1> QED
  BY <1>2, <1>3, <1>4, <1>5

LEMMA BegunStep ==
    ASSUME Typed, Begun, [Next]_vars
    PROVE  Begun'
<1>1. CASE UNCHANGED vars
  BY <1>1 DEF vars, state, slots, parser, loop, seen, Begun, Now, Idle, Handling, Answering,
     Sending, Erring, Answered, Complete
<1> QED
  BY <1>1, StepCases, OutsideQuiet, OutsideAnswer, OutsideBegun, BegunParse

(* What was written stays written. *)
LEMMA OutGrows ==
    ASSUME Typed, [Next]_vars
    PROVE  /\ \A i \in 1 .. Len(out) : i \in 1 .. Len(out') /\ out'[i] = out[i]
           /\ AnsweredTwice => AnsweredTwice'
<1>1. \A i \in 1 .. Len(out) : i \in 1 .. Len(out') /\ out'[i] = out[i]
  <2>1. CASE out' = out
    BY <2>1
  <2>2. CASE \E r \in Req : \E kind \in {"full", "error", "head", "tail"} : Write(r, kind)
    BY <2>2, Written
  <2>3. \A e \in errors : e.req \in Req
    BY DEF Typed, TypeOK
  <2>4. CASE \/ DataReceived \/ DataRefused \/ FeedDone \/ OnBody \/ BodyLimit
             \/ OnMessageComplete \/ ResumeWriting \/ ConnectionLost \/ Stop \/ ScheduledClose
             \/ ErrorHandlerRaises
             \/ UNCHANGED vars
    <3>1. out' = out
      BY <2>4 DEF DataReceived, DataRefused, FeedDone, OnBody, BodyLimit, OnMessageComplete,
         ResumeWriting, ConnectionLost, Stop, ScheduledClose, ErrorHandlerRaises, vars, state, seen
    <3> QED
      BY <2>1, <3>1
  <2>5. CASE OnHeadersComplete
    <3>1. at.req \in Req
      <4>1. at.req <= call.upto /\ call.upto <= Last /\ call.upto \in Nat /\ Last \in Nat
        BY <2>5, AfterProperties, RequestsAssumption DEF OnHeadersComplete, Typed, TypeOK, Places
      <4> QED
        BY <4>1, AfterProperties
    <3>2. out' = out \/ Write(at.req, "full")
      BY <2>5 DEF OnHeadersComplete, Send, loop, seen
    <3> QED
      BY <2>1, <2>2, <3>1, <3>2
  <2>6. ASSUME NEW r \in Req,
               \/ ReadBody(r) \/ ReadResumes(r) \/ Answer(r) \/ AnswerStream(r) \/ Fail(r)
               \/ HooksDone(r) \/ CancelRequest(r) \/ CancelStreamingTask(r) \/ StreamHead(r)
               \/ StreamChunk(r) \/ StreamTail(r) \/ StreamWake(r) \/ StreamDone(r)
               \/ ChunkTimeout(r)
        PROVE  out' = out \/ \E kind \in {"full", "head", "tail"} : Write(r, kind)
    BY <2>6 DEF ReadBody, ReadResumes, Answer, AnswerStream, Fail, HooksDone, CancelRequest,
       CancelStreamingTask, StreamHead, StreamChunk, StreamTail, StreamWake, StreamDone,
       ChunkTimeout, Send, seen
  <2>7. ASSUME NEW e \in errors, HandleException(e)
        PROVE  Write(e.req, "error")
    BY <2>7 DEF HandleException, Send
  <2> QED
    BY <2>1, <2>2, <2>3, <2>4, <2>5, <2>6, <2>7, StepCases
<1>2. Complete \subseteq Complete' /\ \A i \in Complete : out'[i] = out[i]
  BY <1>1 DEF Complete
<1> QED
  BY <1>1, <1>2 DEF AnsweredTwice

(* Unless one was answered twice, there are fewer answers than requests     *)
(* begun while one of these is not answered.                                *)
LEMMA FewerAnswers ==
    ASSUME Typed, Begun, ~AnsweredTwice, NEW r \in Req, r <= Now, ~Answered(r)
    PROVE  Cardinality(Complete) < Now
<1>1. SUFFICES ASSUME ~(Cardinality(Complete) < Now) PROVE FALSE
  OBVIOUS
<1>2. /\ Now \in Nat /\ Cardinality(Complete) \in Nat /\ IsFiniteSet(Complete) /\ R \in Nat
      /\ r \in 1 .. Now
  BY NowProperties, CompleteProperties, RequestsAssumption DEF Req
<1> DEFINE T == (1 .. Now) \ {r}
           f == [i \in Complete |-> out[i].req]
<1>3. IsFiniteSet(T) /\ Cardinality(T) = Now - 1
  <2>1. IsFiniteSet(1 .. Now) /\ Cardinality(1 .. Now) = Now
    <3>1. 1 \in Int /\ Now \in Int
      BY <1>2
    <3>2. IsFiniteSet(1 .. Now) /\ Cardinality(1 .. Now) = IF 1 > Now THEN 0 ELSE Now - 1 + 1
      BY <3>1, FS_Interval
    <3> QED
      BY <1>2, <3>2
  <2> QED
    BY <1>2, <2>1, FS_RemoveElement
<1>4. Cardinality(T) < Cardinality(Complete)
  <2> DEFINE n == Cardinality(Complete)
             m == Cardinality(T)
  <2>1. n \in Nat /\ ~(n < Now) /\ m = Now - 1
    BY <1>1, <1>2, <1>3
  <2> HIDE DEF n, m
  <2>2. m < n
    BY <1>2, <2>1
  <2> QED
    BY <2>2 DEF n, m
<1>5. f \in [Complete -> T]
  <2>1. ASSUME NEW i \in Complete
        PROVE  out[i].req \in T
    <3>1. out[i].req \in Req /\ Answered(out[i].req)
      BY CompleteProperties DEF Answered
    <3>2. out[i].req <= Now /\ out[i].req # r
      BY <3>1 DEF Begun, Answering
    <3> QED
      BY <1>2, <3>1, <3>2 DEF Req
  <2> QED
    BY <2>1
<1> HIDE DEF T
<1>6. \E i, j \in Complete : i # j /\ f[i] = f[j]
  <2> HIDE DEF f
  <2> QED
    BY <1>2, <1>3, <1>4, <1>5, FS_PigeonHole
<1> QED
  BY <1>6 DEF AnsweredTwice

LEMMA OneHandlerStep ==
    ASSUME Typed, Begun, OneHandler, [Next]_vars
    PROVE  OneHandler'
<1> SUFFICES ASSUME ~AnsweredTwice', NEW r \in Req, NEW s \in Req, Handling(r)', Handling(s)'
             PROVE  r = s
  BY DEF OneHandler
<1>1. ~AnsweredTwice /\ \A q, p \in Req : Handling(q) /\ Handling(p) => q = p
  BY OutGrows DEF OneHandler
<1>2. CASE \A q \in Req : Handling(q)' => Handling(q)
  BY <1>1, <1>2
<1>3. CASE Outside
  BY <1>2, <1>3 DEF Outside
<1>4. CASE DataReceived \/ DataRefused \/ FeedDone \/ BodyLimit \/ UNCHANGED vars
  <2>1. task' = task
    BY <1>4 DEF DataReceived, DataRefused, FeedDone, BodyLimit, loop, vars, state
  <2> QED
    BY <1>2, <2>1 DEF Handling
<1>5. CASE OnBody \/ OnMessageComplete
  <2>1. task' = Woke
    BY <1>5 DEF OnBody, OnMessageComplete
  <2>2. \A q \in Req : Handling(q)' => Handling(q)
    BY <2>1, WokeProperties DEF Handling
  <2> QED
    BY <1>2, <2>2
<1>6. CASE OnHeadersComplete
  <2>1. CASE task' = task
    BY <1>2, <2>1 DEF Handling
  <2>2. CASE task' = [task EXCEPT ![at.req] = "endpoint"]
    <3>1. ~Idle /\ ~poisoned /\ at.req = Now + 1 /\ at.req <= call.upto
      <4>1. at.req <= call.upto /\ at.part = 0
        BY <1>6 DEF OnHeadersComplete
      <4>2. at.req \in Nat /\ call.upto \in Nat /\ at.req >= 1
        BY AfterProperties, RequestsAssumption DEF Typed, TypeOK
      <4>3. ~Idle
        BY <4>1, <4>2 DEF Idle
      <4> QED
        BY <4>1, <4>3, NowProperties DEF Typed, Places
    <3>2. Now <= Cardinality(Complete)
      <4> DEFINE n == Cardinality(Complete)
                 u == call.upto
      <4>1. u <= n + 1 \/ u <= Now
        BY <3>1 DEF Begun
      <4>2. n \in Nat /\ u \in Nat /\ Now \in Nat /\ Now + 1 <= u
        <5>1. n \in Nat /\ Now \in Nat
          BY CompleteProperties, NowProperties
        <5>2. u \in 0 .. R /\ R \in Nat
          BY RequestsAssumption DEF Typed, TypeOK
        <5> QED
          BY <3>1, <5>1, <5>2
      <4> HIDE DEF n, u
      <4>3. Now <= n
        BY <4>1, <4>2
      <4> QED
        BY <4>3 DEF n
    <3>3. ~(Cardinality(Complete) < Now)
      BY <3>2, CompleteProperties, NowProperties
    <3>4. \A q \in Req : ~Handling(q)
      <4>1. \A q \in Req : Handling(q) => q <= Now /\ ~Answered(q)
        BY <3>1 DEF Begun, Handling, Answering
      <4> QED
        BY <1>1, <3>3, <4>1, FewerAnswers
    <3>5. task \in [Req -> Tasks]
      BY DEF Typed, TypeOK, Tasks
    <3> QED
      BY <2>2, <3>4, <3>5 DEF Handling
  <2> QED
    BY <1>6, <2>1, <2>2 DEF OnHeadersComplete, loop
<1> QED
  BY <1>3, <1>4, <1>5, <1>6, StepCases, OutsideQuiet, OutsideAnswer

-----------------------------------------------------------------------------
(* The settings whose requests do not disturb each other. *)
Served == Lone /\ Kept /\ Reading /\ Answers

Good == Typed /\ Begun /\ Calm /\ Lone /\ Kept /\ Reading /\ Answers

LastHead == Len(out) > 0 /\ out[Len(out)].kind = "head"

LEMMA CalmProperties ==
    ASSUME Typed, Calm
    PROVE  /\ Cached \cup Upgrades = {} /\ ~poisoned
           /\ ~May("early") /\ ~May("fixed") /\ ~May("hook_failures")
           /\ May("pauses") => ~May("plain") /\ ~May("failures") /\ ~May("route_timeouts")
           /\ May("route_timeouts") => /\ ~May("failures")
                                       /\ \A r \in 1 .. Last : Body[r] = 0
BY DEF Calm, Orderly, May

LEMMA GoodProperties ==
    ASSUME Good
    PROVE  /\ Now \in Nat /\ Now <= Last /\ Cardinality(Complete) \in Nat
           /\ Cardinality(Complete) <= Now
           /\ \A r \in Req : /\ Running(r) => r = Now
                             /\ Handling(r) => ~Sending(r) /\ ~Erring(r) /\ ~Answered(r)
                             /\ Sending(r) => ~Handling(r) /\ ~Erring(r)
                             /\ Erring(r) => ~Handling(r) /\ ~Sending(r)
                             /\ Answered(r) => r <= Now
                             /\ Handling(r) => Cardinality(Complete) < Now
           /\ LastHead /\ ~closed => /\ stream[Now] \in {"wait_head", "body", "wait_chunk"}
                                     /\ out[Len(out)].req = Now /\ Now \in Req /\ Sending(Now)
           /\ at.part # 0 => at.req \in Req /\ at.req = Now /\ Handling(Now)
<1>1. /\ Now \in Nat /\ Cardinality(Complete) \in Nat /\ at.req \in Nat /\ Last \in Nat
      /\ at.part # 0 => Now = at.req /\ Now \in Req
      /\ at.part = 0 => at.req = Now + 1
  BY NowProperties, CompleteProperties, AfterProperties DEF Good
<1>2. Now <= Last
  BY <1>1 DEF Good, Typed, Places
<1>3. \A r \in Req : /\ Running(r) => r = Now
                     /\ Handling(r) => ~Sending(r) /\ ~Erring(r) /\ ~Answered(r)
                     /\ Sending(r) => ~Handling(r) /\ ~Erring(r)
                     /\ Erring(r) => ~Handling(r) /\ ~Sending(r)
                     /\ Answered(r) => r <= Now
  BY CalmProperties DEF Good, Lone, Begun, Answering
<1>4. \A r \in Req : Handling(r) => Cardinality(Complete) < Now
  BY <1>3 DEF Good, Answers, Running, Sending
<1>5. ASSUME LastHead, ~closed
      PROVE  /\ stream[Now] \in {"wait_head", "body", "wait_chunk"}
             /\ out[Len(out)].req = Now /\ Now \in Req /\ Sending(Now)
  <2>1. Len(out) \in 1 .. Len(out) /\ out[Len(out)].kind = "head"
    BY <1>5, CompleteProperties DEF LastHead, Good
  <2>2. out[Len(out)].req \in Req
    BY <2>1, CompleteProperties DEF Good
  <2>3. stream[out[Len(out)].req] \in {"wait_head", "body", "wait_chunk"}
    BY <1>5, <2>1 DEF Good, Answers
  <2>4. Sending(out[Len(out)].req)
    BY <2>3 DEF Sending
  <2>5. out[Len(out)].req = Now
    BY <1>3, <2>2, <2>4 DEF Running
  <2> QED
    BY <2>2, <2>3, <2>4, <2>5
<1>6. at.part # 0 => Handling(at.req)
  BY DEF Good, Lone
<1> QED
  BY <1>1, <1>2, <1>3, <1>4, <1>5, <1>6 DEF Good, Answers

(* What is asked of a step for Answers to go on, when it writes nothing... *)
LEMMA AnswersStay ==
    ASSUME Typed, Answers, out' = out, closed => closed',
           Now' \in Nat, Now <= Now',
           \A q \in Req : /\ Running(q)' /\ Answered(q) => stream'[q] = "wait_tail"
                          /\ Running(q)' /\ stream'[q] # "wait_tail" => Cardinality(Complete) < Now',
           LastHead => closed' \/ stream'[out[Len(out)].req] \in {"wait_head", "body", "wait_chunk"}
    PROVE  Answers'
<1>1. Complete' = Complete /\ Cardinality(Complete) \in Nat /\ Now \in Nat /\ Len(out) \in Nat
  BY CompleteProperties, NowProperties DEF Complete
<1>2. Cardinality(Complete) <= Now'
  <2> DEFINE n == Cardinality(Complete)
  <2>1. n \in Nat /\ n <= Now
    BY <1>1 DEF Answers
  <2> HIDE DEF n
  <2>2. n <= Now'
    BY <1>1, <2>1
  <2> QED
    BY <2>2 DEF n
<1>3. (\A i \in Complete : Running(out[i].req) => stream[out[i].req] = "wait_tail")'
  <2>1. \A i \in Complete : out[i].req \in Req /\ Answered(out[i].req)
    BY CompleteProperties DEF Answered
  <2>2. ASSUME NEW i \in Complete, NEW q, q = out[i].req, Running(q)'
        PROVE  stream'[q] = "wait_tail"
    BY <2>1, <2>2
  <2>3. ASSUME NEW i \in Complete
        PROVE  Running(out[i].req)' => stream'[out[i].req] = "wait_tail"
    BY <2>1, <2>2 DEF Running, Handling, Sending, Erring
  <2> QED
    BY <1>1, <2>3
<1>4. \A i \in 1 .. Len(out') : out'[i].kind = "head" =>
          IF i = Len(out')
          THEN closed' \/ stream'[out'[i].req] \in {"wait_head", "body", "wait_chunk"}
          ELSE out'[i + 1] = [req |-> out'[i].req, kind |-> "tail"]
  <2>1. Len(out) \in 1 .. Len(out) => Len(out) > 0
    BY <1>1
  <2> QED
    BY <2>1 DEF Answers, LastHead
<1> QED
  BY <1>1, <1>2, <1>3, <1>4 DEF Answers

(* ... and when it completes the answer to the request being processed. *)
LEMMA AnswersAdd ==
    ASSUME Typed, Answers, NEW r \in Req, NEW kind \in {"full", "error", "tail"},
           Write(r, kind), Now' = Now, r = Now, closed => closed',
           ~Answered(r), \A q \in Req : Answered(q) => q <= Now,
           Cardinality(Complete) < Now,
           \A q \in Req : Running(q)' => q = r /\ stream'[q] = "wait_tail",
           LastHead /\ ~closed => kind = "tail" /\ out[Len(out)].req = r
    PROVE  Answers'
<1>0. /\ Cardinality(Complete) \in Nat /\ Now \in Nat /\ Len(out) \in Nat
      /\ Complete \subseteq 1 .. Len(out) /\ \A i \in 1 .. Len(out) : out[i].req \in Req
  BY CompleteProperties, NowProperties
<1>1. CASE closed
  <2>1. out' = out
    BY <1>1, WriteProperties
  <2> QED
    BY <1>0, <1>1, <2>1, AnswersStay
<1>2. CASE ~closed
  <2> DEFINE n == Len(out)
             piece == [req |-> r, kind |-> kind]
  <2>1. /\ Len(out') = n + 1 /\ out'[n + 1] = piece
        /\ Complete' = Complete \cup {n + 1}
        /\ Cardinality(Complete') = Cardinality(Complete) + 1
        /\ \A i \in 1 .. n : out'[i] = out[i]
    BY <1>2, Written
  <2>2. /\ piece.req = r /\ piece.kind # "head"
        /\ kind = "tail" => piece = [req |-> r, kind |-> "tail"]
    OBVIOUS
  <2>3. n \in Nat /\ \A i \in Complete : i \in 1 .. n /\ i < n + 1
    BY <1>0
  <2> HIDE DEF n, piece
  <2>4. \A i, j \in Complete' : i < j => out'[i].req < out'[j].req
    <3>1. \A i \in Complete : out[i].req < r
      <4>1. \A i \in Complete : out[i].req \in Req /\ Answered(out[i].req)
        BY <1>0 DEF Answered
      <4>2. \A i \in Complete : out[i].req <= Now /\ out[i].req # r /\ out[i].req \in Nat
        BY <4>1 DEF Req
      <4> QED
        BY <1>0, <4>2
    <3>2. \A i \in Complete : ~(n + 1 < i)
      BY <2>3
    <3>3. ~(n + 1 < n + 1)
      BY <2>3
    <3>4. \A i, j \in Complete : i < j => out[i].req < out[j].req
      BY DEF Answers
    <3> QED
      BY <2>1, <2>2, <2>3, <3>1, <3>2, <3>3, <3>4
  <2>5. Cardinality(Complete') <= Now'
    <3> DEFINE c == Cardinality(Complete)
    <3>1. c \in Nat /\ c < Now /\ Now \in Nat
      BY <1>0
    <3> HIDE DEF c
    <3>2. c + 1 <= Now
      BY <3>1
    <3> QED
      BY <2>1, <3>2 DEF c
  <2>6. \A i \in 1 .. Len(out') : out'[i].kind = "head" =>
          IF i = Len(out')
          THEN closed' \/ stream'[out'[i].req] \in {"wait_head", "body", "wait_chunk"}
          ELSE out'[i + 1] = [req |-> out'[i].req, kind |-> "tail"]
    <3> SUFFICES ASSUME NEW i \in 1 .. Len(out'), out'[i].kind = "head"
                 PROVE  i # Len(out') /\ out'[i + 1] = [req |-> out'[i].req, kind |-> "tail"]
      OBVIOUS
    <3>1. i \in 1 .. n /\ i # n + 1 /\ out[i].kind = "head" /\ out'[i] = out[i]
      <4>1. i # n + 1
        BY <2>1, <2>2
      <4>2. i \in 1 .. n
        BY <2>1, <2>3, <4>1
      <4> QED
        BY <2>1, <4>1, <4>2
    <3>2. CASE i = n
      <4>1. LastHead
        BY <3>1, <3>2, <2>3 DEF LastHead, n
      <4>2. kind = "tail" /\ out[i].req = r
        BY <1>2, <3>2, <4>1 DEF n
      <4> QED
        BY <2>1, <2>2, <3>1, <3>2, <4>2
    <3>3. CASE i # n
      <4>1. out[i + 1] = [req |-> out[i].req, kind |-> "tail"]
        BY <3>1, <3>3 DEF Answers, n
      <4>2. i + 1 \in 1 .. n
        BY <2>3, <3>1, <3>3
      <4>3. out'[i + 1] = out[i + 1]
        BY <2>1, <4>2
      <4> QED
        BY <2>1, <3>1, <4>1, <4>3
    <3> QED
      BY <3>2, <3>3
  <2>7. \A i \in Complete' : out'[i].req \in Req
    BY <1>0, <2>1, <2>2, <2>3
  <2> QED
    BY <2>4, <2>5, <2>6, <2>7 DEF Answers
<1> QED
  BY <1>1, <1>2

(* A step outside the parser that neither ends nor writes anything. *)
Silent ==
    /\ Idle' /\ UNCHANGED <<at, stream, errors, out, armed, timeout_task, request, current_task,
                            queue, consumed, got, eof, status, readable>>
    /\ \A q \in Req : (Handling(q)' <=> Handling(q)) /\ (Handling(q) => task'[q] = task[q])
    /\ permission => permission'
    /\ writable => writable'
    /\ ~writable /\ writable' => permission'
    /\ closed => closed'
    /\ closing => closing' \/ closed'

LEMMA ServedSilent ==
    ASSUME Good, setting' = setting, Silent
    PROVE  Served'
<1>0. /\ Body' = Body /\ (\A f : May(f)' = May(f)) /\ Now' = Now /\ Idle'
      /\ \A q : Parts(q)' = Parts(q)
      /\ \A q : Unread(q)' <=> Unread(q)
  BY SettingStays DEF Silent, Now, Parts, Unread
<1>1. \A q \in Req : /\ Sending(q)' <=> Sending(q)
                     /\ Erring(q)' <=> Erring(q)
                     /\ Handling(q)' <=> Handling(q)
                     /\ Running(q)' <=> Running(q)
  BY DEF Silent, Sending, Erring, Running
<1>2. Lone'
  <2>1. (at.part # 0 => Handling(at.req))'
    BY <1>1, GoodProperties DEF Silent, Handling
  <2>2. (\A r \in Req : stream[r] = "wait_tail" => permission \/ ~writable)'
    BY DEF Silent, Lone, Good
  <2>3. (~May("pauses") => writable)' /\ (May("pauses") => errors = {})'
    BY <1>0 DEF Silent, Lone, Good
  <2> QED
    BY <1>0, <1>1, <2>1, <2>2, <2>3 DEF Silent, Lone, Good
<1>3. Kept'
  BY <1>0, <1>1 DEF Silent, Kept, Good
<1>4. Reading'
  BY <1>0, <1>1 DEF Silent, Reading, Good
<1>5. Answers'
  <2>1. Now' \in Nat /\ Now <= Now'
    BY <1>0, NowProperties DEF Good
  <2>2. LastHead => closed' \/ stream'[out[Len(out)].req] \in {"wait_head", "body", "wait_chunk"}
    BY GoodProperties DEF Silent
  <2>3. \A q \in Req : /\ Running(q)' /\ Answered(q) => stream'[q] = "wait_tail"
                       /\ Running(q)' /\ stream'[q] # "wait_tail" => Cardinality(Complete) < Now'
    BY <1>0, <1>1 DEF Silent, Good, Answers, Answered
  <2> QED
    BY <2>1, <2>2, <2>3, AnswersStay DEF Silent, Good
<1> QED
  BY <1>2, <1>3, <1>4, <1>5 DEF Served

LEMMA SilentSteps ==
    ASSUME Good,
           \/ FeedDone \/ ResumeWriting \/ ConnectionLost \/ Stop \/ ScheduledClose
           \/ ErrorHandlerRaises
           \/ Idle /\ UNCHANGED vars
           \/ \E r \in Req : HooksDone(r)
    PROVE  Silent
<1>1. CASE \/ FeedDone \/ ResumeWriting \/ ConnectionLost \/ Stop \/ ScheduledClose
           \/ Idle /\ UNCHANGED vars
  BY <1>1 DEF FeedDone, ResumeWriting, ConnectionLost, Stop, ScheduledClose, vars, state, conn, slots,
       shared, parser, loop, seen, Idle, Silent, Handling
<1>2. ASSUME NEW r \in Req, HooksDone(r)
      PROVE  Silent
  <2>1. /\ Idle' /\ task[r] = "after_sent" /\ task' = [task EXCEPT ![r] = "done"]
        /\ UNCHANGED <<at, stream, errors, out, armed, timeout_task, request, current_task, queue,
                       consumed, got, eof, status, readable, permission, writable, closed, closing>>
    BY <1>2, CalmProperties DEF HooksDone, conn, slots, shared, parser, seen, Good, Idle
  <2>2. task \in [Req -> Tasks]
    BY DEF Good, Typed, TypeOK, Tasks
  <2> QED
    BY <2>1, <2>2 DEF Silent, Handling
<1>3. ~ErrorHandlerRaises
  BY DEF ErrorHandlerRaises, Good, Calm, Orderly, May
<1> QED
  BY <1>1, <1>2, <1>3

(* A handler that may answer, or be timed out, has all there is of its body. *)
LEMMA MayAnswerProperties ==
    ASSUME Good, NEW r \in Req, MayAnswer(r) \/ CancelRequest(r)
    PROVE  /\ Handling(r) /\ r = Now /\ at.part = 0
           /\ queue.items = <<>> /\ ~queue.waiting
           /\ \A q \in Req : Running(q) => q = r
           /\ errors = {} /\ Cardinality(Complete) < Now /\ ~Answered(r)
           /\ \A q \in Req : ~Sending(q)
           /\ CancelRequest(r) => current_task = r
           /\ LastHead => closed
<1>1. Handling(r) /\ (CancelRequest(r) => current_task = r)
  BY DEF MayAnswer, CancelRequest, Handling, Good, Kept
<1>2. /\ r = Now /\ Now <= Last /\ Cardinality(Complete) < Now /\ ~Answered(r)
      /\ \A q \in Req : Running(q) => q = r
      /\ ~Sending(r) /\ ~Erring(r) /\ Now \in Nat
  BY <1>1, GoodProperties DEF Running
<1>3. r \in 1 .. Last /\ r \in Nat /\ Body[r] \in Nat
  <2>1. r \in 1 .. Last
    BY <1>2, SettingProperties DEF Req, Good, Typed, TypeOK
  <2> QED
    BY <2>1, SettingProperties DEF Good, Typed, TypeOK
<1>4. Body[r] = 0 \/ r \in eof
  BY <1>3, CalmProperties DEF MayAnswer, CancelRequest, Good
<1>5. at.part = 0
  <2>1. SUFFICES ASSUME at.part # 0 PROVE FALSE
    OBVIOUS
  <2>2. at.req = r /\ ~(r < at.req)
    BY <1>2, <1>3, <2>1, GoodProperties
  <2>3. Body[r] = 0
    BY <1>4, <2>2 DEF Good, Reading
  <2>4. at.part \in Nat /\ at.part <= 1 /\ Idle /\ ~poisoned
    BY <2>1, <2>2, <2>3, AfterProperties, CalmProperties DEF Good, Typed, Places, MayAnswer, CancelRequest
  <2>5. at.part = 1
    BY <2>1, <2>4
  <2> QED
    BY <2>2, <2>3, <2>4, <2>5 DEF Good, Typed, Places
<1>6. queue.items = <<>> /\ ~queue.waiting
  BY <1>1, <1>4 DEF Good, Reading
<1>7. errors = {}
  <2>1. \A e \in errors : Erring(e.req) /\ e.req \in Req
    BY DEF Erring, Good, Typed, TypeOK
  <2> QED
    BY <1>2, <2>1 DEF Running
<1>8. \A q \in Req : ~Sending(q)
  BY <1>2 DEF Running
<1>9. LastHead => closed
  BY <1>8, GoodProperties
<1> QED
  BY <1>1, <1>2, <1>5, <1>6, <1>7, <1>8, <1>9

(* An error handler or a stream of the request that was parsed to its end. *)
LEMMA BehindProperties ==
    ASSUME Good, NEW r \in Req, Sending(r) \/ Erring(r)
    PROVE  /\ r = Now /\ at.part = 0 /\ ~Handling(r)
           /\ \A q \in Req : Running(q) => q = r
           /\ \A q \in Req : ~Handling(q)
           /\ queue.items = <<>> /\ ~queue.waiting
           /\ stream[r] # "wait_tail" => Cardinality(Complete) < Now /\ ~Answered(r)
           /\ Erring(r) => /\ \A q \in Req : ~Sending(q)
                           /\ \A e \in errors : errors = {e}
                           /\ ~May("pauses")
           /\ Sending(r) => errors = {}
<1>1. /\ r = Now /\ ~Handling(r) /\ (Sending(r) => ~Erring(r)) /\ Running(r)
      /\ \A q \in Req : Running(q) => q = r
  BY GoodProperties DEF Running
<1>2. /\ \A q \in Req : ~Handling(q)
      /\ at.part = 0
  BY <1>1, GoodProperties DEF Running
<1>3. queue.items = <<>> /\ ~queue.waiting
  BY <1>2 DEF Good, Reading
<1>4. stream[r] # "wait_tail" => Cardinality(Complete) < Now /\ ~Answered(r)
  BY <1>1 DEF Good, Answers, Answered
<1>5. Erring(r) => /\ \A q \in Req : ~Sending(q)
                   /\ \A e \in errors : errors = {e}
                   /\ ~May("pauses")
  BY <1>1 DEF Good, Lone, Running, Erring
<1>6. Sending(r) => errors = {}
  <2>1. \A e \in errors : Erring(e.req) /\ e.req \in Req
    BY DEF Erring, Good, Typed, TypeOK
  <2> QED
    BY <1>1, <2>1 DEF Running
<1> QED
  BY <1>1, <1>2, <1>3, <1>4, <1>5, <1>6

(* A response was sent, and nothing is left to do. *)
Over ==
    /\ Idle' /\ UNCHANGED <<at, current_task, got, eof>>
    /\ Rested /\ errors' = {} /\ \A q \in Req : ~Running(q)'
    /\ queue.items = <<>> /\ ~queue.waiting /\ at.part = 0
    /\ ~May("pauses") => writable'

LEMMA ServedOver ==
    ASSUME Good, setting' = setting, Over
    PROVE  Lone' /\ Kept' /\ Reading'
<1>0. /\ Body' = Body /\ (\A f : May(f)' = May(f)) /\ Now' = Now /\ Idle' /\ at'.part = 0
      /\ queue'.items = <<>> /\ ~queue'.waiting /\ ~queue'.finished
  BY SettingStays DEF Over, Rested, Now
<1>1. \A q \in Req : ~Handling(q)' /\ ~Sending(q)' /\ ~Erring(q)'
  BY DEF Over, Running
<1>2. Lone'
  <2>1. \A q \in Req : stream'[q] \notin {"wait_flush", "flushed", "wait_tail"}
    BY <1>1 DEF Sending
  <2> QED
    BY <1>0, <1>1, <2>1 DEF Over, Lone
<1>3. Kept'
  <2>1. \A q \in Req : <<"route", q>> \notin armed'
    BY DEF Over, Rested, Good, Kept
  <2>2. closed' \/ closing' \/ readable'
    BY DEF Over, Rested
  <2> QED
    BY <1>0, <1>1, <2>1, <2>2 DEF Over, Rested, Kept
<1>4. Reading'
  BY <1>0, <1>1 DEF Over, Reading, Good
<1> QED
  BY <1>2, <1>3, <1>4

LEMMA OverSteps ==
    ASSUME Good, setting' = setting,
           \/ \E r \in Req : \/ Answer(r) \/ StreamDone(r)
                             \/ StreamTail(r) /\ stream'[r] = "done"
           \/ \E e \in errors : HandleException(e)
    PROVE  Over /\ Answers'
<1>0. /\ task \in [Req -> Tasks] /\ stream \in [Req -> Streams] /\ closed \in BOOLEAN
      /\ \A e \in errors : e.req \in Req
  BY DEF Good, Typed, TypeOK, Tasks, Streams
<1>1. ASSUME NEW r \in Req, Answer(r)
      PROVE  Over /\ Answers'
  <2>1. /\ Handling(r) /\ r = Now /\ at.part = 0
        /\ queue.items = <<>> /\ ~queue.waiting
        /\ \A q \in Req : Running(q) => q = r
        /\ errors = {} /\ Cardinality(Complete) < Now /\ ~Answered(r)
        /\ \A q \in Req : ~Sending(q)
        /\ LastHead => closed
    BY <1>1, MayAnswerProperties DEF Answer
  <2>2. /\ Idle' /\ UNCHANGED <<at, current_task, got, eof, errors, stream>>
        /\ Send(r, "full", request) /\ May("plain")
        /\ \E t \in {"after_sent", "done"} : task' = [task EXCEPT ![r] = t]
    BY <1>1 DEF Answer, MayAnswer, AfterSend, parser, Idle
  <2>3. Write(r, "full") /\ writable' /\ Rested /\ ~May("pauses")
    <3>1. writable /\ ~May("pauses")
      BY <2>2, CalmProperties DEF Good, Lone
    <3>2. Write(r, "full") /\ ((writable' /\ Rested) \/ ~writable')
      BY <2>2, SendProperties DEF Good
    <3>3. writable' = writable
      BY <3>1, <3>2, WriteProperties DEF Good
    <3> QED
      BY <3>1, <3>2, <3>3
  <2>4. \A q \in Req : ~Running(q)'
    <3>1. \A q \in Req : ~Handling(q)'
      BY <1>0, <2>1, <2>2 DEF Running, Handling
    <3> QED
      BY <2>1, <2>2, <3>1 DEF Running, Sending, Erring
  <2>5. Over
    BY <2>1, <2>2, <2>3, <2>4 DEF Over
  <2>6. Answers'
    <3>1. Now' = Now /\ (closed => closed') /\ \A q \in Req : Answered(q) => q <= Now
      BY <2>2, <2>3, GoodProperties DEF Now, Rested
    <3> QED
      BY <2>1, <2>3, <2>4, <3>1, AnswersAdd DEF Good
  <2> QED
    BY <2>5, <2>6
<1>2. ASSUME NEW e \in errors, HandleException(e)
      PROVE  Over /\ Answers'
  <2> DEFINE r == e.req
  <2>0. r \in Req /\ Erring(r)
    BY <1>0 DEF Erring
  <2>1. /\ r = Now /\ at.part = 0
        /\ \A q \in Req : ~Handling(q)
        /\ queue.items = <<>> /\ ~queue.waiting
        /\ \A q \in Req : ~Sending(q)
        /\ errors = {e} /\ ~May("pauses")
    BY <2>0, BehindProperties
  <2>2. Cardinality(Complete) < Now /\ ~Answered(r)
    BY <2>0, <2>1, BehindProperties DEF Sending
  <2>3. /\ Idle' /\ UNCHANGED <<at, current_task, got, eof, task, stream>>
        /\ Send(r, "error", request) /\ errors' = {}
    BY <1>2, <2>1 DEF HandleException, parser, Idle
  <2> HIDE DEF r
  <2>4. Write(r, "error") /\ writable' /\ Rested
    <3>1. writable
      BY <2>1 DEF Good, Lone
    <3>2. Write(r, "error") /\ ((writable' /\ Rested) \/ ~writable')
      BY <2>0, <2>3, SendProperties DEF Good
    <3>3. writable' = writable
      BY <2>0, <2>1, <3>2, WriteProperties DEF Good
    <3> QED
      BY <3>1, <3>2, <3>3
  <2>5. \A q \in Req : ~Running(q)'
    BY <2>1, <2>3 DEF Running, Handling, Sending, Erring
  <2>6. Over
    BY <2>1, <2>3, <2>4, <2>5 DEF Over
  <2>7. Answers'
    <3>1. Now' = Now /\ (closed => closed') /\ \A q \in Req : Answered(q) => q <= Now
      BY <2>3, <2>4, GoodProperties DEF Now, Rested
    <3>2. LastHead => closed
      BY <2>1, GoodProperties
    <3> QED
      BY <2>0, <2>1, <2>2, <2>4, <2>5, <3>1, <3>2, AnswersAdd DEF Good
  <2> QED
    BY <2>6, <2>7
<1>3. ASSUME NEW r \in Req, StreamTail(r) /\ stream'[r] = "done"
      PROVE  Over /\ Answers'
  <2>0. Sending(r) /\ stream[r] = "body"
    BY <1>3 DEF StreamTail, Sending
  <2>1. /\ r = Now /\ at.part = 0
        /\ \A q \in Req : Running(q) => q = r
        /\ \A q \in Req : ~Handling(q)
        /\ queue.items = <<>> /\ ~queue.waiting
        /\ Cardinality(Complete) < Now /\ ~Answered(r) /\ errors = {}
    BY <2>0, BehindProperties
  <2>2. /\ Idle' /\ UNCHANGED <<at, current_task, got, eof, task, errors>>
        /\ Write(r, "tail") /\ stream' = [stream EXCEPT ![r] = "done"]
        /\ AfterResponse
    BY <1>0, <1>3, CalmProperties DEF StreamTail, parser, Idle, Good, Streams
  <2>3. Rested
    BY <2>2, AfterResponseProperties DEF Good
  <2>4. \A q \in Req : ~Running(q)'
    <3>1. \A q \in Req : ~Sending(q)'
      BY <1>0, <2>1, <2>2 DEF Running, Sending
    <3> QED
      BY <2>1, <2>2, <3>1 DEF Running, Handling, Erring
  <2>5. ~May("pauses") => writable'
    <3>1. ~May("pauses") => writable' = writable
      BY <2>2, WriteProperties DEF Good
    <3> QED
      BY <3>1 DEF Good, Lone
  <2>6. Over
    BY <2>1, <2>2, <2>3, <2>4, <2>5 DEF Over
  <2>7. Answers'
    <3>1. Now' = Now /\ (closed => closed') /\ \A q \in Req : Answered(q) => q <= Now
      BY <2>2, <2>3, GoodProperties DEF Now, Rested
    <3>2. LastHead /\ ~closed => out[Len(out)].req = r
      BY <2>1, GoodProperties
    <3> QED
      BY <2>1, <2>2, <2>4, <3>1, <3>2, AnswersAdd DEF Good
  <2> QED
    BY <2>6, <2>7
<1>4. ASSUME NEW r \in Req, StreamDone(r)
      PROVE  Over /\ Answers'
  <2>0. stream[r] = "wait_tail" /\ Sending(r)
    BY <1>4 DEF StreamDone, Sending, Good, Lone
  <2>1. /\ r = Now /\ at.part = 0
        /\ \A q \in Req : Running(q) => q = r
        /\ \A q \in Req : ~Handling(q)
        /\ queue.items = <<>> /\ ~queue.waiting /\ errors = {}
    BY <2>0, BehindProperties
  <2>2. /\ Idle' /\ UNCHANGED <<at, current_task, got, eof, task, errors, out, writable>>
        /\ stream' = [stream EXCEPT ![r] = "done"] /\ AfterResponse
    BY <1>4 DEF StreamDone, parser, Idle
  <2>3. Rested
    BY <2>2, AfterResponseProperties DEF Good
  <2>4. \A q \in Req : ~Running(q)'
    <3>1. \A q \in Req : ~Sending(q)'
      BY <1>0, <2>1, <2>2 DEF Running, Sending
    <3> QED
      BY <2>1, <2>2, <3>1 DEF Running, Handling, Erring
  <2>5. Over
    BY <2>1, <2>2, <2>3, <2>4 DEF Over, Good, Lone
  <2>6. Answers'
    <3>1. Now' = Now /\ (closed => closed') /\ Now \in Nat /\ Now <= Now
      BY <2>2, <2>3, GoodProperties DEF Now, Rested
    <3>2. LastHead => closed
      BY <2>0, <2>1, GoodProperties
    <3> QED
      BY <2>2, <2>4, <3>1, <3>2, AnswersStay DEF Good
  <2> QED
    BY <2>5, <2>6
<1> QED
  BY <1>1, <1>2, <1>3, <1>4

(* The handler of request r hands over to a stream or to an error handler. *)
HandsOver(r) ==
    /\ Idle' /\ UNCHANGED <<at, current_task, got, eof, queue, consumed, status, readable, closed,
                            closing, permission, writable, request, out>>
    /\ \A q \in Req : ~Handling(q)' /\ (Running(q)' => q = r) /\ (Sending(q)' => ~Erring(q)')
    /\ Running(r)'
    /\ \A e, f \in errors' : e = f
    /\ \A q \in Req : stream'[q] \notin {"wait_flush", "flushed", "wait_tail"}
    /\ May("pauses") => errors' = {}
    /\ \A q \in Req : <<"route", q>> \in armed' =>
          <<"route", q>> \in armed /\ timeout_task' = timeout_task /\ ~May("route_timeouts")

LEMMA ServedHandsOver ==
    ASSUME Good, setting' = setting, NEW r \in Req, MayAnswer(r) \/ CancelRequest(r), HandsOver(r)
    PROVE  Served'
<1>0. /\ Body' = Body /\ (\A f : May(f)' = May(f)) /\ Now' = Now /\ Idle' /\ at'.part = 0
      /\ at.part = 0
  BY SettingStays, MayAnswerProperties DEF HandsOver, Now
<1>1. /\ Handling(r) /\ r = Now
      /\ queue.items = <<>> /\ ~queue.waiting
      /\ Cardinality(Complete) < Now /\ ~Answered(r)
      /\ LastHead => closed
  BY MayAnswerProperties
<1>2. Lone'
  <2>1. \A q \in Req : Running(q)' => q = Now'
    BY <1>0, <1>1 DEF HandsOver
  <2>2. (~May("pauses") => writable)'
    BY <1>0 DEF HandsOver, Good, Lone
  <2> QED
    BY <1>0, <2>1, <2>2 DEF HandsOver, Lone
<1>3. Kept'
  <2>1. \A q \in Req : Running(q)' => status' # "pending"
    BY <1>1 DEF HandsOver, Good, Kept, Running
  <2>2. \A q \in Req : <<"route", q>> \in armed' =>
          timeout_task' = <<"route", q>> /\ ~May("route_timeouts")
    BY DEF HandsOver, Good, Kept
  <2> QED
    BY <1>0, <2>1, <2>2 DEF HandsOver, Kept
<1>4. Reading'
  BY <1>0, <1>1 DEF HandsOver, Reading, Good
<1>5. Answers'
  <2>1. Now' \in Nat /\ Now <= Now'
    BY <1>0, NowProperties DEF Good
  <2> QED
    BY <1>0, <1>1, <2>1, AnswersStay DEF HandsOver, Good
<1> QED
  BY <1>2, <1>3, <1>4, <1>5 DEF Served

LEMMA HandsOverSteps ==
    ASSUME Good, NEW r \in Req, AnswerStream(r) \/ Fail(r) \/ CancelRequest(r)
    PROVE  (MayAnswer(r) \/ CancelRequest(r)) /\ HandsOver(r)
<1>0. /\ task \in [Req -> Tasks] /\ stream \in [Req -> Streams]
  BY DEF Good, Typed, TypeOK, Tasks, Streams
<1>1. MayAnswer(r) \/ CancelRequest(r)
  BY DEF AnswerStream, Fail
<1>2. /\ Handling(r) /\ r = Now /\ \A q \in Req : (Running(q) => q = r) /\ ~Sending(q)
      /\ errors = {} /\ (CancelRequest(r) => current_task = r)
  BY <1>1, MayAnswerProperties
<1>3. /\ Idle' /\ UNCHANGED <<at, current_task, got, eof, queue, consumed, status, readable, closed,
                              closing, permission, writable, request, out>>
      /\ \E t \in {"after_sent", "done", "cancelled"} : task' = [task EXCEPT ![r] = t]
  <2>1. CASE AnswerStream(r)
    BY <2>1 DEF AnswerStream, MayAnswer, AfterSend, Idle, conn, shared, parser, seen
  <2>2. CASE Fail(r)
    BY <2>2 DEF Fail, MayAnswer, Idle, conn, slots, shared, parser, seen
  <2>3. CASE CancelRequest(r)
    <3>1. task' = [task EXCEPT ![r] = IF @ = "done" THEN "done" ELSE "cancelled"]
      BY <1>2, <2>3 DEF CancelRequest
    <3> QED
      BY <2>3, <3>1 DEF CancelRequest, Idle, conn, slots, shared, parser, seen
  <2> QED
    BY <2>1, <2>2, <2>3
<1>4. \A q \in Req : ~Handling(q)'
  BY <1>0, <1>2, <1>3 DEF Running, Handling
<1>5. CASE AnswerStream(r)
  <2>1. timeout_task # NoTimer
    BY <1>2 DEF Good, Kept
  <2>2. /\ stream' = [stream EXCEPT ![r] = "start"] /\ errors' = {}
        /\ \A q \in Req : <<"route", q>> \in armed' =>
              <<"route", q>> \in armed /\ timeout_task # <<"route", q>>
    BY <1>2, <1>5, <2>1 DEF AnswerStream, SendStream
  <2>3. \A q \in Req : stream'[q] = IF q = r THEN "start" ELSE stream[q]
    BY <1>0, <2>2
  <2>4. \A q \in Req : (Sending(q)' <=> q = r) /\ ~Erring(q)'
    BY <1>2, <2>2, <2>3 DEF Sending, Erring
  <2>5. \A q \in Req : stream'[q] \notin {"wait_flush", "flushed", "wait_tail"}
    BY <1>2, <2>3 DEF Sending
  <2> QED
    BY <1>1, <1>3, <1>4, <2>2, <2>4, <2>5 DEF HandsOver, Running, Good, Kept
<1>6. CASE Fail(r) \/ CancelRequest(r)
  <2>1. PICK e : e.req = r /\ errors' = {e}
    <3>1. Raise(r, <<"handler", 0>>).req = r /\ Raise(r, <<"timeout", r>>).req = r
      BY DEF Raise
    <3>2. errors' \in {{Raise(r, <<"handler", 0>>)}, {Raise(r, <<"timeout", r>>)}}
      BY <1>2, <1>6 DEF Fail, CancelRequest
    <3> QED
      BY <3>1, <3>2
  <2>2. stream' = stream /\ timeout_task' = timeout_task
    BY <1>6 DEF Fail, CancelRequest, slots
  <2>3. \A q \in Req : <<"route", q>> \in armed' => <<"route", q>> \in armed /\ ~May("route_timeouts")
    <3>1. CASE Fail(r)
      <4>1. armed' = armed /\ ~May("route_timeouts")
        BY <3>1, CalmProperties DEF Fail, Good
      <4> QED
        BY <4>1
    <3>2. CASE CancelRequest(r)
      <4>1. armed' = armed \ {<<"route", r>>} /\ <<"route", r>> \in armed
        BY <3>2 DEF CancelRequest
      <4>2. \A q \in Req : <<"route", q>> \in armed => <<"route", q>> = <<"route", r>>
        BY <4>1 DEF Good, Kept
      <4> QED
        BY <4>1, <4>2
    <3> QED
      BY <1>6, <3>1, <3>2
  <2>4. \A q \in Req : ~Sending(q)' /\ (Erring(q)' <=> q = r)
    BY <1>2, <2>1, <2>2 DEF Sending, Erring
  <2>5. May("pauses") => errors' = {}
    BY <1>6, CalmProperties DEF Fail, CancelRequest, Good
  <2>6. \A q \in Req : stream'[q] \notin {"wait_flush", "flushed", "wait_tail"}
    BY <1>2, <2>2 DEF Sending
  <2> QED
    BY <1>1, <1>3, <1>4, <2>1, <2>2, <2>3, <2>4, <2>5, <2>6 DEF HandsOver, Running
<1> QED
  BY <1>5, <1>6

(* The stream of request r goes on. *)
GoesOn(r) ==
    /\ Idle' /\ UNCHANGED <<at, task, errors, got, eof, queue, consumed, status, readable, closed,
                            closing, armed, timeout_task, request, current_task, permission>>
    /\ Sending(r) /\ Sending(r)'
    /\ \A q \in Req : q # r => stream'[q] = stream[q]
    /\ stream'[r] \notin {"wait_flush", "flushed"}
    /\ stream'[r] = "wait_tail" => ~writable'
    /\ ~May("pauses") => writable'

LEMMA ServedGoesOn ==
    ASSUME Good, setting' = setting, NEW r \in Req, GoesOn(r)
    PROVE  Lone' /\ Kept' /\ Reading'
<1>0. /\ Body' = Body /\ (\A f : May(f)' = May(f)) /\ Now' = Now /\ Idle'
      /\ \A q : Parts(q)' = Parts(q)
      /\ \A q : Unread(q)' <=> Unread(q)
  BY SettingStays DEF GoesOn, Now, Parts, Unread
<1>1. /\ r = Now /\ at.part = 0 /\ \A q \in Req : (Running(q) => q = r) /\ ~Handling(q)
      /\ errors = {}
  BY BehindProperties DEF GoesOn
<1>2. \A q \in Req : (Running(q)' <=> q = r) /\ ~Handling(q)' /\ ~Erring(q)'
  BY <1>1 DEF GoesOn, Running, Handling, Sending, Erring
<1>3. Lone'
  <2>1. \A q \in Req : /\ stream'[q] \notin {"wait_flush", "flushed"}
                       /\ stream'[q] = "wait_tail" => ~writable'
    BY <1>1 DEF GoesOn, Running, Sending
  <2> QED
    BY <1>0, <1>1, <1>2, <2>1 DEF GoesOn, Lone
<1>4. Kept'
  <2>1. status # "pending"
    BY DEF GoesOn, Good, Kept, Running
  <2>2. \A q \in Req : <<"route", q>> \in armed =>
            timeout_task = <<"route", q>> /\ ~May("route_timeouts")
    BY <1>1 DEF Good, Kept
  <2> QED
    BY <1>0, <1>2, <2>1, <2>2 DEF GoesOn, Kept
<1>5. Reading'
  BY <1>0, <1>1, <1>2 DEF GoesOn, Good, Reading
<1> QED
  BY <1>3, <1>4, <1>5

LEMMA GoesOnSteps ==
    ASSUME Good, setting' = setting, NEW r \in Req,
           \/ StreamHead(r) \/ StreamChunk(r) \/ StreamWake(r)
           \/ StreamTail(r) /\ stream'[r] # "done"
    PROVE  GoesOn(r) /\ Answers'
<1>0. stream \in [Req -> Streams]
  BY DEF Good, Typed, TypeOK, Streams
<1>1. Sending(r)
  BY DEF StreamHead, StreamChunk, StreamWake, StreamTail, Sending
<1>2. /\ r = Now /\ \A q \in Req : (Running(q) => q = r) /\ ~Handling(q)
      /\ stream[r] # "wait_tail" => Cardinality(Complete) < Now /\ ~Answered(r)
      /\ errors = {}
  BY <1>1, BehindProperties
<1>3. ASSUME NEW s, stream' = [stream EXCEPT ![r] = s], UNCHANGED at, task' = task, errors' = errors
      PROVE  /\ stream'[r] = s /\ \A q \in Req : q # r => stream'[q] = stream[q]
             /\ Now' = Now /\ \A q \in Req : Running(q)' => q = r
  <2>1. stream'[r] = s /\ \A q \in Req : q # r => stream'[q] = stream[q]
    BY <1>0, <1>3
  <2> QED
    BY <1>2, <1>3, <2>1 DEF Running, Handling, Sending, Erring, Now
<1>4. ~May("pauses") => writable
  BY DEF Good, Lone
<1>5. CASE StreamHead(r)
  <2>1. PICK s \in {"wait_head", "body"} : stream' = [stream EXCEPT ![r] = s]
    BY <1>5 DEF StreamHead
  <2>2. /\ Idle' /\ UNCHANGED <<at, task, errors, got, eof, queue, consumed, status, readable, closed,
                            closing, armed, timeout_task, request, current_task, permission>>
        /\ Write(r, "head") /\ stream[r] = "start"
    BY <1>5 DEF StreamHead, Idle, slots, shared, parser
  <2>3. /\ stream'[r] = s /\ \A q \in Req : q # r => stream'[q] = stream[q]
        /\ Now' = Now /\ \A q \in Req : Running(q)' => q = r
    BY <1>3, <2>1, <2>2
  <2>4. ~May("pauses") => writable'
    BY <1>4, <2>2, WriteProperties DEF Good
  <2>5. GoesOn(r)
    BY <1>1, <2>2, <2>3, <2>4 DEF GoesOn, Sending
  <2>6. Answers'
    <3>1. /\ Complete' = Complete /\ Cardinality(Complete) < Now /\ ~Answered(r)
          /\ (LastHead => closed) /\ Len(out) \in Nat /\ Complete \subseteq 1 .. Len(out)
          /\ Cardinality(Complete) <= Now
      BY <1>2, <2>2, Written, GoodProperties, CompleteProperties DEF Good
    <3>2. CASE closed
      <4>1. out' = out /\ closed' /\ Now' \in Nat /\ Now <= Now'
        BY <2>2, <2>3, <3>2, Written, NowProperties DEF Good
      <4>2. \A q \in Req : /\ Running(q)' /\ Answered(q) => stream'[q] = "wait_tail"
                           /\ Running(q)' => Cardinality(Complete) < Now'
        BY <2>3, <3>1
      <4> QED
        BY <4>1, <4>2, AnswersStay DEF Good
    <3>3. CASE ~closed
      <4> DEFINE n == Len(out)
                 piece == [req |-> r, kind |-> "head"]
      <4>1. /\ Len(out') = n + 1 /\ out'[n + 1] = piece /\ piece.req = r
            /\ \A i \in 1 .. n : out'[i] = out[i]
        BY <2>2, <3>3, Written DEF Good
      <4>2. n \in Nat /\ \A i \in Complete : i \in 1 .. n /\ out'[i] = out[i]
        BY <3>1, <4>1
      <4>3. LastHead <=> n > 0 /\ out[n].kind = "head"
        BY DEF LastHead
      <4> HIDE DEF n, piece
      <4>4. (\A i, j \in Complete : i < j => out[i].req < out[j].req)'
        BY <3>1, <4>2 DEF Good, Answers
      <4>5. (\A i \in Complete : Running(out[i].req) => stream[out[i].req] = "wait_tail")'
        <5>1. \A i \in Complete : out[i].req \in Req /\ Answered(out[i].req)
          BY CompleteProperties DEF Answered, Good
        <5>2. ASSUME NEW i \in Complete, NEW q, q = out[i].req, Running(q)'
              PROVE  FALSE
          BY <2>3, <3>1, <5>1, <5>2
        <5>3. ASSUME NEW i \in Complete
              PROVE  ~Running(out[i].req)'
          BY <4>2, <5>2 DEF Running, Handling, Sending, Erring
        <5> QED
          BY <3>1, <5>3
      <4>6. \A i \in 1 .. Len(out') : out'[i].kind = "head" =>
               IF i = Len(out')
               THEN closed' \/ stream'[out'[i].req] \in {"wait_head", "body", "wait_chunk"}
               ELSE out'[i + 1] = [req |-> out'[i].req, kind |-> "tail"]
        <5> SUFFICES ASSUME NEW i \in 1 .. n + 1, out'[i].kind = "head"
                     PROVE  IF i = n + 1
                            THEN stream'[out'[i].req] \in {"wait_head", "body", "wait_chunk"}
                            ELSE out'[i + 1] = [req |-> out'[i].req, kind |-> "tail"]
          BY <4>1
        <5>1. CASE i = n + 1
          BY <2>3, <4>1, <5>1
        <5>2. CASE i # n + 1
          <6>1. i \in 1 .. n /\ out[i].kind = "head" /\ i # n
            <7>1. i \in 1 .. n
              BY <4>2, <5>2
            <7>2. out[i].kind = "head" /\ n > 0
              BY <4>1, <4>2, <7>1
            <7> QED
              BY <3>1, <3>3, <4>3, <7>1, <7>2
          <6>2. out[i + 1] = [req |-> out[i].req, kind |-> "tail"]
            BY <6>1 DEF Good, Answers, n
          <6>3. i + 1 \in 1 .. n
            BY <4>2, <6>1
          <6> QED
            BY <4>1, <5>2, <6>1, <6>2, <6>3
        <5> QED
          BY <5>1, <5>2
      <4>7. \A q \in Req : Running(q)' => Cardinality(Complete') < Now'
        BY <2>3, <3>1
      <4> QED
        BY <2>3, <3>1, <4>4, <4>5, <4>6, <4>7 DEF Answers
    <3> QED
      BY <3>2, <3>3
  <2> QED
    BY <2>5, <2>6
<1>6. CASE StreamChunk(r) \/ StreamWake(r)
  <2>1. /\ stream[r] \in {"wait_head", "wait_chunk", "body"}
        /\ \E s \in {"wait_chunk", "body"} : stream' = [stream EXCEPT ![r] = s]
    <3>1. CASE StreamChunk(r)
      BY <3>1 DEF StreamChunk
    <3>2. CASE StreamWake(r)
      BY <3>2 DEF StreamWake, Good, Lone
    <3> QED
      BY <1>6, <3>1, <3>2
  <2>2. /\ Idle' /\ UNCHANGED <<at, task, errors, got, eof, queue, consumed, status, readable, closed,
                            closing, armed, timeout_task, request, current_task, permission, out>>
        /\ ~May("pauses") => writable'
    BY <1>4, <1>6 DEF StreamChunk, StreamWake, Idle, conn, slots, shared, parser, seen
  <2>3. PICK s \in {"wait_chunk", "body"} :
             /\ stream'[r] = s /\ \A q \in Req : q # r => stream'[q] = stream[q]
             /\ Now' = Now /\ \A q \in Req : Running(q)' => q = r
    BY <1>3, <2>1, <2>2
  <2>4. GoesOn(r)
    BY <1>1, <2>2, <2>3 DEF GoesOn, Sending
  <2>5. Answers'
    <3>1. Now' \in Nat /\ Now <= Now' /\ Cardinality(Complete) < Now /\ ~Answered(r)
      BY <1>2, <2>1, <2>3, NowProperties DEF Good
    <3>2. LastHead => closed' \/ stream'[out[Len(out)].req] \in {"wait_head", "body", "wait_chunk"}
      BY <1>2, <2>2, <2>3, GoodProperties
    <3> QED
      BY <2>2, <2>3, <3>1, <3>2, AnswersStay DEF Good
  <2> QED
    BY <2>4, <2>5
<1>7. CASE StreamTail(r) /\ stream'[r] # "done"
  <2>1. /\ stream[r] = "body" /\ stream' = [stream EXCEPT ![r] = "wait_tail"] /\ ~writable'
        /\ Write(r, "tail") /\ NotYet /\ UNCHANGED request
    BY <1>0, <1>7, CalmProperties DEF StreamTail, Suspends, Good
  <2>2. /\ Idle' /\ UNCHANGED <<at, task, errors, got, eof, queue, consumed, status, readable, closed,
                            closing, armed, timeout_task, request, current_task, permission>>
        /\ ~May("pauses") => writable'
    <3>1. ~May("pauses") => writable' = writable
      BY <2>1, WriteProperties DEF Good
    <3> QED
      BY <1>4, <1>7, <2>1, <3>1 DEF StreamTail, NotYet, Idle, parser
  <2>3. /\ stream'[r] = "wait_tail" /\ \A q \in Req : q # r => stream'[q] = stream[q]
        /\ Now' = Now /\ \A q \in Req : Running(q)' => q = r
    BY <1>3, <2>1, <2>2
  <2>4. GoesOn(r)
    BY <1>1, <2>1, <2>2, <2>3 DEF GoesOn, Sending
  <2>5. Answers'
    <3>1. /\ Cardinality(Complete) < Now /\ ~Answered(r)
          /\ \A q \in Req : Answered(q) => q <= Now
          /\ LastHead /\ ~closed => out[Len(out)].req = r
      BY <1>2, <2>1, GoodProperties
    <3> QED
      BY <1>2, <2>1, <2>2, <2>3, <3>1, AnswersAdd DEF Good
  <2> QED
    BY <2>4, <2>5
<1> QED
  BY <1>5, <1>6, <1>7

(* A timer closes the connection and ends the stream of request r. *)
LEMMA ServedAborts ==
    ASSUME Good, setting' = setting, NEW r \in Req, CancelStreamingTask(r) \/ ChunkTimeout(r)
    PROVE  Served'
<1>0. stream \in [Req -> Streams]
  BY DEF Good, Typed, TypeOK, Streams
<1>1. /\ Idle' /\ UNCHANGED <<at, task, errors, got, eof, queue, consumed, status, readable, writable,
                              timeout_task, request, current_task, permission, closing, out>>
      /\ closed' = TRUE /\ armed' \subseteq armed
      /\ \E s \in {"done", "cancelled"} : stream' = [stream EXCEPT ![r] = s]
  BY DEF CancelStreamingTask, ChunkTimeout, Idle, slots, shared, parser, seen
<1>2. \A q \in Req : stream'[q] = stream[q] \/ stream'[q] \in {"done", "cancelled"}
  BY <1>0, <1>1
<1>3. /\ Body' = Body /\ (\A f : May(f)' = May(f)) /\ Now' = Now
      /\ \A q : Parts(q)' = Parts(q)
      /\ \A q : Unread(q)' <=> Unread(q)
  BY <1>1, SettingStays DEF Now, Parts, Unread
<1>4. \A q \in Req : /\ Sending(q)' => Sending(q) /\ stream'[q] = stream[q]
                     /\ Handling(q)' <=> Handling(q)
                     /\ Erring(q)' <=> Erring(q)
                     /\ Running(q)' => Running(q)
  BY <1>1, <1>2 DEF Sending, Handling, Erring, Running
<1>5. Lone'
  <2>1. (at.part # 0 => Handling(at.req))'
    BY <1>1, GoodProperties DEF Handling
  <2>2. (\A q \in Req : /\ stream[q] \notin {"wait_flush", "flushed"}
                        /\ stream[q] = "wait_tail" => permission \/ ~writable)'
    BY <1>1, <1>2 DEF Good, Lone
  <2> QED
    BY <1>1, <1>3, <1>4, <2>1, <2>2 DEF Good, Lone
<1>6. Kept'
  BY <1>1, <1>3, <1>4 DEF Good, Kept
<1>7. Reading'
  BY <1>1, <1>3, <1>4 DEF Good, Reading
<1>8. Answers'
  <2>1. Now' \in Nat /\ Now <= Now'
    BY <1>3, NowProperties DEF Good
  <2>2. \A q \in Req : /\ Running(q)' /\ Answered(q) => stream'[q] = "wait_tail"
                       /\ Running(q)' /\ stream'[q] # "wait_tail" => Cardinality(Complete) < Now'
    <3> SUFFICES ASSUME NEW q \in Req, Running(q)'
                 PROVE  /\ Answered(q) => stream'[q] = "wait_tail"
                        /\ stream'[q] # "wait_tail" => Cardinality(Complete) < Now'
      OBVIOUS
    <3>1. CASE Sending(q)'
      <4>1. Running(q) /\ stream'[q] = stream[q]
        BY <1>4, <3>1
      <4> QED
        BY <1>3, <4>1 DEF Good, Answers, Answered
    <3>2. CASE Handling(q)' \/ Erring(q)'
      <4>1. ~Sending(q) /\ Running(q) /\ stream[q] # "wait_tail"
        BY <1>4, <3>2, GoodProperties DEF Running, Sending
      <4> QED
        BY <1>3, <4>1 DEF Good, Answers, Answered
    <3> QED
      BY <3>1, <3>2 DEF Running
  <2> QED
    BY <1>1, <2>1, <2>2, AnswersStay DEF Good
<1> QED
  BY <1>5, <1>6, <1>7, <1>8 DEF Served

-----------------------------------------------------------------------------
(* The handler of request r reads from the queue. *)

(* What the next item of the queue is. *)
LEMMA NextItem ==
    ASSUME Good, NEW r \in Req, Handling(r), HasItem(queue) \/ queue.finished
    PROVE  /\ r = Now /\ r \in Nat /\ Len(got[r]) \in Nat /\ Parts(r) \in Nat
           /\ got \in [Req -> Seq(Chunks)]
           /\ AtEnd(queue) => /\ Len(got[r]) = Body[r] /\ at.part = 0 /\ queue.finished
                              /\ HasItem(queue) => Tail(queue.items) = <<>>
                              /\ ~HasItem(queue) => queue.items = <<>>
           /\ ~AtEnd(queue) =>
                /\ HasItem(queue) /\ Head(queue.items) = <<r, Len(got[r]) + 1>>
                /\ Parts(r) - Len(got[r]) > 0
                /\ Len(Tail(queue.items)) = Len(queue.items) - 1
                /\ \A j \in 1 .. Len(queue.items) - 1 : Tail(queue.items)[j] = queue.items[j + 1]
<1>1. r = Now /\ Unread(r) /\ (queue.finished <=> at.part = 0)
  BY GoodProperties DEF Running, Good, Reading
<1>2. /\ r \in Nat /\ Len(got[r]) \in Nat /\ got \in [Req -> Seq(Chunks)]
      /\ queue.items \in Items /\ Len(queue.items) \in Nat
  <2>1. got \in [Req -> Seq(Chunks)] /\ queue \in QueueOf(Chunks)
    BY DEF Good, Typed, TypeOK, Chunks
  <2>2. got[r] \in Seq(Chunks)
    BY <2>1
  <2> QED
    BY <2>1, <2>2, QueueFields DEF Req
<1>3. Parts(r) \in Nat /\ (at.part = 0 => Parts(r) = Body[r])
  <2>1. r \in 1 .. Last /\ Body[r] \in Nat
    <3>1. r \in 1 .. Last
      <4>1. Now <= Last /\ Now \in Nat
        BY GoodProperties
      <4>2. Last \in Nat /\ r >= 1 /\ r \in Nat
        BY SettingProperties DEF Good, Typed, TypeOK, Req
      <4> QED
        BY <1>1, <4>1, <4>2
    <3> QED
      BY <3>1, SettingProperties DEF Good, Typed, TypeOK
  <2> QED
    BY <2>1, AfterProperties DEF Parts, Good
<1> DEFINE n == Parts(r) - Len(got[r])
           s == queue.items
<1>4. /\ n >= 0 /\ Len(s) \in {n, n + 1} /\ n \in Int
      /\ \A j \in 1 .. n : s[j] = <<r, Len(got[r]) + j>>
      /\ Len(s) = n + 1 => s[n + 1] = EndMark /\ queue.finished
  BY <1>1, <1>2, <1>3 DEF Unread
<1>5. EndMark # <<r, Len(got[r]) + 1>>
  <2>1. <<r, Len(got[r]) + 1>> \in Nat \X Nat
    BY <1>2
  <2> QED
    BY <2>1, EndMarkAssumption
<1>6. s # <<>> => /\ Head(s) = s[1] /\ Len(s) >= 1 /\ Len(Tail(s)) = Len(s) - 1
                  /\ \A j \in 1 .. Len(s) - 1 : Tail(s)[j] = s[j + 1]
                  /\ Len(s) = 1 => Tail(s) = <<>>
  <2>1. ASSUME NEW S, NEW t \in Seq(S), t # <<>>
        PROVE  /\ Head(t) = t[1] /\ Len(t) >= 1 /\ Len(Tail(t)) = Len(t) - 1
               /\ \A j \in 1 .. Len(t) - 1 : Tail(t)[j] = t[j + 1]
               /\ Len(t) = 1 => Tail(t) = <<>>
    <3>1. Head(t) = t[1] /\ Len(t) >= 1 /\ Len(Tail(t)) = Len(t) - 1 /\ Tail(t) \in Seq(S)
      BY <2>1, HeadTailProperties
    <3>2. \A j \in 1 .. Len(t) - 1 : Tail(t)[j] = t[j + 1]
      BY <2>1
    <3>3. Len(t) = 1 => Tail(t) = <<>>
      <4>1. Len(t) = 1 => Len(Tail(t)) = 0
        BY <3>1
      <4> QED
        BY <3>1, <4>1, EmptySeq
    <3> QED
      BY <3>1, <3>2, <3>3
  <2> QED
    BY <1>2, <2>1 DEF Items
<1>7. s = <<>> => Len(s) = 0
  OBVIOUS
<1> HIDE DEF s
<1>8. CASE AtEnd(queue)
  <2>1. n = 0
    <3>1. SUFFICES ASSUME n # 0 PROVE FALSE
      OBVIOUS
    <3>2. 1 \in 1 .. n /\ Len(s) # 0 /\ n >= 1
      BY <1>4, <3>1
    <3>3. s # <<>> /\ s[1] = <<r, Len(got[r]) + 1>>
      BY <1>4, <1>7, <3>2
    <3> QED
      BY <1>5, <1>6, <1>8, <3>3 DEF AtEnd, HasItem, s
  <2>2. queue.finished
    <3>1. s # <<>> => Len(s) = n + 1
      BY <1>4, <1>6, <2>1
    <3> QED
      BY <1>4, <1>8, <3>1 DEF AtEnd, HasItem, s
  <2>3. Len(got[r]) = Body[r] /\ at.part = 0
    BY <1>1, <1>2, <1>3, <2>1, <2>2
  <2>4. s # <<>> => Tail(s) = <<>>
    BY <1>4, <1>6, <2>1
  <2> QED
    BY <1>1, <1>2, <1>3, <1>8, <2>2, <2>3, <2>4 DEF HasItem, s
<1>9. CASE ~AtEnd(queue)
  <2>1. s # <<>> /\ Head(s) # EndMark /\ s[1] # EndMark /\ HasItem(queue)
    BY <1>6, <1>9 DEF AtEnd, HasItem, s
  <2>2. n > 0
    <3>1. SUFFICES ASSUME n = 0 PROVE FALSE
      BY <1>4
    <3>2. Len(s) = 0 + 1
      BY <1>4, <1>6, <2>1, <3>1
    <3>3. s[0 + 1] = EndMark
      BY <1>4, <3>1, <3>2
    <3> QED
      BY <2>1, <3>3
  <2>3. Head(s) = <<r, Len(got[r]) + 1>>
    <3>1. 1 \in 1 .. n
      BY <1>4, <2>2
    <3> QED
      BY <1>4, <1>6, <2>1, <3>1
  <2> QED
    BY <1>1, <1>2, <1>3, <1>6, <1>9, <2>1, <2>2, <2>3 DEF s
<1> QED
  BY <1>8, <1>9

Reads(r) ==
    /\ Idle' /\ UNCHANGED <<at, stream, errors, out, armed, timeout_task, request, current_task,
                            status, closed, closing, writable, permission>>
    /\ \A q \in Req : q # r => task'[q] = task[q]
    /\ Handling(r) /\ Handling(r)'

LEMMA ServedReads ==
    ASSUME Good, setting' = setting, NEW r \in Req, Reads(r)
    PROVE  Lone' /\ Kept' /\ Answers'
<1>0. /\ Body' = Body /\ (\A f : May(f)' = May(f)) /\ Now' = Now
  BY SettingStays DEF Reads, Now
<1>1. \A q \in Req : /\ Sending(q)' <=> Sending(q)
                     /\ Erring(q)' <=> Erring(q)
                     /\ Handling(q)' <=> Handling(q)
                     /\ Running(q)' <=> Running(q)
  BY DEF Reads, Sending, Erring, Handling, Running
<1>2. Lone'
  <2>1. (at.part # 0 => Handling(at.req))'
    BY <1>1, GoodProperties DEF Reads, Handling
  <2> QED
    BY <1>0, <1>1, <2>1 DEF Reads, Lone, Good
<1>3. Kept'
  BY <1>0, <1>1 DEF Reads, Kept, Good, Running
<1>4. Answers'
  <2>1. Now' \in Nat /\ Now <= Now'
    BY <1>0, NowProperties DEF Good
  <2>2. LastHead => closed' \/ stream'[out[Len(out)].req] \in {"wait_head", "body", "wait_chunk"}
    BY GoodProperties DEF Reads
  <2>3. \A q \in Req : /\ Running(q)' /\ Answered(q) => stream'[q] = "wait_tail"
                       /\ Running(q)' /\ stream'[q] # "wait_tail" => Cardinality(Complete) < Now'
    BY <1>0, <1>1 DEF Reads, Good, Answers, Answered
  <2> QED
    BY <2>1, <2>2, <2>3, AnswersStay DEF Reads, Good
<1> QED
  BY <1>2, <1>3, <1>4

LEMMA NothingUnread ==
    ASSUME NEW r, Parts(r)' - Len(got'[r]) = 0, Len(queue'.items) = 0
    PROVE  Unread(r)'
<1> DEFINE m == Parts(r)' - Len(got'[r])
<1>1. m = 0
  OBVIOUS
<1> HIDE DEF m
<1>2. m >= 0 /\ Len(queue'.items) \in {m, m + 1} /\ ~(Len(queue'.items) = m + 1)
  BY <1>1
<1>3. \A j \in 1 .. m : FALSE
  BY <1>1
<1> QED
  BY <1>2, <1>3 DEF Unread, m

(* What it takes from the queue is the next chunk of its body, or the end.  *)
LEMMA ReadingTake ==
    ASSUME Good, setting' = setting, NEW r \in Req, Reads(r), ~consumed,
           HasItem(queue) \/ queue.finished, NEW resumed, Take(r, resumed),
           task'[r] = "endpoint", ~queue'.waiting, queue'.finished = queue.finished,
           queue'.items = IF HasItem(queue) THEN Tail(queue.items) ELSE queue.items
    PROVE  Reading'
<1>0. /\ Body' = Body /\ Now' = Now /\ \A q \in Req : Parts(q)' = Parts(q)
  BY SettingStays DEF Reads, Now, Parts
<1>1. /\ Handling(r) /\ r \notin eof /\ Unread(r) /\ (queue.finished <=> at.part = 0)
      /\ (Body[r] = 0 => queue.items = <<>>)
      /\ \A q \in Req : Handling(q)' => q = r
  <2>1. \A q \in Req : Handling(q)' => Handling(q)
    BY DEF Reads, Handling
  <2>2. \A q \in Req : Handling(q) => q = r
    BY GoodProperties DEF Reads, Running
  <2> QED
    BY <2>1, <2>2 DEF Reads, Good, Reading
<1>2. /\ r = Now /\ r \in Nat /\ Len(got[r]) \in Nat /\ Parts(r) \in Nat
      /\ got \in [Req -> Seq(Chunks)] /\ got[r] \in Seq(Chunks)
  BY <1>1, NextItem
<1>3. CASE AtEnd(queue)
  <2>1. /\ Len(got[r]) = Body[r] /\ at.part = 0 /\ queue.finished /\ queue'.items = <<>>
    BY <1>1, <1>3, NextItem
  <2>2. got' = got /\ eof' = eof \cup {r} /\ consumed'
    BY <1>3 DEF Take
  <2>3. r < at.req
    BY <1>2, <2>1, NowProperties DEF Good
  <2>4. Unread(r)'
    <3>1. Parts(r)' = Body[r] /\ Len(got'[r]) = Body[r] /\ Body[r] \in Nat
      BY <1>0, <1>2, <2>1, <2>2, <2>3 DEF Parts
    <3>2. Len(queue'.items) = 0
      BY <2>1
    <3>3. Parts(r)' - Len(got'[r]) = 0
      BY <3>1
    <3> QED
      BY <3>2, <3>3, NothingUnread
  <2> QED
    BY <1>0, <1>1, <2>1, <2>2, <2>3, <2>4 DEF Reading, Good, Reads
<1>4. CASE ~AtEnd(queue)
  <2> DEFINE n == Parts(r) - Len(got[r])
             l == Len(got[r])
             s == queue.items
             x == <<r, l + 1>>
  <2>1. /\ HasItem(queue) /\ Head(s) = x /\ n > 0
        /\ Len(Tail(s)) = Len(s) - 1
        /\ \A j \in 1 .. Len(s) - 1 : Tail(s)[j] = s[j + 1]
    BY <1>1, <1>4, NextItem
  <2>2. got' = [got EXCEPT ![r] = Append(got[r], x)] /\ UNCHANGED <<consumed, eof>>
    BY <1>4, <2>1 DEF Take
  <2>3. /\ got'[r] = Append(got[r], x) /\ Len(got'[r]) = l + 1
        /\ \A i \in 1 .. l : got'[r][i] = got[r][i]
        /\ got'[r][l + 1] = x
        /\ \A q \in Req : q # r => got'[q] = got[q]
        /\ DOMAIN got'[r] = 1 .. l + 1 /\ DOMAIN got[r] = 1 .. l
    <3>1. got'[r] = Append(got[r], x) /\ \A q \in Req : q # r => got'[q] = got[q]
      <4> HIDE DEF x
      <4> QED
        BY <1>2, <2>2
    <3>2. x \in Chunks
      BY <1>2 DEF Chunks
    <3>3. got[r] \in Seq(Chunks)
      BY <1>2
    <3> HIDE DEF x
    <3>4. /\ Append(got[r], x) \in Seq(Chunks) /\ Len(Append(got[r], x)) = Len(got[r]) + 1
          /\ \A i \in 1 .. Len(got[r]) : Append(got[r], x)[i] = got[r][i]
          /\ Append(got[r], x)[Len(got[r]) + 1] = x
      BY <3>2, <3>3, AppendProperties
    <3> QED
      BY <3>1, <3>3, <3>4
  <2>4. Unread(r)'
    <3> DEFINE t == queue'.items
               m == Parts(r)' - Len(got'[r])
    <3>1. t = Tail(s) /\ m = n - 1 /\ n \in Int /\ Len(s) \in Nat /\ Len(t) = Len(s) - 1
      <4>1. Len(s) \in Nat
        BY QueueFields DEF Good, Typed, TypeOK, Chunks
      <4> QED
        BY <1>0, <1>2, <2>1, <2>3, <4>1
    <3>2. /\ Len(s) \in {n, n + 1} /\ \A j \in 1 .. n : s[j] = <<r, l + j>>
          /\ Len(s) = n + 1 => s[n + 1] = EndMark /\ queue.finished
      BY <1>1 DEF Unread
    <3>3. m >= 0 /\ Len(t) \in {m, m + 1}
      <4> HIDE DEF m, n, s, t
      <4> QED
        BY <2>1, <3>1, <3>2
    <3>4. \A j \in 1 .. m : t[j] = <<r, (l + 1) + j>>
      <4> SUFFICES ASSUME NEW j \in 1 .. m PROVE t[j] = <<r, (l + 1) + j>>
        OBVIOUS
      <4> HIDE DEF m, n
      <4>1. j \in 1 .. Len(s) - 1 /\ j + 1 \in 1 .. n /\ (l + 1) + j = l + (j + 1)
        BY <1>2, <2>1, <3>1, <3>2
      <4>2. t[j] = s[j + 1]
        BY <2>1, <3>1, <4>1
      <4> QED
        BY <3>2, <4>1, <4>2
    <3>5. Len(t) = m + 1 => t[m + 1] = EndMark /\ queue'.finished
      <4> HIDE DEF m, n
      <4>1. Len(t) = m + 1 => Len(s) = n + 1 /\ m + 1 \in 1 .. Len(s) - 1 /\ (m + 1) + 1 = n + 1
        BY <2>1, <3>1
      <4> QED
        BY <2>1, <3>1, <3>2, <4>1
    <3> QED
      BY <2>3, <3>3, <3>4, <3>5 DEF Unread
  <2>5. \A q \in Req : \A i \in DOMAIN got'[q] : got'[q][i] = <<q, i>>
    <3>1. \A q \in Req : \A i \in DOMAIN got[q] : got[q][i] = <<q, i>>
      BY DEF Good, Reading
    <3>2. \A i \in 1 .. l + 1 : i \in 1 .. l \/ i = l + 1
      BY <1>2
    <3>3. \A i \in DOMAIN got'[r] : got'[r][i] = <<r, i>>
      BY <2>3, <3>1, <3>2
    <3>4. ASSUME NEW q \in Req, q # r
          PROVE  got'[q] = got[q]
      BY <2>3, <3>4
    <3> QED
      BY <3>1, <3>3, <3>4
  <2>6. \A q \in Req : q > Now => got'[q] = <<>>
    <3>1. ~(r > Now)
      BY <1>2
    <3> QED
      BY <2>3, <3>1 DEF Good, Reading
  <2>7. \A q \in eof' : q < at'.req /\ Len(got'[q]) = Body[q]
    <3>1. \A q \in eof : q # r /\ q \in Req
      BY <1>1 DEF Good, Typed, TypeOK
    <3> QED
      BY <2>2, <2>3, <3>1 DEF Good, Reading, Reads
  <2> QED
    BY <1>0, <1>1, <2>1, <2>2, <2>4, <2>5, <2>6, <2>7 DEF Reading, Reads, HasItem
<1> QED
  BY <1>3, <1>4

LEMMA ReadingWait ==
    ASSUME Good, setting' = setting, NEW r \in Req, ReadBody(r), ~HasItem(queue), ~queue.finished
    PROVE  Reading'
<1>1. /\ Handling(r) /\ task[r] = "endpoint" /\ Idle /\ ~consumed
      /\ queue' = Wait(queue) /\ task' = [task EXCEPT ![r] = "blocked"]
      /\ UNCHANGED <<consumed, got, eof, at>>
  BY DEF ReadBody, parser, Handling
<1>2. /\ queue'.items = queue.items /\ queue'.waiting /\ ~queue'.finished
      /\ queue.items = <<>>
  BY <1>1, WaitProperties DEF Good, Typed, TypeOK, Chunks, HasItem
<1>3. /\ Body' = Body /\ Now' = Now /\ \A q : Parts(q)' = Parts(q)
  BY <1>1, SettingStays DEF Now, Parts
<1>4. /\ \A q \in Req : Handling(q)' => q = r
      /\ task'[r] = "blocked" /\ Handling(r)'
  <2>1. \A q \in Req : Handling(q) => q = r
    BY <1>1, GoodProperties DEF Running
  <2> QED
    BY <1>1, <2>1 DEF Handling, Good, Typed, TypeOK
<1>5. Unread(r) /\ at.part # 0 /\ (consumed <=> r \in eof)
  BY <1>1 DEF Good, Reading
<1>6. Unread(r)'
  BY <1>1, <1>2, <1>3, <1>5 DEF Unread
<1>7. Body[r] # 0
  <2>1. SUFFICES ASSUME Body[r] = 0 PROVE FALSE
    OBVIOUS
  <2>2. at.req = r
    BY <1>1, <1>5, GoodProperties DEF Running
  <2>3. at.part \in Nat /\ at.part <= 1 /\ ~poisoned
    BY <1>5, <2>1, <2>2, AfterProperties, CalmProperties DEF Good, Typed, Places
  <2>4. at.part = 1
    BY <1>5, <2>3
  <2> QED
    BY <1>1, <2>1, <2>2, <2>3, <2>4 DEF Good, Typed, Places
<1> QED
  BY <1>1, <1>2, <1>3, <1>4, <1>5, <1>6, <1>7 DEF Good, Reading

LEMMA ReadSteps ==
    ASSUME Good, setting' = setting, NEW r \in Req, ReadBody(r) \/ ReadResumes(r)
    PROVE  Served'
<1>0. task \in [Req -> Tasks] /\ queue \in QueueOf(Chunks)
  BY DEF Good, Typed, TypeOK, Tasks, Chunks
<1>1. CASE ReadBody(r)
  <2>1. Reads(r) /\ ~consumed /\ task[r] = "endpoint"
    BY <1>0, <1>1 DEF ReadBody, Reads, Idle, slots, parser, Handling
  <2>2. CASE HasItem(queue) \/ queue.finished
    <3>1. /\ Take(r, TRUE) /\ task' = task
          /\ queue' = IF HasItem(queue) THEN Pop(queue) ELSE queue
      BY <1>1, <2>2 DEF ReadBody
    <3>2. ~queue.waiting
      BY <2>1 DEF Good, Reading, Reads
    <3>3. /\ ~queue'.waiting /\ queue'.finished = queue.finished
          /\ queue'.items = IF HasItem(queue) THEN Tail(queue.items) ELSE queue.items
      BY <1>0, <3>1, <3>2, PopProperties
    <3>4. Reading'
      BY <2>1, <2>2, <3>1, <3>3, ReadingTake
    <3> QED
      BY <2>1, <3>4, ServedReads DEF Served
  <2>3. CASE ~HasItem(queue) /\ ~queue.finished
    BY <1>1, <2>1, <2>3, ReadingWait, ServedReads DEF Served
  <2> QED
    BY <2>2, <2>3
<1>2. CASE ReadResumes(r)
  <2>1. Handling(r) /\ task[r] = "woken"
    BY <1>2 DEF ReadResumes, Handling
  <2>2. HasItem(queue) /\ ~consumed
    BY <2>1 DEF Good, Reading, HasItem
  <2>3. /\ Take(r, readable) /\ task' = [task EXCEPT ![r] = "endpoint"]
        /\ queue' = Pop(Woken(queue)) /\ UNCHANGED errors
    BY <1>2, <2>2 DEF ReadResumes
  <2>4. /\ ~queue'.waiting /\ queue'.finished = queue.finished
        /\ queue'.items = Tail(queue.items)
    <3>1. /\ Woken(queue) \in QueueOf(Chunks) /\ Woken(queue).items = queue.items
          /\ Woken(queue).waiting = FALSE /\ Woken(queue).finished = queue.finished
      BY <1>0, WaitProperties
    <3>2. HasItem(Woken(queue))
      BY <2>2, <3>1 DEF HasItem
    <3> QED
      BY <2>3, <3>1, <3>2, PopProperties
  <2>5. Reads(r) /\ task'[r] = "endpoint"
    BY <1>0, <1>2, <2>1, <2>3 DEF ReadResumes, Reads, Idle, slots, parser, Handling
  <2>6. Reading'
    BY <2>2, <2>3, <2>4, <2>5, ReadingTake
  <2> QED
    BY <2>5, <2>6, ServedReads DEF Served
<1> QED
  BY <1>1, <1>2

-----------------------------------------------------------------------------
(* In the parser. *)

(* Nothing was parsed or written yet, or the parser did not see it. *)
Unseen ==
    /\ UNCHANGED <<at, task, stream, errors, out, armed, timeout_task, request, current_task, queue,
                   consumed, got, eof, readable, closed, closing, writable, permission>>
    /\ status' # "pending" \/ status' = status

LEMMA UnseenStays ==
    ASSUME Good, setting' = setting, Unseen
    PROVE  /\ Now' = Now /\ (\A f : May(f)' = May(f))
           /\ \A q \in Req : /\ Sending(q)' <=> Sending(q)
                             /\ Erring(q)' <=> Erring(q)
                             /\ Handling(q)' <=> Handling(q)
                             /\ Running(q)' <=> Running(q)
           /\ (at.part # 0 => Handling(at.req))'
           /\ Reading' /\ Answers'
<1>0. /\ Body' = Body /\ (\A f : May(f)' = May(f)) /\ Now' = Now
      /\ \A q : Parts(q)' = Parts(q)
      /\ \A q : Unread(q)' <=> Unread(q)
  BY SettingStays DEF Unseen, Now, Parts, Unread
<1>1. \A q \in Req : /\ Sending(q)' <=> Sending(q)
                     /\ Erring(q)' <=> Erring(q)
                     /\ Handling(q)' <=> Handling(q)
                     /\ Running(q)' <=> Running(q)
  BY DEF Unseen, Sending, Erring, Handling, Running
<1>2. Reading'
  BY <1>0, <1>1 DEF Unseen, Reading, Good
<1>3. Answers'
  <2>1. Now' \in Nat /\ Now <= Now'
    BY <1>0, NowProperties DEF Good
  <2>2. LastHead => closed' \/ stream'[out[Len(out)].req] \in {"wait_head", "body", "wait_chunk"}
    BY GoodProperties DEF Unseen
  <2>3. \A q \in Req : /\ Running(q)' /\ Answered(q) => stream'[q] = "wait_tail"
                       /\ Running(q)' /\ stream'[q] # "wait_tail" => Cardinality(Complete) < Now'
    BY <1>0, <1>1 DEF Unseen, Good, Answers, Answered
  <2> QED
    BY <2>1, <2>2, <2>3, AnswersStay DEF Unseen, Good
<1>4. (at.part # 0 => Handling(at.req))'
  BY GoodProperties DEF Unseen, Handling
<1> QED
  BY <1>0, <1>1, <1>2, <1>3, <1>4

LEMMA ServedReceive ==
    ASSUME Good, setting' = setting, DataReceived
    PROVE  Served'
<1>1. /\ Polled /\ ~closed /\ at.req <= SentUpTo /\ status' = "receiving"
      /\ call' = [upto |-> SentUpTo, empty |-> TRUE] /\ Unseen
  BY DEF DataReceived, slots, shared, loop, seen, Unseen
<1>2. /\ Now' = Now /\ (\A f : May(f)' = May(f))
      /\ \A q \in Req : /\ Sending(q)' <=> Sending(q)
                        /\ Erring(q)' <=> Erring(q)
                        /\ Handling(q)' <=> Handling(q)
                        /\ Running(q)' <=> Running(q)
      /\ (at.part # 0 => Handling(at.req))'
      /\ Reading' /\ Answers'
  BY <1>1, UnseenStays
<1>3. /\ Now \in Nat /\ Cardinality(Complete) \in Nat /\ at.req \in Nat
      /\ at.req \in 1 .. R + 1 /\ R \in Nat
      /\ SentUpTo \in 0 .. Last /\ SentUpTo \in Nat
      /\ at.part # 0 => Now = at.req /\ Handling(Now) /\ Now \in Req
      /\ at.part = 0 => at.req = Now + 1
  BY NowProperties, CompleteProperties, AfterProperties, SentProperties, GoodProperties,
     RequestsAssumption DEF Good
<1>4. call'.upto <= at.req
  <2>1. CASE ~writable
    <3>1. SentUpTo = 0 \/ SentUpTo = at.req
      BY <2>1, SentProperties DEF Good
    <3> QED
      BY <1>1, <1>3, <3>1
  <2>2. CASE writable
    <3>1. SentUpTo <= Cardinality(Complete) + 1
      <4>1. SentUpTo # 0
        BY <1>1, <1>3
      <4> QED
        BY <2>2, <4>1, SentProperties DEF Good
    <3>2. /\ at.part # 0 => Cardinality(Complete) < at.req
          /\ at.part = 0 => Cardinality(Complete) + 1 <= at.req
      <4>1. at.part # 0 => Cardinality(Complete) < Now
        BY <1>3, GoodProperties
      <4>2. Cardinality(Complete) <= Now
        BY GoodProperties
      <4> DEFINE n == Cardinality(Complete)
      <4>3. n \in Nat /\ n <= Now /\ (at.part # 0 => n < Now)
        BY <1>3, <4>1, <4>2
      <4> HIDE DEF n
      <4>4. (at.part # 0 => n < at.req) /\ (at.part = 0 => n + 1 <= at.req)
        BY <1>3, <4>3
      <4> QED
        BY <4>4 DEF n
    <3> DEFINE n == Cardinality(Complete)
    <3>3. /\ n \in Nat /\ SentUpTo <= n + 1
          /\ (at.part # 0 => n < at.req) /\ (at.part = 0 => n + 1 <= at.req)
      BY <1>3, <3>1, <3>2
    <3> HIDE DEF n
    <3>4. SentUpTo <= at.req
      BY <1>3, <3>3
    <3> QED
      BY <1>1, <3>4
  <2> QED
    BY <2>1, <2>2 DEF Good, Typed, TypeOK
<1>5. ASSUME at.part = 0, NEW r \in Req, Running(r)
      PROVE  FALSE
  <2>1. writable /\ at.req <= Cardinality(Complete) + 1
    <3>1. SentUpTo # 0
      BY <1>1, <1>3
    <3> QED
      BY <1>5, <3>1, SentProperties DEF Good
  <2>2. ~(Cardinality(Complete) < Now)
    <3> DEFINE n == Cardinality(Complete)
    <3>1. n \in Nat /\ at.req <= n + 1 /\ at.req = Now + 1
      BY <1>3, <1>5, <2>1
    <3> HIDE DEF n
    <3>2. ~(n < Now)
      BY <1>3, <3>1
    <3> QED
      BY <3>2 DEF n
  <2>3. stream[r] = "wait_tail"
    BY <1>5, <2>2 DEF Good, Answers
  <2> QED
    BY <1>1, <2>1, <2>3 DEF Polled, Good, Lone
<1>6. Lone'
  <2>1. (~Idle /\ at.part = 0 /\ at.req <= call.upto => \A r \in Req : ~Running(r))'
    BY <1>1, <1>2, <1>5 DEF Unseen
  <2>2. (~Idle => call.upto <= at.req)'
    BY <1>1, <1>4 DEF Unseen
  <2> QED
    BY <1>1, <1>2, <2>1, <2>2 DEF Unseen, Good, Lone
<1>7. Kept'
  BY <1>1, <1>2 DEF Unseen, Good, Kept
<1> QED
  BY <1>2, <1>6, <1>7 DEF Served

LEMMA ServedStutter ==
    ASSUME Good, UNCHANGED vars
    PROVE  Served'
<1>1. /\ setting' = setting /\ Unseen /\ UNCHANGED <<call, status>>
  BY DEF vars, state, conn, slots, shared, parser, loop, seen, Unseen
<1>2. /\ Now' = Now /\ (\A f : May(f)' = May(f))
      /\ \A q \in Req : /\ Sending(q)' <=> Sending(q)
                        /\ Erring(q)' <=> Erring(q)
                        /\ Handling(q)' <=> Handling(q)
                        /\ Running(q)' <=> Running(q)
      /\ (at.part # 0 => Handling(at.req))'
      /\ Reading' /\ Answers'
  BY <1>1, UnseenStays
<1>3. Lone'
  BY <1>1, <1>2 DEF Unseen, Good, Lone, Idle
<1>4. Kept'
  BY <1>1, <1>2 DEF Unseen, Good, Kept, Idle
<1> QED
  BY <1>2, <1>3, <1>4 DEF Served

LEMMA ServedBegins ==
    ASSUME Good, setting' = setting, OnHeadersComplete
    PROVE  Served'
<1>0. PICK r : r = at.req
  OBVIOUS
<1>1. /\ r <= call.upto /\ at.part = 0 /\ Parsed /\ request' = r
      /\ task' = [task EXCEPT ![r] = "endpoint"] /\ current_task' = r
      /\ timeout_task' = <<"route", r>> /\ armed' = armed \cup {<<"route", r>>}
      /\ UNCHANGED <<conn, shared, errors, stream, closing, seen>>
  BY <1>0, CalmProperties DEF OnHeadersComplete, Good
<1>2. /\ r \in Nat /\ r = Now + 1 /\ Now \in Nat /\ r <= Last /\ r \in Req /\ ~Idle
      /\ call.upto \in Nat /\ r >= 1 /\ Body[r] \in Nat
  <2>1. /\ r \in Nat /\ r = Now + 1 /\ Now \in Nat /\ r >= 1 /\ call.upto \in Nat /\ Last \in Nat
        /\ call.upto <= Last
    <3>1. /\ Typed /\ call.upto \in 0 .. R /\ R \in Nat /\ call.upto <= Last
          /\ at.req \in 1 .. R + 1
      BY AfterProperties, RequestsAssumption DEF Good, Typed, TypeOK, Places
    <3>2. /\ Last \in Nat /\ at.req \in Nat /\ at.req = Now + 1 /\ Now \in Nat
      BY <1>1, <3>1, NowProperties, AfterProperties
    <3> QED
      BY <1>0, <3>1, <3>2
  <2>2. r <= Last /\ ~Idle
    BY <1>1, <2>1 DEF Idle
  <2> QED
    BY <1>0, <2>1, <2>2, AfterProperties DEF Good
<1>3. \A q \in Req : ~Running(q)
  BY <1>0, <1>1, <1>2 DEF Good, Lone
<1>4. at' = [req |-> r, part |-> 1] /\ Now' = r
  <2>1. ~Ends(at)
    <3>1. Body[r] + 1 # 0
      BY <1>2
    <3> QED
      BY <1>0, <1>1, <3>1 DEF Ends
  <2>2. at' = [req |-> r, part |-> 1]
    BY <1>0, <1>1, <2>1, AfterProperties DEF Parsed, Good
  <2> QED
    BY <1>2, <2>2 DEF Now
<1>5. /\ Body' = Body /\ (\A f : May(f)' = May(f)) /\ call'.upto = call.upto
  BY <1>1, SettingStays DEF Parsed, Good, Typed, TypeOK
<1>6. /\ \A q \in Req : (Handling(q)' <=> q = r) /\ ~Sending(q)' /\ ~Erring(q)'
      /\ \A q \in Req : Running(q)' <=> q = r
      /\ task'[r] = "endpoint"
  BY <1>1, <1>2, <1>3 DEF Handling, Sending, Erring, Running, Good, Typed, TypeOK
<1>7. Lone'
  <2>1. (at.part # 0 => Handling(at.req))'
    BY <1>2, <1>4, <1>6 DEF Handling
  <2>2. (~Idle => call.upto <= at.req)'
    BY <1>0, <1>2, <1>4, <1>5 DEF Good, Lone
  <2>3. \A q \in Req : stream'[q] \notin {"wait_flush", "flushed", "wait_tail"}
    BY <1>6 DEF Sending
  <2> QED
    BY <1>1, <1>4, <1>5, <1>6, <2>1, <2>2, <2>3 DEF Good, Lone, conn
<1>8. Kept'
  <2>1. ~closed /\ status # "pending" /\ \A q \in Req : <<"route", q>> \notin armed
    BY <1>2, <1>3 DEF Good, Kept, NoTimer
  <2>2. \A q \in Req : <<"route", q>> \in armed' => q = r
    BY <1>1, <2>1
  <2>3. <<"route", r>> # NoTimer
    BY DEF NoTimer
  <2> QED
    BY <1>1, <1>2, <1>6, <2>1, <2>2, <2>3 DEF Kept, conn
<1>9. Reading'
  <2>1. /\ queue'.items = <<>> /\ ~queue'.waiting /\ ~queue'.finished /\ ~consumed'
        /\ UNCHANGED <<got, eof>>
    BY <1>1, <1>2, <1>3 DEF Good, Kept, Reading, Running, shared, seen
  <2>2. got[r] = <<>> /\ r \notin eof /\ ~(r < r)
    <3>1. r > Now /\ ~(r < r)
      BY <1>2
    <3> QED
      BY <1>0, <1>2, <3>1 DEF Good, Reading
  <2>3. Unread(r)'
    <3>1. Parts(r)' = 0
      BY <1>2, <1>4 DEF Parts
    <3>2. Len(got'[r]) = 0 /\ Len(queue'.items) = 0
      BY <2>1, <2>2
    <3>3. Parts(r)' - Len(got'[r]) = 0
      BY <3>1, <3>2
    <3> QED
      BY <3>2, <3>3, NothingUnread
  <2>4. \A q \in Req : q > r => q > Now
    BY <1>2 DEF Req
  <2>5. at'.req = at.req /\ at'.part = 1
    BY <1>0, <1>4
  <2> QED
    BY <1>4, <1>5, <1>6, <2>1, <2>2, <2>3, <2>4, <2>5 DEF Good, Reading
<1>10. Answers'
  <2>1. Now' \in Nat /\ Now <= Now' /\ out' = out /\ closed' = closed /\ stream' = stream
    BY <1>1, <1>2, <1>4 DEF conn, seen
  <2>2. /\ ~Answered(r)
        /\ Cardinality(Complete) < Now'
    <3>1. ~(r <= Now) /\ Now < r
      BY <1>2
    <3> DEFINE n == Cardinality(Complete)
    <3>2. n \in Nat /\ n <= Now
      BY GoodProperties
    <3> HIDE DEF n
    <3>3. n < r
      BY <1>2, <3>2
    <3> QED
      BY <1>2, <1>4, <3>1, <3>3, GoodProperties DEF n
  <2>3. LastHead => closed'
    BY <1>3, <2>1, GoodProperties DEF Running
  <2> QED
    BY <1>6, <2>1, <2>2, <2>3, AnswersStay DEF Good
<1> QED
  BY <1>7, <1>8, <1>9, <1>10 DEF Served

LEMMA ServedParses ==
    ASSUME Good, setting' = setting, OnBody \/ OnMessageComplete
    PROVE  Served'
<1>0. PICK r : r = at.req
  OBVIOUS
<1>1. /\ r <= call.upto /\ at.part # 0 /\ Parsed /\ task' = Woke
      /\ UNCHANGED <<writable, permission, closed, stopped, slots, consumed, poisoned, armed, errors,
                     stream, closing, seen>>
      /\ status' = status \/ status' = "processing"
      /\ OnBody => ~Ends(at) /\ queue' = Put(queue, <<r, at.part>>)
      /\ OnMessageComplete => Ends(at) /\ queue' = End(queue)
  <2>1. Ends(at) => at.part # 0
    BY <1>0, AfterProperties DEF OnBody, OnMessageComplete, Good, Typed, TypeOK, Places
  <2> QED
    BY <1>0, <2>1 DEF OnBody, OnMessageComplete
<1>2. /\ r \in Nat /\ r = Now /\ r <= Last /\ r \in Req /\ ~Idle /\ Handling(r)
      /\ call.upto \in Nat /\ r >= 1 /\ Body[r] \in Nat /\ at.part \in Nat
      /\ \A q \in Req : Handling(q) => q = r
  <2>1. r \in Req /\ r = Now /\ Handling(r) /\ Now <= Last
    BY <1>0, <1>1, GoodProperties
  <2>2. call.upto \in Nat /\ r \in Nat /\ r >= 1
    BY <2>1, RequestsAssumption DEF Good, Typed, TypeOK, Req
  <2>3. ~Idle
    BY <1>1, <2>2 DEF Idle
  <2>4. \A q \in Req : Handling(q) => q = r
    BY <2>1, GoodProperties DEF Running
  <2> QED
    BY <1>0, <2>1, <2>2, <2>3, <2>4, AfterProperties DEF Good
<1>3. /\ Body' = Body /\ (\A f : May(f)' = May(f)) /\ call'.upto = call.upto /\ ~Idle'
      /\ Now' = Now
  <2>1. call'.upto = call.upto
    BY <1>1 DEF Parsed, Good, Typed, TypeOK
  <2>2. Now' = Now
    BY <1>0, <1>1, <1>2, NowProperties DEF Parsed, Good
  <2> QED
    BY <1>2, <2>1, <2>2, SettingStays DEF Idle
<1>4. /\ \A q \in Req : task'[q] = IF task[q] = "blocked" /\ Wakes(queue) THEN "woken" ELSE task[q]
      /\ \A q \in Req : /\ Sending(q)' <=> Sending(q)
                        /\ Erring(q)' <=> Erring(q)
                        /\ Handling(q)' <=> Handling(q)
                        /\ Running(q)' <=> Running(q)
  <2>1. \A q \in Req : task'[q] = IF task[q] = "blocked" /\ Wakes(queue) THEN "woken" ELSE task[q]
    BY <1>1, WokeProperties DEF Good
  <2>2. \A q \in Req : Handling(q)' <=> Handling(q)
    BY <2>1 DEF Handling
  <2> QED
    BY <1>1, <2>1, <2>2 DEF Running, Sending, Erring
<1>5. /\ OnBody => at' = [req |-> r, part |-> at.part + 1]
      /\ OnMessageComplete => at' = [req |-> r + 1, part |-> 0]
  BY <1>0, <1>1, AfterProperties DEF Parsed, Good
<1>6. Lone'
  <2>1. (at.part # 0 => Handling(at.req))'
    <3>1. at'.part # 0 => at'.req = r
      BY <1>5
    <3>2. Handling(r)'
      BY <1>2, <1>4
    <3> QED
      BY <3>1, <3>2 DEF Handling
  <2>2. call.upto <= r
    BY <1>0, <1>2 DEF Good, Lone
  <2>3. /\ call'.upto <= at'.req
        /\ ~(at'.part = 0 /\ at'.req <= call'.upto)
    BY <1>2, <1>3, <1>5, <2>2
  <2>4. \A q \in Req : /\ stream'[q] \notin {"wait_flush", "flushed"}
                       /\ stream'[q] = "wait_tail" => permission' \/ ~writable'
    BY <1>1 DEF Good, Lone
  <2> QED
    BY <1>1, <1>3, <1>4, <2>1, <2>3, <2>4 DEF Good, Lone
<1>7. Kept'
  <2>1. ~closed' /\ status' # "pending"
    BY <1>1, <1>2 DEF Good, Kept
  <2>2. Running(r)'
    BY <1>2, <1>4 DEF Running
  <2> QED
    BY <1>1, <1>2, <1>3, <1>4, <2>1, <2>2 DEF Good, Kept, slots
<1>8. Answers'
  <2>1. Now' \in Nat /\ Now <= Now' /\ out' = out /\ closed' = closed /\ stream' = stream
    BY <1>1, <1>3, NowProperties DEF seen, Good
  <2>2. LastHead => closed' \/ stream'[out[Len(out)].req] \in {"wait_head", "body", "wait_chunk"}
    BY <2>1, GoodProperties
  <2>3. \A q \in Req : /\ Running(q)' /\ Answered(q) => stream'[q] = "wait_tail"
                       /\ Running(q)' /\ stream'[q] # "wait_tail" => Cardinality(Complete) < Now'
    BY <1>3, <1>4, <2>1 DEF Good, Answers, Answered
  <2> QED
    BY <2>1, <2>2, <2>3, AnswersStay DEF Good
<1>9. Reading'
  <2> DEFINE s == queue.items
             t == queue'.items
             l == Len(got[r])
             n == (at.part - 1) - l
  <2>0. s \in Items /\ Len(s) \in Nat /\ queue \in QueueOf(Chunks)
    BY QueueFields DEF Good, Typed, TypeOK, Chunks
  <2>1. /\ n >= 0 /\ n \in Int /\ Len(s) = n /\ l \in Nat /\ ~queue.finished
        /\ \A j \in 1 .. n : s[j] = <<r, l + j>>
        /\ queue.waiting <=> task[r] # "endpoint"
        /\ task[r] = "blocked" => s = <<>>
        /\ task[r] = "woken" => s # <<>>
        /\ r \notin eof /\ ~consumed
        /\ Body[r] = 0 => s = <<>> /\ task[r] = "endpoint"
    <3>1. Unread(r) /\ ~queue.finished /\ (consumed <=> r \in eof)
      BY <1>1, <1>2 DEF Good, Reading
    <3>2. Parts(r) = at.part - 1
      BY <1>0, <1>1 DEF Parts
    <3>3. l \in Nat
      <4>1. got[r] \in Seq(Chunks)
        BY <1>2 DEF Good, Typed, TypeOK, Chunks
      <4> QED
        BY <4>1
    <3>4. /\ n >= 0 /\ Len(s) \in {n, n + 1} /\ ~(Len(s) = n + 1)
          /\ \A j \in 1 .. n : s[j] = <<r, l + j>>
      BY <3>1, <3>2 DEF Unread
    <3>5. n \in Int
      BY <1>2, <3>3
    <3>6. r \notin eof
      <4>1. ~(r < at.req)
        BY <1>0, <1>2
      <4> QED
        BY <4>1 DEF Good, Reading
    <3> QED
      BY <1>2, <3>1, <3>3, <3>4, <3>5, <3>6 DEF Good, Reading
  <2>2. UNCHANGED <<got, eof, consumed>> /\ at'.req >= at.req
    BY <1>0, <1>1, <1>2, <1>5 DEF seen
  <2>3. /\ \A q \in Req : \A i \in DOMAIN got'[q] : got'[q][i] = <<q, i>>
        /\ \A q \in eof' : q < at'.req /\ Len(got'[q]) = Body[q]
        /\ \A q \in Req : q > Now' => got'[q] = <<>>
    <3>1. \A q \in eof : q < at'.req
      <4>1. \A q \in eof : q < at.req /\ q \in Nat
        BY DEF Good, Reading, Typed, TypeOK, Req
      <4> QED
        BY <1>0, <1>2, <2>2, <4>1, <1>5
    <3> QED
      BY <1>3, <2>2, <3>1 DEF Good, Reading
  <2>4. Handling(r)' /\ \A q \in Req : Handling(q)' => q = r
    BY <1>2, <1>4
  <2>5. ASSUME Unread(r)', queue'.finished <=> at'.part = 0,
               queue'.waiting = queue.waiting,
               task[r] = "blocked" => queue'.items # <<>>,
               s # <<>> => queue'.items # <<>>,
               Body[r] = 0 => queue'.items = <<>>
        PROVE  Reading'
    <3>1. /\ queue'.waiting <=> task'[r] # "endpoint"
          /\ task'[r] # "blocked"
          /\ task'[r] = "woken" => queue'.items # <<>>
          /\ Body[r] = 0 => task'[r] = "endpoint"
      BY <1>2, <1>4, <2>1, <2>5 DEF Wakes
    <3>2. r \notin eof' /\ ~consumed'
      BY <2>1, <2>2
    <3> QED
      BY <1>2, <1>3, <2>3, <2>4, <2>5, <3>1, <3>2 DEF Reading
  <2>6. CASE OnBody
    <3>1. <<r, at.part>> \in Chunks /\ at.part + 1 # 0 /\ at.part # Body[r] + 1
      BY <1>0, <1>1, <1>2, <2>6, AfterProperties DEF Chunks, Good
    <3>2. t = Append(s, <<r, at.part>>) /\ queue'.waiting = queue.waiting /\ ~queue'.finished
      BY ZenonT(60), <1>1, <2>0, <2>1, <2>6, <3>1, PutProperties
    <3>3. /\ Len(t) = n + 1 /\ t[n + 1] = <<r, at.part>> /\ \A j \in 1 .. n : t[j] = s[j]
          /\ t # <<>>
      <4> DEFINE x == <<r, at.part>>
                 S == Chunks \cup {EndMark}
      <4>1. s \in Seq(S) /\ x \in S
        BY <2>0, <3>1 DEF Items
      <4> HIDE DEF x, S
      <4>2. /\ Append(s, x) # <<>> /\ Len(Append(s, x)) = Len(s) + 1
            /\ \A i \in 1 .. Len(s) : Append(s, x)[i] = s[i]
            /\ Append(s, x)[Len(s) + 1] = x
        BY <4>1, AppendProperties
      <4> QED
        BY <2>1, <3>2, <4>2 DEF x
    <3>4. Unread(r)'
      <4>1. Parts(r)' = at.part
        <5>1. at'.part = at.part + 1 /\ at'.req = r /\ at'.part # 0
          BY <1>2, <1>5, <2>6
        <5>2. Parts(r)' = at'.part - 1
          BY <5>1 DEF Parts
        <5> QED
          BY <1>2, <5>1, <5>2
      <4>2. Parts(r)' - Len(got'[r]) = n + 1 /\ Len(got'[r]) = l
        <5>1. Len(got'[r]) = l
          BY <2>2
        <5>2. at.part - l = ((at.part - 1) - l) + 1
          BY <1>2, <2>1
        <5> QED
          BY <4>1, <5>1, <5>2
      <4> DEFINE m == n + 1
      <4>3. m >= 0 /\ Len(t) \in {m, m + 1} /\ ~(Len(t) = m + 1)
        BY <2>1, <3>3
      <4>4. \A j \in 1 .. m : t[j] = <<r, l + j>>
        <5>1. \A j \in 1 .. m : j \in 1 .. n \/ j = n + 1
          BY <2>1
        <5>2. l + (n + 1) = at.part
          <6> DEFINE a == at.part
          <6>1. a \in Nat /\ l \in Nat /\ n = (a - 1) - l
            BY <1>2, <2>1
          <6> HIDE DEF a, l, n
          <6>2. l + (n + 1) = a
            BY <6>1
          <6> QED
            BY <6>2 DEF a
        <5>3. t[n + 1] = <<r, l + (n + 1)>>
          BY <3>3, <5>2
        <5> QED
          BY <2>1, <3>3, <5>1, <5>3
      <4> HIDE DEF n, m, l
      <4>5. /\ m >= 0 /\ Len(queue'.items) \in {m, m + 1} /\ ~(Len(queue'.items) = m + 1)
            /\ \A j \in 1 .. m : queue'.items[j] = <<r, Len(got'[r]) + j>>
        BY <4>2, <4>3, <4>4
      <4>6. Parts(r)' - Len(got'[r]) = m
        BY <4>2 DEF m
      <4> HIDE DEF t, s
      <4> QED
        BY <4>5, <4>6 DEF Unread
    <3>5. at'.part # 0
      BY <1>5, <2>6, <3>1
    <3>6. Body[r] # 0
      <4>1. at.part <= Body[r] + 1
        BY <1>0, <1>1 DEF Good, Typed, Places
      <4> QED
        BY <1>1, <1>2, <3>1, <4>1
    <3> QED
      BY <2>5, <3>2, <3>3, <3>4, <3>5, <3>6
  <2>7. CASE OnMessageComplete
    <3>1. /\ queue'.waiting = queue.waiting /\ queue'.finished
          /\ t = IF queue.waiting THEN Append(s, EndMark) ELSE s
      BY <1>1, <2>0, <2>7, EndProperties
    <3>2. at.part = Body[r] + 1 /\ at'.part = 0 /\ at'.req = r + 1
      BY <1>0, <1>1, <1>5, <2>7, AfterProperties DEF Good
    <3>3. /\ queue.waiting => /\ Len(t) = n + 1 /\ t[n + 1] = EndMark /\ t # <<>>
                              /\ \A j \in 1 .. n : t[j] = s[j]
          /\ ~queue.waiting => t = s
      <4> DEFINE x == EndMark
                 S == Chunks \cup {EndMark}
      <4>1. s \in Seq(S) /\ x \in S
        BY <2>0 DEF Items
      <4> HIDE DEF x, S
      <4>2. /\ Append(s, x) # <<>> /\ Len(Append(s, x)) = Len(s) + 1
            /\ \A i \in 1 .. Len(s) : Append(s, x)[i] = s[i]
            /\ Append(s, x)[Len(s) + 1] = x
        BY <4>1, AppendProperties
      <4> QED
        BY <2>1, <3>1, <4>2 DEF x
    <3>4. Unread(r)'
      <4>1. Parts(r)' = Body[r]
        BY <1>2, <1>3, <3>2 DEF Parts
      <4>2. Parts(r)' - Len(got'[r]) = n /\ Len(got'[r]) = l
        BY <1>2, <2>1, <2>2, <3>2, <4>1
      <4>3. Len(t) \in {n, n + 1} /\ (Len(t) = n + 1 => t[n + 1] = EndMark)
        BY <2>1, <3>3
      <4>4. \A j \in 1 .. n : t[j] = <<r, l + j>>
        BY SMTT(30), <2>1, <3>3
      <4>5. n >= 0
        BY <2>1
      <4> HIDE DEF n, l
      <4>6. /\ n >= 0 /\ Len(queue'.items) \in {n, n + 1}
            /\ Len(queue'.items) = n + 1 => queue'.items[n + 1] = EndMark /\ queue'.finished
            /\ \A j \in 1 .. n : queue'.items[j] = <<r, Len(got'[r]) + j>>
        BY <3>1, <4>2, <4>3, <4>4, <4>5
      <4> HIDE DEF t, s
      <4> QED
        BY <4>2, <4>6 DEF Unread
    <3>5. /\ task[r] = "blocked" => t # <<>>
          /\ s # <<>> => t # <<>>
          /\ Body[r] = 0 => t = <<>>
      BY <1>2, <2>1, <3>3 DEF Handling
    <3> QED
      BY <2>5, <3>1, <3>2, <3>4, <3>5
  <2> QED
    BY <2>6, <2>7
<1> QED
  BY <1>6, <1>7, <1>8, <1>9 DEF Served

LEMMA ServedStep ==
    ASSUME Good, [Next]_vars, ~poisoned'
    PROVE  Served'
<1>1. setting' = setting /\ ~poisoned
  BY StepCases, CalmProperties DEF Good
<1>2. CASE DataReceived
  BY <1>1, <1>2, ServedReceive
<1>3. CASE OnHeadersComplete
  BY <1>1, <1>3, ServedBegins
<1>4. CASE OnBody \/ OnMessageComplete
  BY <1>1, <1>4, ServedParses
<1>5. CASE UNCHANGED vars
  BY <1>5, ServedStutter
<1>6. CASE \/ FeedDone \/ ResumeWriting \/ ConnectionLost \/ Stop \/ ScheduledClose
           \/ ErrorHandlerRaises
           \/ \E r \in Req : HooksDone(r)
  BY <1>1, <1>6, SilentSteps, ServedSilent
<1>7. CASE \/ \E r \in Req : \/ Answer(r) \/ StreamDone(r)
                             \/ StreamTail(r) /\ stream'[r] = "done"
           \/ \E e \in errors : HandleException(e)
  BY <1>1, <1>7, OverSteps, ServedOver DEF Served
<1>8. ASSUME NEW r \in Req, AnswerStream(r) \/ Fail(r) \/ CancelRequest(r)
      PROVE  Served'
  BY <1>1, <1>8, HandsOverSteps, ServedHandsOver
<1>9. ASSUME NEW r \in Req,
             \/ StreamHead(r) \/ StreamChunk(r) \/ StreamWake(r)
             \/ StreamTail(r) /\ stream'[r] # "done"
      PROVE  Served'
  BY <1>1, <1>9, GoesOnSteps, ServedGoesOn DEF Served
<1>10. ASSUME NEW r \in Req, CancelStreamingTask(r) \/ ChunkTimeout(r)
       PROVE  Served'
  BY <1>1, <1>10, ServedAborts
<1>11. ASSUME NEW r \in Req, ReadBody(r) \/ ReadResumes(r)
       PROVE  Served'
  BY <1>1, <1>11, ReadSteps
<1>12. ~DataRefused /\ ~BodyLimit
  BY <1>1 DEF DataRefused, BodyLimit
<1> QED
  BY <1>2, <1>3, <1>4, <1>5, <1>6, <1>7, <1>8, <1>9, <1>10, <1>11, <1>12, StepCases

-----------------------------------------------------------------------------
(* After an error of the parser, and on the way to it. *)

(* The parser never leaves its error, and finds it in a body over the limit. *)
LEMMA Poisoning ==
    ASSUME Typed, [Next]_vars
    PROVE  /\ poisoned => poisoned'
           /\ ~poisoned /\ poisoned' => BodyLimit
<1>1. ASSUME NEW r \in Req,
             \/ ReadBody(r) \/ ReadResumes(r) \/ Answer(r) \/ AnswerStream(r)
             \/ Fail(r) \/ HooksDone(r) \/ CancelRequest(r)
             \/ CancelStreamingTask(r) \/ StreamHead(r) \/ StreamChunk(r)
             \/ StreamTail(r) \/ StreamWake(r) \/ StreamDone(r)
             \/ ChunkTimeout(r)
      PROVE  poisoned' = poisoned
  BY <1>1 DEF ReadBody, ReadResumes, Answer, AnswerStream, Fail, HooksDone, CancelRequest,
     CancelStreamingTask, StreamHead, StreamChunk, StreamTail, StreamWake, StreamDone,
     ChunkTimeout, parser
<1>2. ASSUME NEW e \in errors, HandleException(e)
      PROVE  poisoned' = poisoned
  BY <1>2 DEF HandleException, parser
<1>3. CASE \/ DataReceived \/ DataRefused \/ FeedDone \/ OnHeadersComplete \/ OnBody
           \/ OnMessageComplete \/ ResumeWriting \/ ConnectionLost \/ Stop \/ ScheduledClose
           \/ ErrorHandlerRaises
           \/ UNCHANGED vars
  BY <1>3 DEF DataReceived, DataRefused, FeedDone, OnHeadersComplete, OnBody, OnMessageComplete,
     ResumeWriting, ConnectionLost, Stop, ScheduledClose, ErrorHandlerRaises, vars, state, parser
<1>4. CASE BodyLimit
  BY <1>4 DEF BodyLimit
<1> QED
  BY <1>1, <1>2, <1>3, <1>4, StepCases

(* From then on the queue is only emptied, and no request is begun. *)
LEMMA PoisonedQueue ==
    ASSUME Typed, Begun, poisoned, Refused, [Next]_vars
    PROVE  /\ ~queue'.finished /\ eof' = eof
           /\ \/ queue'.items \in {queue.items, <<>>}
              \/ HasItem(queue) /\ queue'.items = Tail(queue.items)
           /\ \A q \in Req : Handling(q)' => Handling(q)
<1>1. /\ Idle /\ ~queue.finished /\ queue \in QueueOf(Chunks)
      /\ \A i \in DOMAIN queue.items : queue.items[i] # EndMark
  BY DEF Typed, TypeOK, Places, Refused, Chunks
<1>2. ~AtEnd(queue)
  <2>1. HasItem(queue) => Head(queue.items) = queue.items[1] /\ 1 \in DOMAIN queue.items
    <3>1. ASSUME NEW S, NEW s \in Seq(S), s # <<>>
          PROVE  Head(s) = s[1] /\ 1 \in DOMAIN s
      BY <3>1
    <3>2. queue.items \in Seq(Chunks \cup {EndMark})
      BY <1>1, QueueFields DEF Items
    <3> QED
      BY <3>1, <3>2 DEF HasItem
  <2> QED
    BY <1>1, <2>1 DEF AtEnd
<1>3. CASE \/ DataRefused \/ ResumeWriting \/ ConnectionLost \/ Stop \/ ScheduledClose
           \/ ErrorHandlerRaises
           \/ UNCHANGED vars
  <2>1. UNCHANGED <<queue, eof, task>>
    BY <1>3 DEF DataRefused, ResumeWriting, ConnectionLost, Stop, ScheduledClose,
        ErrorHandlerRaises, vars, state,
       shared, loop, seen
  <2> QED
    BY <1>1, <2>1 DEF Handling
<1>4. ~(DataReceived \/ FeedDone \/ OnHeadersComplete \/ OnBody \/ BodyLimit \/ OnMessageComplete)
  <2>1. ~(at.req <= call.upto)
    BY <1>1, AfterProperties, RequestsAssumption DEF Idle, Typed, TypeOK
  <2> QED
    BY <1>1, <2>1 DEF DataReceived, FeedDone, OnHeadersComplete, OnBody, BodyLimit, OnMessageComplete
<1>5. ASSUME NEW r \in Req, ReadBody(r) \/ ReadResumes(r)
      PROVE  /\ ~queue'.finished /\ eof' = eof
             /\ \/ queue'.items \in {queue.items, <<>>}
                \/ HasItem(queue) /\ queue'.items = Tail(queue.items)
  <2>1. eof' = eof
    BY <1>2, <1>5 DEF ReadBody, ReadResumes, Take
  <2>2. /\ Woken(queue) \in QueueOf(Chunks) /\ Woken(queue).items = queue.items
        /\ Woken(queue).finished = queue.finished
        /\ Wait(queue).items = queue.items /\ Wait(queue).finished = queue.finished
    BY <1>1, WaitProperties
  <2>3. HasItem(queue) => /\ Pop(queue).items = Tail(queue.items)
                          /\ Pop(queue).finished = queue.finished
                          /\ Pop(Woken(queue)).items = Tail(queue.items)
                          /\ Pop(Woken(queue)).finished = queue.finished
    <3>1. HasItem(queue) => HasItem(Woken(queue))
      BY <2>2 DEF HasItem
    <3> QED
      BY <1>1, <2>2, <3>1, PopProperties
  <2>4. \/ HasItem(queue) /\ queue' \in {Pop(queue), Pop(Woken(queue))}
        \/ queue' \in {queue, Wait(queue), Woken(queue)}
    BY <1>5 DEF ReadBody, ReadResumes
  <2> QED
    BY <1>1, <2>1, <2>2, <2>3, <2>4
<1>6. ASSUME \/ NotYet
             \/ Rested
      PROVE  ~queue'.finished /\ queue'.items \in {queue.items, <<>>}
  BY <1>1, <1>6 DEF NotYet, Rested
<1>7. ASSUME NEW r \in Req,
             \/ Answer(r) \/ AnswerStream(r) \/ Fail(r) \/ HooksDone(r) \/ CancelRequest(r)
             \/ CancelStreamingTask(r) \/ StreamHead(r) \/ StreamChunk(r)
             \/ StreamTail(r) \/ StreamWake(r) \/ StreamDone(r) \/ ChunkTimeout(r)
      PROVE  eof' = eof /\ (queue' = queue \/ NotYet \/ Rested)
  <2>1. CASE Answer(r) \/ StreamTail(r) \/ StreamDone(r)
    <3>1. NotYet \/ AfterResponse
      BY <2>1 DEF Answer, Send, StreamTail, StreamDone
    <3> QED
      BY <2>1, <3>1, AfterResponseProperties DEF Answer, StreamTail, StreamDone
  <2>2. CASE \/ AnswerStream(r) \/ Fail(r) \/ HooksDone(r) \/ CancelRequest(r)
             \/ CancelStreamingTask(r) \/ StreamHead(r) \/ StreamChunk(r) \/ StreamWake(r)
             \/ ChunkTimeout(r)
    BY <2>2 DEF AnswerStream, Fail, HooksDone, CancelRequest, CancelStreamingTask, StreamHead,
       StreamChunk, StreamWake, ChunkTimeout, shared, seen
  <2> QED
    BY <1>7, <2>1, <2>2
<1>8. ASSUME NEW e \in errors, HandleException(e)
      PROVE  eof' = eof /\ (queue' = queue \/ NotYet \/ Rested)
  BY <1>8, AfterResponseProperties DEF HandleException, Send
<1>9. ASSUME Outside
      PROVE  \A q \in Req : Handling(q)' => Handling(q)
  BY <1>9 DEF Outside
<1> QED
  BY <1>1, <1>3, <1>4, <1>5, <1>6, <1>7, <1>8, <1>9, StepCases, OutsideQuiet, OutsideAnswer

LEMMA RefusedStep ==
    ASSUME Typed, Begun, Orderly, Calm => Good, Refused, [Next]_vars
    PROVE  Refused'
<1>0. Body' = Body /\ Limit' = Limit /\ Oversized' = Oversized
  BY StepCases, SettingStays
<1>1. CASE poisoned
  <2>1. /\ ~queue'.finished /\ eof' = eof
        /\ \/ queue'.items \in {queue.items, <<>>}
           \/ HasItem(queue) /\ queue'.items = Tail(queue.items)
        /\ \A q \in Req : Handling(q)' => Handling(q)
    BY <1>1, PoisonedQueue
  <2>2. \A i \in DOMAIN queue'.items : queue'.items[i] # EndMark
    <3>1. ASSUME NEW S, NEW s \in Seq(S), s # <<>>, \A i \in DOMAIN s : s[i] # EndMark
          PROVE  \A i \in DOMAIN Tail(s) : Tail(s)[i] # EndMark
      <4>1. Len(Tail(s)) = Len(s) - 1 /\ Tail(s) \in Seq(S) /\ Len(s) \in Nat
        BY <3>1, HeadTailProperties
      <4>2. \A i \in 1 .. Len(s) - 1 : Tail(s)[i] = s[i + 1] /\ i + 1 \in 1 .. Len(s)
        BY <3>1, <4>1, HeadTailProperties
      <4>3. DOMAIN s = 1 .. Len(s) /\ DOMAIN Tail(s) = 1 .. Len(Tail(s))
        BY <4>1
      <4> QED
        BY <3>1, <4>1, <4>2, <4>3
    <3>2. queue.items \in Seq(Chunks \cup {EndMark})
      BY QueueFields DEF Items, Typed, TypeOK, Chunks
    <3>3. \A i \in DOMAIN queue.items : queue.items[i] # EndMark
      BY <1>1 DEF Refused
    <3>4. CASE queue'.items = queue.items
      BY <3>3, <3>4
    <3>5. CASE queue'.items = <<>>
      <4>1. DOMAIN <<>> = {}
        OBVIOUS
      <4> QED
        BY <3>5, <4>1
    <3>6. CASE HasItem(queue) /\ queue'.items = Tail(queue.items)
      <4>1. \A i \in DOMAIN Tail(queue.items) : Tail(queue.items)[i] # EndMark
        BY <3>1, <3>2, <3>3, <3>6 DEF HasItem
      <4> QED
        BY <3>6, <4>1
    <3> QED
      BY <2>1, <3>4, <3>5, <3>6
  <2>3. poisoned' /\ \A r \in Req : Handling(r) => Body[r] > 0 /\ r \notin eof
    BY <1>1, Poisoning DEF Refused
  <2> QED
    BY <1>0, <2>1, <2>2, <2>3 DEF Refused
<1>2. CASE ~poisoned /\ poisoned'
  <2>1. BodyLimit /\ Good
    BY <1>2, Poisoning DEF Calm
  <2>2. /\ at.part # 0 /\ at.req \in Oversized /\ UNCHANGED <<queue, task, eof>>
    <3>1. at.req <= Last
      BY <2>1, AfterProperties, RequestsAssumption DEF BodyLimit, Typed, TypeOK, Places
    <3> QED
      BY <2>1, <3>1, LimitProperties DEF BodyLimit, shared, seen
  <2>3. /\ at.req \in Req /\ Handling(at.req) /\ Body[at.req] > 0
        /\ \A q \in Req : Handling(q) => q = at.req
    <3>1. at.req \in Req /\ Handling(at.req) /\ at.req = Now
      BY <2>1, <2>2, GoodProperties, AfterProperties
    <3>2. Body[at.req] \in Nat /\ Limit[at.req] \in Nat /\ Limit[at.req] < Body[at.req]
      BY <2>2, SettingProperties DEF Typed, TypeOK
    <3>3. Body[at.req] > 0
      BY <3>2
    <3> QED
      BY <2>1, <2>2, <3>1, <3>3, GoodProperties DEF Running
  <2>4. /\ at.req \notin eof /\ ~queue.finished
        /\ \A i \in DOMAIN queue.items : queue.items[i] # EndMark
    <3> DEFINE k == Len(got[at.req])
               n == Parts(at.req) - k
    <3>0. at.req \notin eof /\ ~queue.finished /\ Unread(at.req)
      <4>1. \A r \in eof : r < at.req
        BY <2>1 DEF Good, Reading
      <4>2. ~(at.req < at.req)
        BY <2>3, AfterProperties
      <4>3. (queue.finished <=> at.part = 0) /\ Unread(at.req)
        BY <2>1, <2>3 DEF Good, Reading
      <4> QED
        BY <2>2, <4>1, <4>2, <4>3
    <3>1. /\ n >= 0 /\ Len(queue.items) \in {n, n + 1} /\ ~(Len(queue.items) = n + 1)
          /\ \A j \in 1 .. n : queue.items[j] = <<at.req, k + j>>
      BY <3>0 DEF Unread
    <3>2. Len(queue.items) = n
      BY <3>1
    <3>3. queue.items \in Seq(Chunks \cup {EndMark}) /\ k \in Nat /\ at.req \in Nat
      <4>1. got[at.req] \in Seq(Req \X Nat) /\ at.req \in Nat
        BY <2>3, AfterProperties DEF Typed, TypeOK
      <4>2. queue.items \in Seq(Chunks \cup {EndMark})
        BY QueueFields DEF Items, Typed, TypeOK, Chunks
      <4> QED
        BY <4>1, <4>2
    <3>4. DOMAIN queue.items = 1 .. n
      BY <3>2, <3>3
    <3>5. \A j \in 1 .. n : <<at.req, k + j>> \in Nat \X Nat
      BY <3>3
    <3> HIDE DEF n, k
    <3> QED
      BY <3>0, <3>1, <3>4, <3>5, EndMarkAssumption
  <2>5. \A q \in Req : Handling(q)' => q = at.req
    BY <2>2, <2>3 DEF Handling
  <2> QED
    BY <1>0, <1>2, <2>2, <2>3, <2>4, <2>5 DEF Refused
<1>3. CASE ~poisoned'
  <2>1. ~poisoned /\ Good
    BY <1>3, Poisoning DEF Calm
  <2>2. \A r \in Oversized :
           /\ r >= at.req /\ (r = at.req => at.part <= Limit[r] + 1) /\ r \in Nat
           /\ Limit[r] \in Nat /\ Body[r] \in Nat /\ Limit[r] < Body[r]
    <3>1. \A r \in Oversized : r >= at.req /\ (r = at.req => at.part <= Limit[r] + 1)
      BY <2>1 DEF Refused
    <3>2. \A r \in Oversized : r \in 1 .. Last /\ r \in Req /\ Limit[r] < Body[r]
      BY SettingProperties DEF Typed, TypeOK
    <3>3. \A r \in 1 .. Last : r \in Nat /\ Limit[r] \in Nat /\ Body[r] \in Nat
      BY SettingProperties DEF Typed, TypeOK
    <3> QED
      BY <3>1, <3>2, <3>3
  <2>3. CASE at' = at
    BY <1>0, <1>3, <2>2, <2>3 DEF Refused
  <2>4. CASE OnHeadersComplete \/ OnBody \/ OnMessageComplete
    <3>1. at' = After(at) /\ at.part \in Nat /\ at.req \in Nat /\ at.req <= Last
      <4>1. at.req <= call.upto /\ call.upto <= Last /\ call.upto \in Nat /\ Last \in Nat
        BY <2>4, AfterProperties, RequestsAssumption
           DEF OnHeadersComplete, OnBody, OnMessageComplete, Typed, TypeOK, Places
      <4> QED
        BY <2>4, <4>1, AfterProperties DEF OnHeadersComplete, OnBody, OnMessageComplete, Parsed
    <3>2. Body[at.req] \in Nat /\ (Ends(at) <=> at.part = Body[at.req] + 1)
      BY <3>1, AfterProperties
    <3>3. CASE Ends(at)
      <4>1. at' = [req |-> at.req + 1, part |-> 0]
        BY <3>1, <3>3, AfterProperties
      <4>2. at.req \notin Oversized
        <5>1. at.req \in Oversized => at.part <= Limit[at.req] + 1
          BY <2>2
        <5> QED
          BY <2>2, <3>1, <3>2, <3>3, <5>1
      <4>3. \A r \in Oversized : r >= at.req + 1 /\ 0 <= Limit[r] + 1
        BY <2>2, <3>1, <4>2
      <4> QED
        BY <1>0, <1>3, <4>1, <4>3 DEF Refused
    <3>4. CASE ~Ends(at)
      <4>1. at' = [req |-> at.req, part |-> at.part + 1]
        BY <3>1, <3>4, AfterProperties
      <4>2. at.req \in Oversized => at.part + 1 <= Limit[at.req] + 1
        <5>1. CASE at.part = 0
          BY <2>2, <5>1
        <5>2. CASE at.part # 0
          <6>1. WithinLimit(at)
            BY <2>4, <3>4, <5>2 DEF OnHeadersComplete, OnBody, OnMessageComplete
          <6> QED
            BY <2>2, <3>1, <3>4, <5>2, <6>1, LimitProperties
        <5> QED
          BY <5>1, <5>2
      <4>3. \A r \in Oversized : r >= at.req /\ (r = at.req => at.part + 1 <= Limit[r] + 1)
        BY <2>2, <3>1, <4>2
      <4> QED
        BY <1>0, <1>3, <4>1, <4>3 DEF Refused
    <3> QED
      BY <3>3, <3>4
  <2>5. ~DataRefused /\ ~BodyLimit
    BY <1>3, <2>1 DEF DataRefused, BodyLimit
  <2>6. CASE DataReceived \/ FeedDone \/ UNCHANGED vars
    BY <2>3, <2>6 DEF DataReceived, FeedDone, vars, state, parser
  <2>7. CASE Outside
    BY <2>3, <2>7 DEF Outside
  <2> QED
    BY <2>4, <2>5, <2>6, <2>7, StepCases, OutsideQuiet, OutsideAnswer
<1> QED
  BY <1>1, <1>2, <1>3

(* A whole response is only written by a handler that has the whole body. *)
LEMMA NotServedStep ==
    ASSUME Typed, Begun, Calm => Good, Orderly => Refused, RejectedNotServed, [Next]_vars
    PROVE  RejectedNotServed'
<1>0. Orderly' = Orderly /\ Oversized' = Oversized
  BY StepCases, SettingStays
<1> SUFFICES ASSUME Orderly
             PROVE  (\A i \in Complete : out[i].kind = "full" => out[i].req \notin Oversized)'
  BY <1>0 DEF RejectedNotServed
<1>1. /\ Refused /\ \A i \in Complete : out[i].kind = "full" => out[i].req \notin Oversized
      /\ Complete \subseteq 1 .. Len(out)
  BY CompleteProperties DEF RejectedNotServed
<1>2. CASE out' = out
  BY <1>0, <1>1, <1>2 DEF Complete
<1>3. ASSUME NEW r \in Req, NEW kind \in {"full", "error", "head", "tail"}, Write(r, kind),
             kind = "full" => r \notin Oversized
      PROVE  (\A i \in Complete : out[i].kind = "full" => out[i].req \notin Oversized)'
  <2> DEFINE piece == [req |-> r, kind |-> kind]
  <2>1. CASE ~closed
    <3>1. /\ Complete' = IF kind = "head" THEN Complete ELSE Complete \cup {Len(out) + 1}
          /\ \A i \in 1 .. Len(out) : out'[i] = out[i]
          /\ out'[Len(out) + 1] = piece
      BY <1>3, <2>1, Written
    <3>2. piece.kind = kind /\ piece.req = r
      OBVIOUS
    <3>3. \A i \in Complete' : i \in Complete \/ i = Len(out) + 1
      BY <3>1
    <3> HIDE DEF piece
    <3> QED
      BY <1>0, <1>1, <1>3, <3>1, <3>2, <3>3
  <2>2. CASE closed
    BY <1>2, <1>3, <2>2, Written
  <2> QED
    BY <2>1, <2>2
<1>4. ASSUME NEW r \in Req, Answer(r)
      PROVE  Write(r, "full") /\ r \notin Oversized
  <2>1. Write(r, "full") /\ MayAnswer(r)
    BY <1>4 DEF Answer, Send
  <2>2. CASE poisoned
    <3>1. Handling(r) /\ (Body[r] = 0 \/ r \in eof)
      BY <2>1 DEF MayAnswer, Handling, Orderly, May
    <3>2. Body[r] > 0 /\ r \notin eof
      BY <1>1, <2>2, <3>1 DEF Refused
    <3>3. Body[r] # 0
      <4>1. Body[r] = 0 => ~(Body[r] > 0)
        OBVIOUS
      <4> QED
        BY <3>2, <4>1
    <3> QED
      BY <3>1, <3>2, <3>3
  <2>3. CASE ~poisoned
    <3>1. Good
      BY <2>3 DEF Calm
    <3>2. r = Now /\ at.part = 0 /\ at.req = Now + 1 /\ Now \in Nat
      BY <2>1, <3>1, MayAnswerProperties, NowProperties
    <3>3. ~(r >= at.req)
      BY <3>2
    <3> QED
      BY <1>1, <2>1, <2>3, <3>3 DEF Refused
  <2> QED
    BY <2>1, <2>2, <2>3
<1>5. CASE \/ DataReceived \/ DataRefused \/ FeedDone \/ OnHeadersComplete \/ OnBody \/ BodyLimit
           \/ OnMessageComplete \/ ResumeWriting \/ ConnectionLost \/ Stop \/ ScheduledClose
           \/ ErrorHandlerRaises
           \/ UNCHANGED vars
  <2>1. out' = out
    BY <1>5 DEF DataReceived, DataRefused, FeedDone, OnHeadersComplete, OnBody, BodyLimit,
       OnMessageComplete, ResumeWriting, ConnectionLost, Stop, ScheduledClose,
           ErrorHandlerRaises, vars, state, seen,
       Orderly
  <2> QED
    BY <1>2, <2>1
<1>6. ASSUME NEW r \in Req,
             \/ ReadBody(r) \/ ReadResumes(r) \/ AnswerStream(r) \/ Fail(r)
             \/ HooksDone(r) \/ CancelRequest(r) \/ CancelStreamingTask(r) \/ StreamHead(r)
             \/ StreamChunk(r) \/ StreamTail(r) \/ StreamWake(r) \/ StreamDone(r)
             \/ ChunkTimeout(r)
      PROVE  out' = out \/ Write(r, "head") \/ Write(r, "tail")
  BY <1>6 DEF ReadBody, ReadResumes, AnswerStream, Fail, HooksDone, CancelRequest,
     CancelStreamingTask, StreamHead, StreamChunk, StreamTail, StreamWake, StreamDone,
     ChunkTimeout, seen
<1>7. ASSUME NEW e \in errors, HandleException(e)
      PROVE  Write(e.req, "error") /\ e.req \in Req
  BY <1>7 DEF HandleException, Send, Typed, TypeOK
<1> QED
  BY <1>2, <1>3, <1>4, <1>5, <1>6, <1>7, StepCases

-----------------------------------------------------------------------------
LEMMA InitHolds == Init => IInv
<1> SUFFICES ASSUME Init
             PROVE  IInv
  OBVIOUS
<1>1. Typed /\ poisoned = FALSE
  BY InitTyped DEF Init
<1>2. /\ Idle /\ Now = 0 /\ current_task <= Now /\ out = <<>> /\ Complete = {}
      /\ \A r \in Req : /\ ~Handling(r) /\ ~Answering(r) /\ ~Running(r) /\ task[r] = "none"
                        /\ stream[r] = "none" /\ got[r] = <<>>
  BY DEF Init, Idle, Now, Handling, Answering, Sending, Erring, Running, Answered, Complete
<1>3. Begun /\ OneHandler
  BY <1>1, <1>2 DEF Begun, OneHandler
<1>4. Lone /\ Kept
  BY <1>2 DEF Init, Lone, Kept, NewQueue, Erring
<1>5. Reading
  BY <1>2 DEF Init, Reading, NewQueue
<1>6. Answers
  <2>1. Cardinality(Complete) = 0 /\ Len(out) = 0
    BY <1>2, FS_EmptySet
  <2> QED
    BY <1>2, <2>1 DEF Answers
<1>7. Refused
  BY <1>1, SettingProperties DEF Init, Refused, Typed, TypeOK, Req
<1>8. RejectedNotServed
  BY <1>2 DEF RejectedNotServed
<1> QED
  BY <1>1, <1>3, <1>4, <1>5, <1>6, <1>7, <1>8 DEF IInv, Typed

LEMMA StepHolds == IInv /\ [Next]_vars => IInv'
<1> SUFFICES ASSUME IInv, [Next]_vars
             PROVE  IInv'
  OBVIOUS
<1>1. Typed /\ Begun /\ OneHandler /\ RejectedNotServed
  BY DEF IInv, Typed
<1>2. (Calm => Good) /\ (Orderly => Refused)
  BY DEF IInv, Good, Typed
<1>3. (Typed /\ Begun /\ OneHandler)'
  BY <1>1, TypedStep, BegunStep, OneHandlerStep
<1>4. Calm' => Served'
  <2>1. Orderly' <=> Orderly
    BY StepCases, SettingStays
  <2>2. Calm' => Calm /\ ~poisoned'
    BY <1>1, <2>1, Poisoning DEF Calm
  <2> QED
    BY <1>2, <2>2, ServedStep
<1>5. Orderly' => Refused'
  <2>1. Orderly' <=> Orderly
    BY StepCases, SettingStays
  <2> QED
    BY <1>1, <1>2, <2>1, RefusedStep
<1>6. RejectedNotServed'
  BY <1>1, <1>2, NotServedStep
<1> QED
  BY <1>3, <1>4, <1>5, <1>6 DEF IInv, Typed, Served

(* Along a run of a connection the requests are begun in their order and   *)
(* answered when their handlers are through with them, and those that do   *)
(* not disturb each other are each given what is theirs.                   *)
THEOREM Invariance == Spec => []IInv
BY InitHolds, StepHolds, PTL DEF Spec

(* TypeOK: the state of the connection, its tasks and what it has written  *)
(* keep their types (protocol/cprotocol.pyx:28-70, parsers/parser.pyx).    *)
THEOREM TypeCorrect == Spec => []TypeOK
<1>1. IInv => TypeOK
  BY DEF IInv
<1> QED
  BY <1>1, Invariance, PTL

(* OneHandler: the handlers of two requests never run side by side on the  *)
(* stream and the components that they share, whatever is pipelined, times *)
(* out or fails, until a request is answered twice (cprotocol.pyx:188-195, *)
(* 358-366) and the client takes that for the next answer.                 *)
THEOREM OneAtATime == Spec => []OneHandler
<1>1. IInv => OneHandler
  BY DEF IInv
<1> QED
  BY <1>1, Invariance, PTL

(* RejectedNotServed: a request whose body is over max_body_size is not    *)
(* given the whole response of its handler: the parser fails before the    *)
(* end that the handler waits for (parsers/parser.pyx:220-224).            *)
THEOREM NoServiceBeyondLimit == Spec => []RejectedNotServed
<1>1. IInv => RejectedNotServed
  BY DEF IInv
<1> QED
  BY <1>1, Invariance, PTL

(* Without bodies over the limit the parser does not fail. *)
LEMMA TameProperties == IInv /\ Tame => Calm /\ Served
BY DEF IInv, Tame, Places, Calm, Served

(* WholeBody: each handler reads the chunks of its own request in order,   *)
(* and has them all when it is told of the end, although all requests of a *)
(* connection go through one queue that after_response clears              *)
(* (request/request.pyx:27-46, cprotocol.pyx:108, 256).                    *)
THEOREM BodiesAreWhole == Spec => []WholeBody
<1>1. IInv => WholeBody
  BY TameProperties DEF WholeBody, Served, Reading
<1> QED
  BY <1>1, Invariance, PTL

(* AnsweredOnce: the client is sent one whole response to each request, in *)
(* the order of its requests, and nothing within the head and the end of a *)
(* streaming one (responses/responses.pyx:236-253).                        *)
THEOREM OneAnswerEach == Spec => []AnsweredOnce
<1>1. IInv => AnsweredOnce
  <2> SUFFICES ASSUME IInv, Tame
               PROVE  /\ \A i, j \in Complete : i < j => out[i].req < out[j].req
                      /\ \A i \in 1 .. Len(out) - 1 :
                            out[i].kind = "head" =>
                                out[i + 1] = [req |-> out[i].req, kind |-> "tail"]
    BY DEF AnsweredOnce
  <2>1. Answers /\ Len(out) \in Nat
    BY TameProperties, CompleteProperties DEF Served, IInv, Typed
  <2>2. \A i \in 1 .. Len(out) - 1 : i \in 1 .. Len(out) /\ i # Len(out)
    BY <2>1
  <2> QED
    BY <2>1, <2>2 DEF Answers
<1> QED
  BY <1>1, Invariance, PTL

(* PausedForReason: the socket that on_body pauses (cprotocol.pyx:250-262) *)
(* is only paused while a handler, a stream or an error handler is left    *)
(* whose after_response resumes it.                                        *)
THEOREM NeverLeftPaused == Spec => []PausedForReason
<1>1. IInv => PausedForReason
  BY TameProperties DEF PausedForReason, Served, Kept
<1> QED
  BY <1>1, Invariance, PTL

(* OwnComponents: a handler finds its own request in the components of the *)
(* connection, which after_response resets for all (cprotocol.pyx:117).    *)
THEOREM ComponentsAreItsOwn == Spec => []OwnComponents
<1>1. IInv => OwnComponents
  BY TameProperties DEF OwnComponents, Served, Kept, Handling
<1> QED
  BY <1>1, Invariance, PTL

(* StopSpares: stop() closes a connection only when no handler, stream or  *)
(* error handler is left to be cut off (cprotocol.pyx:369-376).            *)
THEOREM StopIsGraceful == Spec => StopSpares
<1>1. IInv /\ [Next]_vars => [Tame /\ Stop /\ closed' => \A r \in Req : ~Running(r)]_vars
  <2> SUFFICES ASSUME IInv, Tame, Stop, closed'
               PROVE  \A r \in Req : ~Running(r)
    OBVIOUS
  <2>1. status = "pending"
    BY DEF Stop, IInv, TypeOK
  <2> QED
    BY <2>1, TameProperties DEF Served, Kept
<1> QED
  BY <1>1, Invariance, PTL DEF Spec, StopSpares
=============================================================================
