----------------------------- MODULE Connection -----------------------------
(***************************************************************************)
(* One HTTP connection of a worker: class Connection                       *)
(* (protocol/cprotocol.pyx) with the handler coroutine of each request,    *)
(* the body stream they share (request/request.pyx), the sending of        *)
(* responses (responses/responses.pyx) and the calls of the parser         *)
(* (parsers/parser.pyx), against a client that sends the requests 1..R.    *)
(*                                                                         *)
(* Everything runs on one event loop: a step is what runs between two      *)
(* awaits.  While data_received is in the parser ("call") nothing else     *)
(* runs.  What user code does (read the body, answer, raise, take its      *)
(* time) is chosen freely within Features.                                 *)
(***************************************************************************)
EXTENDS StreamQueue, FiniteSets

CONSTANTS
    R,               \* the number of requests of the client
    Settings         \* the settings to look at

FeatureNames ==
    {"keep_alive",      \* keep_alive_timeout > 0
     "pauses",          \* the write buffer passes its high-water mark
     "plain",           \* handlers may answer with a Response
     "chunked",         \* ... with a StreamingResponse in chunked coding
     "fixed",           \* ... with a StreamingResponse of a given length
     "complete",        \* ... whose complete_timeout is not zero
     "early",           \* ... before they have read the whole body
     "failures",        \* handlers may raise
     "error_failures",  \* error handlers may raise
     "hooks",           \* there are AFTER_RESPONSE_SENT hooks
     "hook_failures",   \* ... that may raise
     "route_timeouts",  \* route timeouts expire
     "stream_timeouts", \* complete and chunk timeouts expire
     "stops",           \* the worker is asked to stop
     "drops"}           \* the client may close the connection

Req == 1 .. R

(* A setting is an application and a client: the number of body chunks of  *)
(* each request, the max_body_size of its route in chunks (0: unlimited),  *)
(* the requests that a synchronous cache answers, those that ask for a     *)
(* protocol upgrade, and what may happen beside.                           *)
Setting == [body : Seq(Nat), limit : Seq(Nat), cached : SUBSET Req,
            upgrades : SUBSET Req, features : SUBSET FeatureNames]

ASSUME RequestsAssumption == R \in Nat \ {0}
ASSUME SettingsAssumption ==
    /\ Settings # {} /\ Settings \subseteq Setting
    /\ \A s \in Settings : Len(s.body) \in Req /\ Len(s.limit) = Len(s.body)
ASSUME EndMarkAssumption == EndMark \notin Nat \X Nat

NoTimer == <<"none", 0>>

VARIABLES
    setting,         \* the setting this connection lives in
    status, readable, writable, permission, closed, stopped,
    current_task,    \* the request whose handler is current_task, or 0
    timeout_task,    \* the timer handle kept, or NoTimer
    request,         \* the request in components.ephemeral_index, or 0
    queue, consumed, \* the Stream shared by the requests of the connection
    at,              \* the next thing to parse: [req, part]
    call,            \* the data_received in progress: [upto, empty]
    poisoned,        \* the parser has met an error
    armed,           \* the timers the loop holds
    task,            \* the handler coroutine of each request
    errors,          \* the handle_exception tasks
    stream,          \* the streaming task of each request
    closing,         \* a scheduled_close task runs
    out,             \* what was written to the transport
    got, eof         \* what each handler read, and which saw the end

conn == <<status, readable, writable, permission, closed, stopped>>
slots == <<current_task, timeout_task, request>>
shared == <<queue, consumed>>
parser == <<at, call, poisoned>>
loop == <<armed, task, errors, stream, closing>>
seen == <<out, got, eof>>
state == <<conn, slots, shared, parser, loop, seen>>
vars == <<setting, state>>

Body == setting.body
Last == Len(Body)
Cached == setting.cached
Upgrades == setting.upgrades
Limit == setting.limit
Oversized == {r \in 1 .. Last : 0 < Limit[r] /\ Limit[r] < Body[r]}
May(f) == f \in setting.features

-----------------------------------------------------------------------------
(* Request r is its head (part 0), its chunks (1 .. Body[r]) and the end   *)
(* of the message (Body[r] + 1).                                           *)
Ends(p) == p.part = Body[p.req] + 1

After(p) == IF Ends(p) THEN [req |-> p.req + 1, part |-> 0]
            ELSE [p EXCEPT !.part = @ + 1]

Complete == {i \in 1 .. Len(out) : out[i].kind # "head"}

(* The last request whose bytes the client can have sent: it waits for the *)
(* whole response to a request before it sends the next one.               *)
SentUpTo ==
    IF at.part # 0 /\ ~writable THEN at.req
    ELSE IF ~writable \/ Cardinality(Complete) + 1 < at.req THEN 0
    ELSE IF Cardinality(Complete) < Last THEN Cardinality(Complete) + 1 ELSE Last

Init ==
    /\ setting \in Settings
    /\ status = "pending" /\ readable = TRUE /\ writable = TRUE
    /\ permission = FALSE /\ closed = FALSE /\ stopped = FALSE
    /\ current_task = 0 /\ timeout_task = NoTimer /\ request = 0
    /\ queue = NewQueue /\ consumed = FALSE
    /\ at = [req |-> 1, part |-> 0]
    /\ call = [upto |-> 0, empty |-> TRUE]
    /\ poisoned = FALSE
    /\ armed = {} /\ errors = {} /\ closing = FALSE
    /\ task = [r \in Req |-> "none"]
    /\ stream = [r \in Req |-> "none"]
    /\ out = <<>> /\ eof = {}
    /\ got = [r \in Req |-> <<>>]

-----------------------------------------------------------------------------
(* Writing. *)

(* transport.write: a full buffer calls pause_writing before it returns. *)
Write(r, kind) ==
    /\ out' = IF closed THEN out ELSE Append(out, [req |-> r, kind |-> kind])
    /\ writable' \in {writable, writable /\ (closed \/ ~May("pauses"))}

NotYet ==
    UNCHANGED <<status, closed, closing, readable, queue, consumed, armed,
                timeout_task>>

(* Mutant: the socket is left paused. *)
AfterResponsePauses ==
    /\ status' = "pending"
    /\ readable' = FALSE
    /\ queue' = Clear(queue) /\ consumed' = FALSE
    /\ armed' = armed \ {timeout_task}
    /\ timeout_task' = NoTimer
    /\ request' = 0
    /\ UNCHANGED <<closed, closing>>

AfterResponse ==
    /\ status' = "pending"
    /\ closed' = (closed \/ ~May("keep_alive"))
    /\ closing' = (closing \/ (May("keep_alive") /\ stopped))
    /\ readable' = (readable \/ (May("keep_alive") /\ ~stopped))
    /\ queue' = Clear(queue) /\ consumed' = FALSE
    /\ armed' = armed \ {timeout_task}
    /\ timeout_task' = NoTimer
    /\ request' = 0                      \* components.reset()

(* Response.send, with request r registered in the components.  When the   *)
(* write leaves the connection not writable, the task wait_client_consume  *)
(* is to call after_response later; it fails on its first line, whatever   *)
(* follows, and after_response is not called.                              *)
Send(r, kind, registered) ==
    /\ Write(r, kind)
    /\ IF writable' THEN AfterResponse ELSE NotYet /\ request' = registered

(* Mutant: the timer of the route is left armed. *)
SendStreamTimed(r) ==
    /\ stream' = [stream EXCEPT ![r] = "start"]
    /\ UNCHANGED <<armed, timeout_task>>

(* StreamingResponse.send: without a timer to cancel it fails silently. *)
SendStream(r) ==
    IF timeout_task = NoTimer
    THEN UNCHANGED <<armed, timeout_task, stream>>
    ELSE LET timer == IF May("complete") THEN <<"stream", r>> ELSE timeout_task
         IN  /\ armed' = (armed \ {timeout_task})
                             \cup (IF May("complete") THEN {timer} ELSE {})
             /\ timeout_task' = timer
             /\ stream' = [stream EXCEPT ![r] = "start"]

Raise(r, cause) == [req |-> r, cause |-> cause]

-----------------------------------------------------------------------------
(* The transport calls data_received, and the parser calls back. *)

Idle == call.upto = 0

(* A task woken by resume_writing runs before the sockets are polled again.*)
Polled == Idle /\ ~(permission /\ \E r \in Req : stream[r] = "wait_tail")

DataReceived ==
    /\ Polled /\ readable /\ ~closed /\ ~poisoned
    /\ at.req <= SentUpTo
    /\ status' = "receiving"
    /\ call' = [upto |-> SentUpTo, empty |-> TRUE]
    /\ UNCHANGED <<readable, writable, permission, closed, stopped, slots, shared,
                   at, poisoned, loop, seen>>

(* Once the parser failed, every later call raises and drops its data. *)
DataRefused ==
    /\ Polled /\ readable /\ ~closed /\ poisoned
    /\ at.req <= SentUpTo
    /\ status' = "receiving"
    /\ readable' = FALSE
    /\ errors' = errors \cup {Raise(at.req, <<"parser", at.part>>)}
    /\ at' = After(at)
    /\ UNCHANGED <<writable, permission, closed, stopped, slots, shared, call,
                   poisoned, armed, task, stream, closing, seen>>

(* The end of the buffer.  A message without a body has nothing between    *)
(* its head and its end, so they come together.                            *)
FeedDone ==
    /\ ~Idle /\ ~call.empty
    /\ ~(at.req <= Last /\ at.part = 1 /\ Body[at.req] = 0)
    /\ call' = [upto |-> 0, empty |-> TRUE]
    /\ UNCHANGED <<conn, slots, shared, at, poisoned, loop, seen>>

Parsed == at' = After(at) /\ call' = [call EXCEPT !.empty = FALSE]

OnHeadersComplete ==
    /\ at.req <= call.upto /\ at.part = 0
    /\ Parsed
    /\ LET r == at.req IN
       \/ /\ r \in Upgrades            \* handle_upgrade fails on self.route
          /\ request' = r
          /\ UNCHANGED <<conn, current_task, timeout_task, shared, loop, seen>>
       \/ /\ r \in Cached \ Upgrades
          /\ Send(r, "full", r)
          /\ UNCHANGED <<permission, stopped, current_task, task, errors,
                         stream, got, eof>>
       \/ /\ r \notin Cached \cup Upgrades
          /\ request' = r
          /\ task' = [task EXCEPT ![r] = "endpoint"]
          /\ current_task' = r
          /\ timeout_task' = <<"route", r>>
          /\ armed' = armed \cup {<<"route", r>>}
          /\ UNCHANGED <<conn, shared, errors, stream, closing, seen>>
    /\ UNCHANGED poisoned

Woke == [r \in Req |-> IF task[r] = "blocked" /\ Wakes(queue) THEN "woken"
                       ELSE task[r]]

(* The parser adds up what came of a body, and starts anew at its end. *)
WithinLimit(p) == Limit[p.req] = 0 \/ p.part <= Limit[p.req]

(* Mutant: max_body_size is not enforced. *)
OnBodyUnlimited ==
    /\ at.req <= call.upto /\ at.part # 0 /\ ~Ends(at)
    /\ Parsed
    /\ queue' = Put(queue, <<at.req, at.part>>)
    /\ task' = Woke
    /\ readable' = FALSE
    /\ UNCHANGED <<status, writable, permission, closed, stopped, slots,
                   consumed, poisoned, armed, errors, stream, closing, seen>>

OnBody ==
    /\ at.req <= call.upto /\ at.part # 0 /\ ~Ends(at)
    /\ WithinLimit(at)
    /\ Parsed
    /\ queue' = Put(queue, <<at.req, at.part>>)
    /\ task' = Woke
    /\ readable' = FALSE
    /\ UNCHANGED <<status, writable, permission, closed, stopped, slots,
                   consumed, poisoned, armed, errors, stream, closing, seen>>

(* The callback refuses the chunk that passes the limit, and feed_data     *)
(* raises; the chunks before it are with the handler.                      *)
BodyLimit ==
    /\ at.req <= call.upto /\ at.part # 0 /\ ~Ends(at)
    /\ ~WithinLimit(at)
    /\ at' = After(at)
    /\ call' = [upto |-> 0, empty |-> TRUE]
    /\ poisoned' = TRUE
    /\ readable' = FALSE
    /\ errors' = errors \cup {Raise(at.req, <<"parser", at.part>>)}
    /\ UNCHANGED <<status, writable, permission, closed, stopped, slots, shared,
                   armed, task, stream, closing, seen>>

OnMessageComplete ==
    /\ at.req <= call.upto /\ Ends(at)
    /\ Parsed
    /\ queue' = End(queue)
    /\ task' = Woke
    /\ status' = "processing"
    /\ UNCHANGED <<readable, writable, permission, closed, stopped, slots,
                   consumed, poisoned, armed, errors, stream, closing, seen>>

Parsing == FeedDone \/ OnHeadersComplete \/ OnBody \/ BodyLimit
               \/ OnMessageComplete

-----------------------------------------------------------------------------
(* The other calls of the transport. *)

ResumeWriting ==
    /\ Idle /\ ~writable /\ ~closed
    /\ writable' = TRUE
    /\ permission' = TRUE
    /\ UNCHANGED <<status, readable, closed, stopped, slots, shared, parser, loop,
                   seen>>

ConnectionLost ==
    /\ Idle /\ May("drops") /\ ~closed
    /\ closed' = TRUE
    /\ UNCHANGED <<status, readable, writable, permission, stopped, slots, shared,
                   parser, loop, seen>>

-----------------------------------------------------------------------------
(* handle_request and the endpoint of request r. *)

(* What reading does with the result of get(), as in BodyStream. *)
Take(r, resumed) ==
    IF AtEnd(queue)
    THEN /\ consumed' = TRUE
         /\ eof' = eof \cup {r}
         /\ readable' = resumed
         /\ UNCHANGED got
    ELSE /\ got' = [got EXCEPT ![r] = Append(@, Head(queue.items))]
         /\ readable' = FALSE
         /\ UNCHANGED <<consumed, eof>>

(* Mutant: the socket is not resumed before a wait. *)
ReadBodyPaused(r) ==
    /\ Idle /\ task[r] = "endpoint" /\ ~consumed
    /\ IF HasItem(queue) \/ queue.finished
       THEN /\ Take(r, TRUE)
            /\ queue' = IF HasItem(queue) THEN Pop(queue) ELSE queue
            /\ UNCHANGED task
       ELSE /\ queue' = Wait(queue)
            /\ task' = [task EXCEPT ![r] = "blocked"]
            /\ UNCHANGED <<readable, consumed, got, eof>>
    /\ UNCHANGED <<status, writable, permission, closed, stopped, slots, parser,
                   armed, errors, stream, closing, out>>

ReadBody(r) ==
    /\ Idle /\ task[r] = "endpoint" /\ ~consumed
    /\ IF HasItem(queue) \/ queue.finished
       THEN /\ Take(r, TRUE)
            /\ queue' = IF HasItem(queue) THEN Pop(queue) ELSE queue
            /\ UNCHANGED task
       ELSE /\ queue' = Wait(queue)
            /\ task' = [task EXCEPT ![r] = "blocked"]
            /\ readable' = TRUE
            /\ UNCHANGED <<consumed, got, eof>>
    /\ UNCHANGED <<status, writable, permission, closed, stopped, slots, parser,
                   armed, errors, stream, closing, out>>

ReadResumes(r) ==
    /\ Idle /\ task[r] = "woken"
    /\ IF HasItem(queue)
       THEN /\ Take(r, readable)
            /\ queue' = Pop(Woken(queue))
            /\ task' = [task EXCEPT ![r] = "endpoint"]
            /\ UNCHANGED errors
       ELSE /\ queue' = Woken(queue)     \* IndexError
            /\ task' = [task EXCEPT ![r] = "done"]
            /\ errors' = errors \cup {Raise(r, <<"handler", 0>>)}
            /\ UNCHANGED <<readable, consumed, got, eof>>
    /\ UNCHANGED <<status, writable, permission, closed, stopped, slots, parser,
                   armed, stream, closing, out>>

MayAnswer(r) ==
    /\ Idle /\ task[r] = "endpoint"
    /\ May("early") \/ Body[r] = 0 \/ r \in eof

AfterSend(r) ==
    task' = [task EXCEPT ![r] = IF May("hooks") THEN "after_sent" ELSE "done"]

Answer(r) ==
    /\ MayAnswer(r) /\ May("plain")
    /\ Send(r, "full", request)
    /\ AfterSend(r)
    /\ UNCHANGED <<permission, stopped, current_task, parser, errors, stream,
                   got, eof>>

AnswerStream(r) ==
    /\ MayAnswer(r) /\ (May("chunked") \/ May("fixed"))
    /\ SendStream(r)
    /\ AfterSend(r)
    /\ UNCHANGED <<conn, current_task, request, shared, parser, errors, closing,
                   seen>>

Fail(r) ==
    /\ MayAnswer(r) /\ May("failures")
    /\ task' = [task EXCEPT ![r] = "done"]
    /\ errors' = errors \cup {Raise(r, <<"handler", 0>>)}
    /\ UNCHANGED <<conn, slots, shared, parser, armed, stream, closing, seen>>

(* Mutant: the components are reset once more at the end. *)
HooksDoneResets(r) ==
    /\ Idle /\ task[r] = "after_sent"
    /\ task' = [task EXCEPT ![r] = "done"]
    /\ request' = 0
    /\ UNCHANGED <<conn, current_task, timeout_task, shared, parser, armed,
                   errors, stream, closing, seen>>

(* An AFTER_RESPONSE_SENT hook ends, or raises. *)
HooksDone(r) ==
    /\ Idle /\ task[r] = "after_sent"
    /\ task' = [task EXCEPT ![r] = "done"]
    /\ \/ UNCHANGED errors
       \/ /\ May("hook_failures")
          /\ errors' = errors \cup {Raise(r, <<"hook", 0>>)}
    /\ UNCHANGED <<conn, slots, shared, parser, armed, stream, closing, seen>>

(* handle_exception, once the error handler has made a response. *)
HandleException(e) ==
    /\ Idle /\ e \in errors
    /\ errors' = errors \ {e}
    /\ Send(e.req, "error", request)
    /\ UNCHANGED <<permission, stopped, current_task, parser, task, stream,
                   got, eof>>

(* process_exception raises: the task ends, and nobody answers. *)
ErrorHandlerRaises ==
    /\ Idle /\ May("error_failures")
    /\ \E e \in errors : errors' = errors \ {e}
    /\ UNCHANGED <<conn, slots, shared, parser, armed, task, stream, closing, seen>>

-----------------------------------------------------------------------------
(* Timers. *)

(* Mutant: the task is not cancelled. *)
CancelRequestLate(r) ==
    /\ Idle /\ May("route_timeouts") /\ <<"route", r>> \in armed
    /\ armed' = armed \ {<<"route", r>>}
    /\ errors' = errors \cup {Raise(current_task, <<"timeout", r>>)}
    /\ UNCHANGED <<conn, slots, shared, parser, task, stream, closing, seen>>

(* cancel_request: the handler gets a CancelledError wherever it awaits. *)
CancelRequest(r) ==
    /\ Idle /\ May("route_timeouts") /\ <<"route", r>> \in armed
    /\ armed' = armed \ {<<"route", r>>}
    /\ task' = [task EXCEPT ![current_task] =
                    IF @ = "done" THEN "done" ELSE "cancelled"]
    /\ errors' = errors \cup {Raise(current_task, <<"timeout", r>>)}
    /\ UNCHANGED <<conn, slots, shared, parser, stream, closing, seen>>

CancelStreamingTask(r) ==
    /\ Idle /\ May("stream_timeouts") /\ <<"stream", r>> \in armed
    /\ armed' = armed \ {<<"stream", r>>}
    /\ stream' = [stream EXCEPT ![r] = IF @ = "done" THEN "done" ELSE "cancelled"]
    /\ closed' = TRUE
    /\ UNCHANGED <<status, readable, writable, permission, stopped, slots, shared,
                   parser, task, errors, closing, seen>>

-----------------------------------------------------------------------------
(* The streaming task of request r.  Connection.write suspends while the   *)
(* connection is not writable and write_permission was never granted.      *)

Suspends == ~writable' /\ ~permission

StreamHead(r) ==
    /\ Idle /\ stream[r] = "start"
    /\ Write(r, "head")
    /\ stream' = [stream EXCEPT ![r] = IF Suspends THEN "wait_head" ELSE "body"]
    /\ UNCHANGED <<status, readable, permission, closed, stopped, slots, shared,
                   parser, armed, task, errors, closing, got, eof>>

(* A chunk that fills the buffer; the others change nothing. *)
StreamChunk(r) ==
    /\ Idle /\ stream[r] = "body" /\ May("pauses") /\ ~closed
    /\ writable' = FALSE
    /\ stream' = [stream EXCEPT ![r] = IF Suspends THEN "wait_chunk" ELSE "body"]
    /\ UNCHANGED <<status, readable, permission, closed, stopped, slots, shared,
                   parser, armed, task, errors, closing, seen>>

(* The last write, of which the end of the response is part.  Then         *)
(* stream_chunked_response goes on to after_response at once, whereas      *)
(* stream_response writes in wait_for, which takes turns of the loop.      *)
StreamTail(r) ==
    /\ Idle /\ stream[r] = "body"
    /\ Write(r, "tail")
    /\ \/ /\ stream' = [stream EXCEPT ![r] = "done"]
          /\ May("chunked") /\ ~Suspends
          /\ AfterResponse
       \/ /\ May("chunked") /\ Suspends
          /\ stream' = [stream EXCEPT ![r] = "wait_tail"]
          /\ NotYet /\ UNCHANGED request
       \/ /\ May("fixed")
          /\ stream' = [stream EXCEPT ![r] =
                            IF Suspends THEN "wait_flush" ELSE "flushed"]
          /\ NotYet /\ UNCHANGED request
    /\ UNCHANGED <<permission, stopped, current_task, parser, task, errors,
                   got, eof>>

StreamWake(r) ==
    /\ Idle /\ permission
    /\ stream[r] \in {"wait_head", "wait_chunk", "wait_flush"}
    /\ stream' = [stream EXCEPT ![r] = IF @ = "wait_flush" THEN "flushed"
                                       ELSE "body"]
    /\ UNCHANGED <<conn, slots, shared, parser, armed, task, errors, closing, seen>>

StreamDone(r) ==
    /\ Idle
    /\ stream[r] = "flushed" \/ (permission /\ stream[r] = "wait_tail")
    /\ stream' = [stream EXCEPT ![r] = "done"]
    /\ AfterResponse
    /\ UNCHANGED <<writable, permission, stopped, current_task, parser, task,
                   errors, out, got, eof>>

(* chunk_timeout: the client did not take the chunk in time. *)
ChunkTimeout(r) ==
    /\ Idle /\ May("stream_timeouts") /\ ~permission
    /\ stream[r] \in {"wait_chunk", "wait_flush"}
    /\ stream' = [stream EXCEPT ![r] = "done"]
    /\ closed' = TRUE
    /\ UNCHANGED <<status, readable, writable, permission, stopped, slots, shared,
                   parser, armed, task, errors, closing, seen>>

-----------------------------------------------------------------------------
(* Graceful stop: stop(), and the task of scheduled_close. *)

(* Mutant: a connection is busy only once its request is whole. *)
StopHasty ==
    /\ Idle /\ May("stops") /\ ~stopped /\ ~closed
    /\ stopped' = TRUE
    /\ closed' = (status # "processing")
    /\ UNCHANGED <<status, readable, writable, permission, slots, shared, parser,
                   loop, seen>>

Stop ==
    /\ Idle /\ May("stops") /\ ~stopped /\ ~closed
    /\ stopped' = TRUE
    /\ closed' = (status = "pending")
    /\ UNCHANGED <<status, readable, writable, permission, slots, shared, parser,
                   loop, seen>>

ScheduledClose ==
    /\ Idle /\ closing /\ writable
    /\ closing' = FALSE
    /\ closed' = TRUE
    /\ UNCHANGED <<status, readable, writable, permission, stopped, slots, shared,
                   parser, armed, task, errors, stream, seen>>

-----------------------------------------------------------------------------
Handler(r) == ReadBody(r) \/ ReadResumes(r) \/ Answer(r) \/ AnswerStream(r)
                  \/ Fail(r) \/ HooksDone(r)

Streaming(r) == StreamHead(r) \/ StreamChunk(r) \/ StreamTail(r)
                    \/ StreamWake(r) \/ StreamDone(r) \/ ChunkTimeout(r)

Timer(r) == CancelRequest(r) \/ CancelStreamingTask(r)

Step ==
    \/ DataReceived \/ DataRefused \/ Parsing
    \/ ResumeWriting \/ ConnectionLost
    \/ \E r \in Req : Handler(r) \/ Streaming(r) \/ Timer(r)
    \/ \E e \in errors : HandleException(e)
    \/ ErrorHandlerRaises \/ Stop \/ ScheduledClose

Next == UNCHANGED setting /\ Step

Spec == Init /\ [][Next]_vars

(* The loop runs what is ready, and the client sends its requests and      *)
(* takes the responses.                                                    *)
LoopFairness ==
    /\ WF_state(DataReceived \/ DataRefused) /\ WF_state(Parsing)
    /\ WF_state(ResumeWriting)
    /\ WF_state(\E e \in errors : HandleException(e))
    /\ \A r \in Req : /\ WF_state(ReadResumes(r)) /\ WF_state(HooksDone(r))
                      /\ WF_state(StreamHead(r)) /\ WF_state(StreamTail(r))
                      /\ WF_state(StreamWake(r)) /\ WF_state(StreamDone(r))

(* Endpoints come to an end, but for those that a route timeout would end. *)
EndpointFairness ==
    \A r \in Req :
        /\ WF_state(~May("route_timeouts") /\ ReadBody(r))
        /\ WF_state(~May("route_timeouts") /\ (Answer(r) \/ AnswerStream(r) \/ Fail(r)))

(* The timers that are not cancelled expire. *)
TimerFairness ==
    \A r \in Req : WF_state(Timer(r)) /\ WF_state(ChunkTimeout(r))

FairSpec == Spec /\ LoopFairness /\ EndpointFairness /\ TimerFairness

-----------------------------------------------------------------------------
Timers == {"route", "stream"} \X Req
Piece == [req : Req, kind : {"full", "error", "head", "tail"}]

(* The type of the state of the connection and of its tasks. *)
TypeOK ==
    /\ setting \in Settings
    /\ status \in {"pending", "receiving", "processing"}
    /\ readable \in BOOLEAN /\ writable \in BOOLEAN /\ permission \in BOOLEAN
    /\ closed \in BOOLEAN /\ stopped \in BOOLEAN /\ consumed \in BOOLEAN
    /\ poisoned \in BOOLEAN /\ closing \in BOOLEAN
    /\ current_task \in 0 .. R /\ request \in 0 .. R
    /\ timeout_task \in {NoTimer} \cup Timers /\ armed \subseteq Timers
    /\ queue \in QueueOf(Req \X Nat)
    /\ at \in [req : 1 .. R + 1, part : Nat]
    /\ call \in [upto : 0 .. R, empty : BOOLEAN]
    /\ task \in [Req -> {"none", "endpoint", "blocked", "woken", "after_sent",
                         "done", "cancelled"}]
    /\ errors \subseteq [req : Req, cause : {"parser", "handler", "hook", "timeout"} \X Nat]
    /\ stream \in [Req -> {"none", "start", "wait_head", "body", "wait_chunk",
                           "wait_tail", "wait_flush", "flushed", "done",
                           "cancelled"}]
    /\ out \in Seq(Piece)
    /\ got \in [Req -> Seq(Req \X Nat)]
    /\ eof \subseteq Req

(* Request r is being handled, or sent a streaming response or an error. *)
Handling(r) == task[r] \in {"endpoint", "blocked", "woken"}
Sending(r) == stream[r] \notin {"none", "done", "cancelled"}
Erring(r) == \E e \in errors : e.req = r
Running(r) == Handling(r) \/ Sending(r) \/ Erring(r)

Answered(r) == \E i \in Complete : out[i].req = r

(* Settings whose requests do not disturb each other.  What is left out are *)
(* known hazards: a queue that stays finished (cached answers, bodies not   *)
(* read), upgrades that are never answered, the error state of the parser,  *)
(* a response that is sent while after_response is still to come ("fixed"), *)
(* hooks that fail behind their response, error handlers that fail, a whole *)
(* response that fills the write buffer, and a route timeout beside an      *)
(* error handler or a body.                                                 *)
Orderly ==
    /\ Cached \cup Upgrades = {}
    /\ setting.features \cap {"early", "fixed", "hook_failures",
                             "error_failures"} = {}
    /\ May("pauses") => setting.features \cap {"plain", "failures"} = {}
    /\ May("route_timeouts") =>
          /\ setting.features \cap {"pauses", "failures"} = {}
          /\ \A r \in 1 .. Last : Body[r] = 0

Tame == Orderly /\ Oversized = {}

(* A handler reads the body of its own request, from its start and without *)
(* a gap, and when it is told of the end (b'' or None from the queue) it   *)
(* has read all of it, although the requests of a connection share one     *)
(* StreamQueue that after_response clears (cprotocol.pyx:112).             *)
WholeBody ==
    Tame =>
        /\ \A r \in Req : \A i \in DOMAIN got[r] : got[r][i] = <<r, i>>
        /\ \A r \in eof : Len(got[r]) = Body[r]

(* What is written is a sequence of whole responses, one per request and   *)
(* in the order of the requests, whatever handlers, timers and hooks do:   *)
(* nothing comes between the head of a streaming response and its end, not *)
(* even the response of a route timeout, which StreamingResponse.send      *)
(* cancels (responses.pyx:236-253).                                        *)
AnsweredOnce ==
    Tame =>
        /\ \A i, j \in Complete : i < j => out[i].req < out[j].req
        /\ \A i \in 1 .. Len(out) - 1 :
              out[i].kind = "head" =>
                  out[i + 1] = [req |-> out[i].req, kind |-> "tail"]

(* The socket is paused only while some request is being processed, so     *)
(* somebody is left to resume it.                                          *)
PausedForReason ==
    Tame /\ Idle /\ ~readable /\ ~closed => closing \/ \E r \in Req : Running(r)

(* The requests of a connection are handled one at a time, because they    *)
(* share its body stream and its components: in any setting, until one of  *)
(* them has been answered twice, by its handler and then for the failure   *)
(* of its hook (cprotocol.pyx:188-195) or for its timeout (358-366).  The  *)
(* client takes the second for the answer to its next request.             *)
AnsweredTwice == \E i, j \in Complete : i # j /\ out[i].req = out[j].req

OneHandler == ~AnsweredTwice =>
    \A r, s \in Req : Handling(r) /\ Handling(s) => r = s

(* A request over the body limit is not served: its handler may have read  *)
(* the chunks before the limit and wait for more when the parser fails,    *)
(* but it is never told of an end, neither by the chunks that the socket   *)
(* still delivers nor by the error handler that answers beside it.         *)
RejectedNotServed == Orderly =>
    \A i \in Complete : out[i].kind = "full" => out[i].req \notin Oversized

(* The Request component is that of the request being handled, although    *)
(* after_response resets the components of the whole connection.           *)
OwnComponents ==
    Tame => \A r \in Req : task[r] = "endpoint" => request = r

(* stop() closes no connection that is processing a request. *)
StopSpares == [][Tame /\ Stop /\ closed' => \A r \in Req : ~Running(r)]_vars

(* A connection that is not closed gets through all requests of its client. *)
AllServed == Tame => <>(closed \/ (at.req > Last /\ \A r \in 1 .. Last : Answered(r)))

=============================================================================
