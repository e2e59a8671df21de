------------------------------- MODULE Client -------------------------------
(***************************************************************************)
(* A Session of the HTTP client (client/session.py) with its connection    *)
(* pools (client/pool.py): calls that run beside each other, each with its *)
(* redirects and retries, a limit of their rate (client/limits.py), and    *)
(* the tasks that give connections back.                                   *)
(*                                                                         *)
(* A coroutine runs without interruption from one await that suspends to   *)
(* the next; each such stretch is one action.  The peers may answer, close *)
(* or reset at any time.  A connection is named by its pool and a number,  *)
(* and the name of one that is closed and forgotten is used again: Numbers *)
(* bounds how many are remembered at a time.  Other counts are the code's. *)
(* Calls follow redirects and have a timeout, as they do by default.       *)
(***************************************************************************)
EXTENDS Naturals, Sequences, RequestRate

CONSTANTS
    Calls,            \* calls of Session.request
    Hosts,            \* the keys of HTTPEngine.pools
    Numbers,          \* names of the connections of a pool
    None,             \* no host, no connection
    Asks,             \* what users ask of Session.request
    MaxRedirects,     \* max_redirects
    NetworkFailures,  \* RetryStrategy.network_failures['GET']
    KeepAlive,        \* Session.keep_alive
    Uses,             \* what a session is used for
    Answers           \* the responses that the peers give

(* url: the host of the URL; statuses: the budget in RetryStrategy.responses. *)
Ask == [method : {"GET", "POST"}, url : Hosts, stream : BOOLEAN, statuses : Nat]
ASSUME AsksAssumption == Asks \subseteq Ask /\ Asks # {}
ASSUME BudgetAssumption == MaxRedirects \in Nat /\ NetworkFailures \in Nat

(* A use of a session: what Session.limits holds, one limit, and what each *)
(* call asks, or None if the call is never made.                           *)
Use == [limit : LimitOf(SUBSET Hosts), asked : [Calls -> Asks \cup {None}]]
ASSUME UsesAssumption == Uses \subseteq Use
ASSUME NamesAssumption == Numbers \subseteq Nat /\ None \notin Hosts \cup (Hosts \X Numbers)

(* kind is explained below; to: the host of its 'location', or None; keep: *)
(* http_should_keep_alive.                                                 *)
Kinds == {"sized", "empty", "bare", "endless"}
Answer == [kind : Kinds, to : Hosts \cup {None}, keep : BOOLEAN]
ASSUME AnswersAssumption == Answers \subseteq Answer

VARIABLES
    call,             \* call[r]: where call r stands
    transport,        \* transport[c]: what became of connection c
    connections,      \* the union of ConnectionPool.connections
    available,        \* available[h]: ConnectionPool.available_connections
    releasing,        \* tasks of Response._release_connection, oldest first
    closed,           \* Session.close was called
    rate,             \* the RequestRate
    recent            \* history: ticks since each request it let through, if
                      \* less than a period

sockets == <<transport, connections>>
limits == <<rate, recent>>
vars == <<call, sockets, available, releasing, closed, limits>>

Conns == Hosts \X Numbers

(* pc: "idle", then "start" (an attempt is about to run), "throttled" (it  *)
(* sleeps, nap more ticks), "checking" (in is_dropped), "connecting",      *)
(* "head" (request sent), "body", and at last "held" (returned unread),    *)
(* "done" or "failed".  ask: the arguments; url,                           *)
(* leg: the host asked and the redirects followed; host: 'Host' in the     *)
(* headers of the call; net, again: what the retry strategy has left;      *)
(* kind, to, keep: of the response being read; posted: how often the POST  *)
(* was written.  A call that has ended forgets all but the connection it   *)
(* leaves behind.                                                          *)
Waits == {"connecting", "head", "body"}
Attempt == [pc : {"idle", "start", "throttled", "checking", "held", "done", "failed"} \cup Waits,
            ask : Asks, url : Hosts, leg : 0 .. MaxRedirects, host : Hosts \cup {None},
            conn : Conns \cup {None}, net : 0 .. NetworkFailures, again : Nat,
            kind : Kinds, to : Hosts \cup {None}, keep : BOOLEAN, posted : Nat, nap : Nat]

(* Mutant: failures are retried whatever the method. *)
BudgetOfAll(ask) == NetworkFailures
Budget(ask) == IF ask.method = "GET" THEN NetworkFailures ELSE 0

Fresh(ask) == [pc |-> "start", ask |-> ask, url |-> ask.url, leg |-> 0,
               host |-> None, conn |-> None, net |-> Budget(ask), again |-> ask.statuses,
               kind |-> "sized", to |-> None, keep |-> FALSE, posted |-> 0, nap |-> 0]
Blank(pc) == [Fresh(CHOOSE ask \in Asks : TRUE) EXCEPT !.pc = pc]

Before(asked) == IF asked = None THEN Blank("done")
                 ELSE [Fresh(asked) EXCEPT !.pc = "idle"]

Init ==
    /\ \E use \in Uses : /\ call = [r \in Calls |-> Before(use.asked[r])]
                          /\ rate = NewRate(use.limit)
    /\ transport = [c \in Conns |-> "closed"]
    /\ connections = {}
    /\ available = [h \in Hosts |-> <<>>]
    /\ releasing = <<>>
    /\ closed = FALSE
    /\ recent = <<>>

At(r, pc) == call[r].pc = pc
Update(r, a) == call' = [call EXCEPT ![r] = a]

-----------------------------------------------------------------------------
(* ConnectionPool and Connection. *)

Pool(c) == c[1]

(* writer.close() of every connection of cs. *)
Shut(cs) ==
    transport' = [c \in Conns |->
                    IF c \in cs /\ transport[c] \in {"open", "eof"}
                    THEN "closed" ELSE transport[c]]

(* Mutant: the connection is forgotten before it is closed. *)
DiscardOpen(c) == connections' = connections \ {c} /\ UNCHANGED transport
Discard(c) == Shut({c}) /\ connections' = connections \ {c}

(* readexactly(0) returns at once whatever the peer did, so a connection   *)
(* always looks dropped.  Only after a reset it raises.                    *)
IsDropped(c) == TRUE

(* get_connection up to its first await: pop what was released first. *)
GetConnection(r, a) ==
    LET idle == available[a.url]
        n == Len(idle)
    IN  \/ /\ n = 0
           /\ Update(r, [a EXCEPT !.pc = "connecting", !.conn = None])
           /\ UNCHANGED available
        \/ /\ n > 0
           /\ Update(r, [a EXCEPT !.pc = "checking", !.conn = idle[n]])
           /\ available' = [available EXCEPT ![a.url] = SubSeq(idle, 1, n - 1)]

ReleaseConnection(c, keep) ==
    \/ /\ keep /\ KeepAlive
       /\ available' = [available EXCEPT ![Pool(c)] = <<c>> \o @]
       /\ UNCHANGED sockets
    \/ /\ ~(keep /\ KeepAlive)
       /\ Discard(c) /\ UNCHANGED available

(* A release task runs. *)
Release ==
    /\ releasing # <<>>
    /\ ReleaseConnection(Head(releasing).conn, Head(releasing).keep)
    /\ releasing' = Tail(releasing)
    /\ UNCHANGED <<call, closed, limits>>

-----------------------------------------------------------------------------
(* Session.request and HTTPEngine.request. *)

Call(r) ==
    /\ At(r, "idle")
    /\ Update(r, Fresh(call[r].ask))
    /\ UNCHANGED <<sockets, available, releasing, closed, limits>>

(* throttle: the rate is asked for the URLs that match its pattern. *)
Limited(a) == a.url \in rate.pattern

(* HTTPEngine.request after throttle. *)
GoOn(r, a) == /\ recent' = Append(recent, 0)
              /\ GetConnection(r, a)

(* HTTPEngine.request up to its first await. *)
Request(r, a) ==
    \/ /\ ~Limited(a)
       /\ GetConnection(r, a) /\ UNCHANGED limits
    \/ /\ Limited(a) /\ Exhausted(rate)
       /\ Update(r, [a EXCEPT !.pc = "throttled", !.conn = None, !.nap = Nap(rate)])
       /\ UNCHANGED <<available, limits>>
    \/ /\ Limited(a) /\ ~Exhausted(rate)
       /\ rate' = Counted(rate)
       /\ GoOn(r, a)

(* The task of wait_for begins. *)
Begin(r) ==
    /\ At(r, "start")
    /\ Request(r, call[r])
    /\ UNCHANGED <<sockets, releasing, closed>>

Wake(r) ==
    /\ At(r, "throttled") /\ call[r].nap = 0
    /\ rate' = Woken(rate)
    /\ GoOn(r, call[r])
    /\ UNCHANGED <<sockets, releasing, closed>>

(* Another attempt begins at the first URL, with the same headers. *)
Again(a) == [a EXCEPT !.pc = "start", !.url = a.ask.url, !.leg = 0,
                      !.conn = None, !.kind = "sized", !.to = None]
Failed(a) == [Blank("failed") EXCEPT !.conn = a.conn]

(* ConnectionError.  Mutant: the budget is not used up. *)
NetworkErrorForever(r) ==
    LET a == call[r] IN
    Update(r, IF a.net > 0 THEN Again(a) ELSE Failed(a))
NetworkError(r) ==
    LET a == call[r] IN
    Update(r, IF a.net > 0 THEN Again([a EXCEPT !.net = @ - 1]) ELSE Failed(a))

(* Request.encode on connection c. *)
Send(r, c) ==
    LET a == call[r] IN
    Update(r, [a EXCEPT !.pc = "head", !.conn = c,
                        !.host = IF @ = None THEN a.url ELSE @,
                        !.posted = IF a.ask.method = "POST" /\ a.leg = 0 THEN @ + 1 ELSE @])

Checked(r) ==
    LET c == call[r].conn IN
    /\ At(r, "checking")
    /\ \/ /\ transport[c] = "reset"
          /\ NetworkError(r) /\ UNCHANGED sockets
       \/ /\ transport[c] # "reset" /\ IsDropped(c)
          /\ Discard(c)
          /\ Update(r, [call[r] EXCEPT !.pc = "connecting", !.conn = None])
       \/ /\ transport[c] # "reset" /\ ~IsDropped(c)
          /\ Send(r, c) /\ UNCHANGED sockets
    /\ UNCHANGED <<available, releasing, closed, limits>>

Pooled(c) == \E i \in DOMAIN available[Pool(c)] : available[Pool(c)][i] = c
Leaving(c) == \E i \in DOMAIN releasing : releasing[i].conn = c

Unused(c) == /\ transport[c] = "closed" /\ c \notin connections
             /\ ~Pooled(c) /\ ~Leaving(c) /\ \A r \in Calls : call[r].conn # c

Connected(r) ==
    \E n \in Numbers :
      LET c == <<call[r].url, n>> IN
      /\ At(r, "connecting")
      /\ Unused(c) /\ \A m \in Numbers : m < n => ~Unused(<<call[r].url, m>>)
      /\ transport' = [transport EXCEPT ![c] = "open"]
      /\ connections' = connections \cup {c}
      /\ Send(r, c)
      /\ UNCHANGED <<available, releasing, closed, limits>>

(* Refused, which is a ConnectionError, or not resolved, which is not. *)
NotConnected(r) ==
    /\ At(r, "connecting")
    /\ NetworkError(r) \/ Update(r, Failed(call[r]))
    /\ UNCHANGED <<sockets, available, releasing, closed, limits>>

-----------------------------------------------------------------------------
(* Response.  A "sized" body (a length, or chunks) has to be awaited.  An   *)
(* "empty" one (Content-Length: 0) is complete for the parser with its     *)
(* head, and once more for read_content.  A "bare" response (204, 304) is  *)
(* complete with its head and has no length for read_content; an "endless" *)
(* one has no length either and goes on until the peer closes.             *)

(* on_message_complete, n times: the release task is created. *)
MessageComplete(a, n) ==
    releasing' = releasing \o [i \in 1 .. n |-> [conn |-> a.conn, keep |-> a.keep]]

(* How often the message completes with the head, and in read_content.      *)
(* Mutant: the connection is released as soon as the head was read.        *)
AtHeadAlways(kind) == 1
AtHead(kind) == IF kind \in {"empty", "bare"} THEN 1 ELSE 0
AtBody(kind) == IF kind \in {"sized", "empty"} THEN 1 ELSE 0

(* engine.request returned a response to Session.request, and that may     *)
(* return it to the user: read, or as it is.                               *)
Held(a) == [Blank("held") EXCEPT !.conn = a.conn, !.kind = a.kind, !.keep = a.keep]

Returned(r, a, b) ==
    \/ a.again > 0 /\ Update(r, Again([a EXCEPT !.again = @ - 1]))
    \/ Update(r, b)

(* handle_redirect. *)
TooManyRedirects(a) == a.leg = MaxRedirects

Redirected(a) == [a EXCEPT !.url = a.to, !.host = a.to, !.leg = @ + 1,
                           !.kind = "sized", !.to = None]

(* The body was read: the end, or another leg. *)
BodyRead(r, a) ==
    \/ /\ a.to = None
       /\ Returned(r, a, Blank("done")) /\ UNCHANGED <<available, limits>>
    \/ /\ a.to # None /\ TooManyRedirects(a)
       /\ Update(r, Failed(a)) /\ UNCHANGED <<available, limits>>
    \/ /\ a.to # None /\ ~TooManyRedirects(a)
       /\ Request(r, Redirected(a))

(* receive_headers, and what follows it without a suspension. *)
ReceiveHeaders(r) ==
    \E answer \in Answers :
      LET kind == answer.kind
          a == [call[r] EXCEPT !.kind = kind, !.to = answer.to, !.keep = answer.keep]
          unread == a.ask.stream /\ a.to = None
      IN /\ At(r, "head") /\ transport[a.conn] = "open"
         /\ \/ /\ unread
               /\ MessageComplete(a, AtHead(kind))
               /\ Returned(r, a, Held(a)) /\ UNCHANGED <<available, limits>>
            \/ /\ ~unread /\ kind = "sized"
               /\ MessageComplete(a, AtHead(kind))
               /\ Update(r, [a EXCEPT !.pc = "body"]) /\ UNCHANGED <<available, limits>>
            \/ /\ ~unread /\ kind = "empty"
               /\ MessageComplete(a, AtHead(kind) + AtBody(kind))
               /\ BodyRead(r, a)
            \/ /\ ~unread /\ kind \in {"bare", "endless"}
               /\ MessageComplete(a, AtHead(kind))
               /\ Update(r, Failed(a)) /\ UNCHANGED <<available, limits>>
         /\ UNCHANGED <<sockets, closed>>

ReadContent(r) ==
    /\ At(r, "body") /\ transport[call[r].conn] = "open"
    /\ MessageComplete(call[r], 1)
    /\ BodyRead(r, call[r])
    /\ UNCHANGED <<sockets, closed>>

(* A reset is a ConnectionError; the end of the stream is not one (it is   *)
(* an IncompleteReadError), and leaves the connection as it is.            *)
Lost(r) ==
    /\ call[r].pc \in {"head", "body"} /\ transport[call[r].conn] # "open"
    /\ \/ transport[call[r].conn] = "reset" /\ NetworkError(r)
       \/ transport[call[r].conn] # "reset" /\ Update(r, Failed(call[r]))
    /\ UNCHANGED <<sockets, available, releasing, closed, limits>>

(* wait_for cancels the attempt.  What it raises, asyncio.TimeoutError, is *)
(* not the TimeoutError that is retried, and the connection is left open.  *)
Timeout(r) ==
    /\ call[r].pc \in Waits \cup {"throttled", "checking"}
    /\ Update(r, Failed(call[r]))
    /\ UNCHANGED <<sockets, available, releasing, closed, limits>>

(* The user reads a response that was returned unread, with read_content   *)
(* or with stream(), which sees nothing to read in an empty one.           *)
Readable(a) == \/ a.kind = "sized" /\ transport[a.conn] = "open"
               \/ a.kind = "empty" /\ transport[a.conn] # "reset"

ReadHeld(r) ==
    LET a == call[r] IN
    /\ At(r, "held")
    /\ \/ Readable(a) /\ MessageComplete(a, AtBody(a.kind)) /\ Update(r, Blank("done"))
       \/ a.kind = "empty" /\ Update(r, Blank("done")) /\ UNCHANGED releasing
       \/ ~Readable(a) /\ Update(r, Failed(a)) /\ UNCHANGED releasing
    /\ UNCHANGED <<sockets, available, closed, limits>>

-----------------------------------------------------------------------------
(* The peer closes a connection on which a response is awaited, or resets   *)
(* that or one in a pool.  (is_dropped does not tell a pooled connection   *)
(* that was closed from one that was not.)                                 *)
Reads(r, c) == call[r].conn = c /\ call[r].pc \in {"head", "body", "held"}

Drop ==
    \E c \in Conns, how \in {"eof", "reset"} :
      /\ transport[c] = "open"
      /\ (\E r \in Calls : Reads(r, c)) \/ (how = "reset" /\ Pooled(c))
      /\ transport' = [transport EXCEPT ![c] = how]
      /\ UNCHANGED <<call, connections, available, releasing, closed, limits>>

(* Session.close *)
Close ==
    /\ ~closed /\ closed' = TRUE
    /\ Shut(connections)
    /\ UNCHANGED <<call, connections, available, releasing, limits>>

(* A tick of the clock, of which nothing depends when all calls have ended. *)
Tick ==
    /\ rate.pattern # {}
    /\ \E r \in Calls : call[r].pc \notin {"idle", "held", "done", "failed"}
    /\ rate' = Later(rate)
    /\ \E gone \in 0 .. Len(recent) :
          /\ \A i \in DOMAIN recent : i <= gone <=> recent[i] + 1 = rate.period
          /\ recent' = [i \in 1 .. Len(recent) - gone |-> recent[gone + i] + 1]
    /\ call' = [r \in Calls |-> [call[r] EXCEPT !.nap = Less(@)]]
    /\ UNCHANGED <<sockets, available, releasing, closed>>

Attempts(r) == \/ Begin(r) \/ Wake(r) \/ Checked(r) \/ Connected(r) \/ NotConnected(r)
               \/ ReceiveHeaders(r) \/ ReadContent(r) \/ Lost(r) \/ Timeout(r)

Next == \/ \E r \in Calls : Call(r) \/ Attempts(r) \/ ReadHeld(r)
        \/ Release \/ Drop \/ Close \/ Tick

Spec == Init /\ [][Next]_vars

(* The loop runs what is ready, and the timer of wait_for ends an attempt  *)
(* that waits if nothing else does.                                        *)
FairSpec == Spec /\ WF_vars(Release) /\ \A r \in Calls : WF_vars(Attempts(r))

-----------------------------------------------------------------------------
(* Properties. *)

(* Every variable has its type. *)
TypeOK ==
    /\ call \in [Calls -> Attempt]
    /\ transport \in [Conns -> {"open", "eof", "reset", "closed"}]
    /\ connections \subseteq Conns
    /\ available \in [Hosts -> Seq(Conns)]
    /\ \A h \in Hosts : \A i \in DOMAIN available[h] : Pool(available[h][i]) = h
    /\ releasing \in Seq([conn : Conns, keep : BOOLEAN])
    /\ closed \in BOOLEAN
    /\ rate \in RateOf(SUBSET Hosts) /\ rate.ahead <= rate.period
    /\ recent \in Seq(Nat)

(* A connection on which a call waits for its response is that call's own: *)
(* it is neither in a pool nor about to return to one, and no other call   *)
(* reads from it (pool.py:47-60, response.py:240-249).                     *)
Exclusive ==
    \A r \in Calls : call[r].pc \in {"head", "body"} =>
      LET c == call[r].conn IN
      /\ ~Pooled(c) /\ ~Leaving(c)
      /\ \A s \in Calls \ {r} : call[s].pc \in {"head", "body", "checking"} => call[s].conn # c

(* No socket is lost: the pools know every one that is open, so that       *)
(* Session.close reaches it, and an open one is in use, waits in a pool,   *)
(* is about to, or was left behind by a call that failed or was not read:  *)
(* unless a call that streams is repeated for a status, which leaves the   *)
(* response behind with no one (session.py:233-236).                       *)
NoneLeft == \A ask \in Asks : ask.stream => ask.statuses = 0

NoSocketLost ==
    \A c \in Conns : transport[c] \in {"open", "eof"} =>
      /\ c \in connections
      /\ NoneLeft => \/ Pooled(c) \/ Leaving(c)
                     \/ \E r \in Calls : call[r].conn = c

(* A POST is written once, whatever resets and redirects follow: only an   *)
(* answer with a status that the caller listed repeats it (retries.py:11). *)
PostedOnce ==
    \A r \in Calls : call[r].posted <= 1 + (call[r].ask.statuses - call[r].again)

(* "How many requests per period are allowed" (limits.py:13): not even one  *)
(* call alone, with its redirects and retries, sends more than count        *)
(* requests within a period.  The code lets more through: a request that    *)
(* slept counts itself and leaves the cycle to the next one, which begins   *)
(* it and counts itself for the first (limits.py:39-52).                    *)
RateKept == (\E r \in Calls : Calls = {r}) => Len(recent) <= rate.count

(* Every call comes to an end: retries and redirects are exhausted, however *)
(* the peers answer, refuse and reset.                                     *)
Settles ==
    \A r \in Calls : At(r, "start") ~> call[r].pc \in {"held", "done", "failed"}

=============================================================================
