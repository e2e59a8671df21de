------------------------------- MODULE Worker -------------------------------
(***************************************************************************)
(* A worker process (workers/handler.py): the event loop with its          *)
(* connections, the Reaper thread beside it (workers/reaper.py), and the   *)
(* stop of the server on SIGTERM.                                          *)
(*                                                                         *)
(* The two threads interleave: the reaper looks at a connection in one     *)
(* step and acts on it in another.  Connection has the inner workings of a *)
(* connection; here it is what reaper and stop see of it.                  *)
(*                                                                         *)
(* Time passes in seconds, one pass of the reaper each.  Only the age of a *)
(* request matters, up to Cap, so time needs no bound.                     *)
(***************************************************************************)
EXTENDS Naturals

CONSTANTS
    Conn,            \* connections that clients may make
    NoConn,
    KeepAlive,       \* keep_alive_timeout
    WorkerTimeout,   \* worker_timeout
    Blocking,        \* the connections whose handlers may block the loop
    StopTimeout      \* how many seconds stop_server waits

ASSUME ConnAssumption == NoConn \notin Conn
ASSUME LimitsAssumption ==
    KeepAlive \in Nat \ {0} /\ WorkerTimeout \in Nat \ {0} /\ StopTimeout \in Nat

VARIABLES
    conn,            \* conn[c] is what is seen of connection c
    counter,         \* passes of the reaper, modulo Period
    working,         \* Reaper.has_to_work
    reaper,          \* "asleep", or looking for "idle" or "stuck" connections
    todo,            \* the connections left to look at
    target,          \* the connection to stop next, or NoConn
    blocker,         \* the connection whose handler blocks the loop, or NoConn
    process,         \* "up", "killed" or "stopped"
    shutdown,        \* "none", "asked", "hooks" or "waiting"
    left,            \* seconds stop_server still waits
    slept            \* its sleep is over

watch == <<counter, working, reaper, todo, target>>
exit == <<process, shutdown, left, slept>>
vars == <<conn, watch, blocker, exit>>

Cap == IF KeepAlive < WorkerTimeout THEN WorkerTimeout ELSE KeepAlive + 1
Period == KeepAlive * WorkerTimeout

(* phase: "new", "open" (in app.connections) or "closed"; status: as in    *)
(* Connection; begun: the head of a request was parsed and its handler     *)
(* runs; stopped: _stopped; closing: a scheduled_close task exists; age:   *)
(* seconds since last_task_time, up to Cap.                                *)
ConnState == [phase : {"new", "open", "closed"},
              status : {"pending", "receiving", "processing"},
              begun : BOOLEAN, stopped : BOOLEAN, closing : BOOLEAN,
              age : 0 .. Cap]

Fresh == [phase |-> "new", status |-> "pending", begun |-> FALSE,
          stopped |-> FALSE, closing |-> FALSE, age |-> 0]

(* A closed connection has no tasks; a reaper that copied app.connections  *)
(* before may still read its status and age.                               *)
Closed(r) == [Fresh EXCEPT !.phase = "closed", !.status = r.status, !.age = r.age]

Open == {c \in Conn : conn[c].phase = "open"}

Init ==
    /\ conn = [c \in Conn |-> Fresh]
    /\ counter = 0 /\ working = TRUE
    /\ reaper = "asleep" /\ todo = {} /\ target = NoConn
    /\ blocker = NoConn
    /\ process = "up" /\ shutdown = "none" /\ left = StopTimeout /\ slept = TRUE

-----------------------------------------------------------------------------
(* The event loop. *)

LoopRuns == process = "up" /\ blocker = NoConn

Become(c, r) ==
    /\ conn' = [conn EXCEPT ![c] = r]
    /\ UNCHANGED <<watch, blocker, exit>>

(* connection_made.  A worker that stops has closed its socket. *)
Accept(c) ==
    /\ LoopRuns /\ shutdown = "none" /\ conn[c].phase = "new"
    /\ Become(c, [Fresh EXCEPT !.phase = "open"])

(* A client waits for the response before it sends more. *)
DataReceived(c) ==
    /\ LoopRuns /\ c \in Open /\ conn[c].status # "processing"
    /\ Become(c, [conn[c] EXCEPT !.status = "receiving"])

OnHeadersComplete(c) ==
    /\ LoopRuns /\ c \in Open /\ conn[c].status = "receiving" /\ ~conn[c].begun
    /\ Become(c, [conn[c] EXCEPT !.begun = TRUE, !.age = 0])

OnMessageComplete(c) ==
    /\ LoopRuns /\ c \in Open /\ conn[c].status = "receiving" /\ conn[c].begun
    /\ Become(c, [conn[c] EXCEPT !.status = "processing"])

AfterResponse(c) ==
    /\ LoopRuns /\ c \in Open /\ conn[c].begun
    /\ \E keep_alive \in BOOLEAN :
           LET r == [conn[c] EXCEPT !.status = "pending", !.begun = FALSE] IN
           Become(c, IF keep_alive
                     THEN [r EXCEPT !.closing = r.closing \/ r.stopped]
                     ELSE Closed(r))

ScheduledClose(c) ==
    /\ LoopRuns /\ conn[c].closing
    /\ Become(c, Closed(conn[c]))

ConnectionLost(c) ==
    /\ LoopRuns /\ c \in Open
    /\ Become(c, Closed(conn[c]))

(* A handler that does not await: nothing else runs on the loop. *)
Block(c) ==
    /\ LoopRuns /\ c \in Blocking /\ c \in Open /\ conn[c].begun
    /\ blocker' = c
    /\ UNCHANGED <<conn, watch, exit>>

Unblock ==
    /\ process = "up" /\ blocker # NoConn
    /\ blocker' = NoConn
    /\ UNCHANGED <<conn, watch, exit>>

-----------------------------------------------------------------------------
(* Mutant: stop() does not look at the status. *)
StopAnyway(r) ==
    IF r.phase = "open" THEN Closed(r) ELSE r

(* Mutant: a connection that is busy is not told of the stop. *)
StopIdleOnly(r) ==
    IF r.phase = "open" /\ r.status = "pending" THEN Closed(r) ELSE r

(* stop() of a connection in state r. *)
Stop(r) ==
    IF r.phase # "open" THEN r
    ELSE IF r.status = "pending" THEN Closed(r)
    ELSE [r EXCEPT !.stopped = TRUE]

(* The reaper thread. *)

(* What a pass looks for, when the counter is n. *)
IdlePass(n) == n % KeepAlive = 0
StuckPass(n) == n % WorkerTimeout = 0

(* The next second: a new pass, unless has_to_work was reset.  Nothing     *)
(* reads the ages after that.                                              *)
Tick ==
    /\ process = "up" /\ reaper = "asleep"
    /\ slept' = TRUE
    /\ IF working
       THEN /\ conn' = [c \in Conn |-> IF c \in Open /\ conn[c].age < Cap
                                       THEN [conn[c] EXCEPT !.age = @ + 1]
                                       ELSE conn[c]]
            /\ counter' = (counter + 1) % Period
            /\ reaper' = IF IdlePass(counter') THEN "idle"
                         ELSE IF StuckPass(counter') THEN "stuck" ELSE "asleep"
            /\ todo' = IF reaper' = "asleep" THEN {} ELSE Open
       ELSE UNCHANGED <<conn, counter, reaper, todo>>
    /\ UNCHANGED <<working, target, blocker, process, shutdown, left>>

(* Mutant: nothing is idle for longer than the cap on ages. *)
LookIdleNever(c) ==
    /\ process = "up" /\ reaper = "idle" /\ target = NoConn /\ c \in todo
    /\ todo' = todo \ {c}
    /\ UNCHANGED <<conn, counter, working, reaper, target, blocker, exit>>

LookIdle(c) ==
    /\ process = "up" /\ reaper = "idle" /\ target = NoConn /\ c \in todo
    /\ todo' = todo \ {c}
    /\ target' = IF conn[c].status = "pending" /\ conn[c].age > KeepAlive
                 THEN c ELSE NoConn
    /\ UNCHANGED <<conn, counter, working, reaper, blocker, exit>>

StopIdle ==
    /\ process = "up" /\ target # NoConn
    /\ conn' = [conn EXCEPT ![target] = Stop(@)]
    /\ target' = NoConn
    /\ UNCHANGED <<counter, working, reaper, todo, blocker, exit>>

IdleDone ==
    /\ process = "up" /\ reaper = "idle" /\ todo = {} /\ target = NoConn
    /\ reaper' = IF StuckPass(counter) THEN "stuck" ELSE "asleep"
    /\ todo' = IF StuckPass(counter) THEN Open ELSE {}
    /\ UNCHANGED <<conn, counter, working, target, blocker, exit>>

(* ConnectionStatus.PROCESSING_REQUEST is 2, which is RECEIVING_STATUS of  *)
(* the connection.                                                         *)
LookStuck(c) ==
    /\ process = "up" /\ reaper = "stuck" /\ c \in todo
    /\ todo' = todo \ {c}
    /\ process' = IF conn[c].status = "receiving" /\ conn[c].age >= WorkerTimeout
                  THEN "killed" ELSE "up"
    /\ UNCHANGED <<conn, counter, working, reaper, target, blocker, shutdown,
                   left, slept>>

StuckDone ==
    /\ process = "up" /\ reaper = "stuck" /\ todo = {}
    /\ reaper' = "asleep"
    /\ UNCHANGED <<conn, counter, working, todo, target, blocker, exit>>

-----------------------------------------------------------------------------
(* SIGTERM, and the stop_server task. *)

(* handle_kill_signal: the socket is closed, the task created.             *)
Sigterm ==
    /\ LoopRuns /\ shutdown = "none"
    /\ shutdown' = "asked"
    /\ UNCHANGED <<conn, watch, blocker, process, left, slept>>

StopReaper ==
    /\ LoopRuns /\ shutdown = "asked"
    /\ shutdown' = "hooks"
    /\ working' = FALSE
    /\ UNCHANGED <<conn, counter, reaper, todo, target, blocker, process,
                   left, slept>>

(* The BEFORE_SERVER_STOP hooks are over: all connections are stopped. *)
StopConnections ==
    /\ LoopRuns /\ shutdown = "hooks"
    /\ conn' = [c \in Conn |-> Stop(conn[c])]
    /\ shutdown' = "waiting"
    /\ UNCHANGED <<watch, blocker, process, left, slept>>

(* Mutant: the timeout is counted down but not looked at. *)
WaitClosedUntimed ==
    /\ LoopRuns /\ shutdown = "waiting" /\ slept
    /\ IF Open = {}
       THEN process' = "stopped" /\ UNCHANGED <<left, slept>>
       ELSE left' = left - 1 /\ slept' = FALSE /\ UNCHANGED process
    /\ UNCHANGED <<conn, watch, blocker, shutdown>>

(* Mutant: the wait has no end. *)
WaitClosedForever ==
    /\ LoopRuns /\ shutdown = "waiting" /\ slept
    /\ process' = IF Open = {} THEN "stopped" ELSE "up"
    /\ slept' = FALSE
    /\ UNCHANGED <<conn, watch, blocker, shutdown, left>>

WaitClosed ==
    /\ LoopRuns /\ shutdown = "waiting" /\ slept
    /\ IF left = 0 \/ Open = {}
       THEN process' = "stopped" /\ UNCHANGED <<left, slept>>
       ELSE left' = left - 1 /\ slept' = FALSE /\ UNCHANGED process
    /\ UNCHANGED <<conn, watch, blocker, shutdown>>

-----------------------------------------------------------------------------
Serve(c) == Accept(c) \/ DataReceived(c) \/ OnHeadersComplete(c)
                \/ OnMessageComplete(c) \/ AfterResponse(c)
                \/ ScheduledClose(c) \/ ConnectionLost(c)

Look == StopIdle \/ IdleDone \/ StuckDone \/ \E c \in Conn : LookIdle(c) \/ LookStuck(c)

StopServer == StopReaper \/ StopConnections \/ WaitClosed

Next ==
    \/ \E c \in Conn : Serve(c) \/ Block(c)
    \/ Unblock
    \/ Tick \/ Look
    \/ Sigterm \/ StopServer

(* Time passes, and the threads run.  The loop runs its ready tasks in     *)
(* turn, so it gets to a task even if handlers block it in between.        *)
Fairness ==
    /\ WF_vars(Tick) /\ WF_vars(Look)
    /\ SF_vars(StopServer)

Spec == Init /\ [][Next]_vars /\ Fairness

(* Handlers that block return. *)
ReturningSpec == Spec /\ SF_vars(Unblock)

-----------------------------------------------------------------------------
(* The type of the state of the worker. *)
TypeOK ==
    /\ conn \in [Conn -> ConnState]
    /\ counter \in 0 .. Period - 1
    /\ working \in BOOLEAN
    /\ reaper \in {"asleep", "idle", "stuck"}
    /\ todo \subseteq Conn
    /\ target \in Conn \cup {NoConn}
    /\ blocker \in Conn \cup {NoConn}
    /\ process \in {"up", "killed", "stopped"}
    /\ shutdown \in {"none", "asked", "hooks", "waiting"}
    /\ left \in 0 .. StopTimeout
    /\ slept \in BOOLEAN

(* What a handler that runs can be told by; it makes RequestsSpared true.  *)
Busy == \A c \in Conn : conn[c].begun => conn[c].status # "pending"

(* Neither the reaper nor stop_server closes a connection whose request is *)
(* being handled, although a request may begin after the reaper found the  *)
(* connection idle and before it stops it.                                 *)
RequestsSpared ==
    [][StopIdle \/ StopConnections
           => \A c \in Open : conn[c].begun => c \in Open']_vars

(* What stop_server waits for is work and never an idle client: every      *)
(* connection that is still open was asked to stop (handler.py:65), and    *)
(* one that is answered meanwhile goes by its scheduled_close instead of   *)
(* being kept alive (cprotocol.pyx:102-103), whatever stop() the reaper    *)
(* called before and whatever is still received behind the answer.         *)
Leaving(r) == r.stopped /\ (r.status = "pending" => r.closing)

StopHeeded == shutdown = "waiting" => \A c \in Open : Leaving(conn[c])

IInv == TypeOK /\ Busy /\ StopHeeded

(* A connection that stays idle is closed, by the reaper or by the stop.   *)
IdleReaped ==
    \A c \in Conn :
        c \in Open /\ conn[c].status = "pending"
            ~> c \notin Open \/ conn[c].status # "pending" \/ process # "up"

(* After SIGTERM the worker comes to an end, whatever its clients do.   *)
StopEnds == shutdown # "none" ~> process # "up"

(* A worker whose loop is blocked for good by the handler of a request is  *)
(* killed: "In case the worker is stuck for some crazy reason (sync calls, *)
(* expensive CPU ops) we gonna kill it" (workers/reaper.py).               *)
StuckKilled == working /\ blocker # NoConn ~> blocker = NoConn \/ process # "up"
=============================================================================
