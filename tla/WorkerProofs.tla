---------------------------- MODULE WorkerProofs ----------------------------
(***************************************************************************)
(* The worker keeps its types, spares the requests that are being handled  *)
(* and waits for nobody idle, for any number of connections and timeouts.  *)
(***************************************************************************)
EXTENDS Worker, TLAPS

(* The bounds of ages and of the counter are natural numbers. *)
LEMMA Bounds ==
    /\ Cap \in Nat /\ 0 \in 0 .. Cap
    /\ Period \in Nat \ {0}
<1>1. Cap \in Nat
  BY LimitsAssumption DEF Cap
<1>2. Period \in Nat \ {0}
  BY LimitsAssumption DEF Period
<1> QED
  BY <1>1, <1>2

(* What close() and stop() make of a connection is the state of one, and   *)
(* leaves no handler running on a connection that is pending; one that is  *)
(* still open after stop() is about to leave.                              *)
Heeds(r) == r.phase = "open" => Leaving(r)

LEMMA StopProperties ==
    ASSUME NEW r \in ConnState
    PROVE  /\ Fresh \in ConnState /\ ~Fresh.begun
           /\ Closed(r) \in ConnState /\ ~Closed(r).begun
           /\ Stop(r) \in ConnState
           /\ (r.begun => r.status # "pending")
                  => (Stop(r).begun => Stop(r).status # "pending")
           /\ Heeds(Closed(r)) /\ Heeds(Stop(r))
<1>1. Fresh \in ConnState /\ ~Fresh.begun
  BY Bounds DEF Fresh, ConnState
<1>2. Closed(r) \in ConnState /\ ~Closed(r).begun
  BY Bounds DEF Closed, Fresh, ConnState
<1>3. Stop(r) \in {r, Closed(r), [r EXCEPT !.stopped = TRUE]}
  BY DEF Stop
<1>4. [r EXCEPT !.stopped = TRUE] \in ConnState
  BY DEF ConnState
<1>5. [r EXCEPT !.stopped = TRUE].begun = r.begun
      /\ [r EXCEPT !.stopped = TRUE].status = r.status
  BY DEF ConnState
<1>6. Heeds(Closed(r))
  BY DEF Heeds, Closed, Fresh
<1>7. Heeds(Stop(r))
  <2>1. CASE r.phase # "open"
    BY <2>1 DEF Stop, Heeds
  <2>2. CASE r.phase = "open" /\ r.status = "pending"
    BY <1>6, <2>2 DEF Stop
  <2>3. CASE r.phase = "open" /\ r.status # "pending"
    <3>1. /\ Stop(r) = [r EXCEPT !.stopped = TRUE]
          /\ [r EXCEPT !.stopped = TRUE].stopped
      BY <2>3 DEF Stop, ConnState
    <3> QED
      BY <1>5, <2>3, <3>1 DEF Heeds, Leaving
  <2> QED
    BY <2>1, <2>2, <2>3
<1> QED
  BY <1>1, <1>2, <1>3, <1>4, <1>5, <1>6, <1>7

(* The invariant holds in a worker that has just started. *)
LEMMA InitInvariant == Init => IInv
<1> SUFFICES ASSUME Init PROVE IInv
  OBVIOUS
<1>1. Fresh \in ConnState /\ ~Fresh.begun
  BY Bounds DEF Fresh, ConnState
<1>2. TypeOK
  BY <1>1, Bounds, LimitsAssumption DEF Init, TypeOK
<1>3. Busy
  BY <1>1 DEF Init, Busy
<1> QED
  BY <1>2, <1>3 DEF IInv, Init, StopHeeded

(* A step of the event loop gives one connection a new state, in which a   *)
(* handler only runs if the connection is not pending.                     *)
LEMMA BecomeInvariant ==
    ASSUME IInv, process = "up", NEW c \in Conn, NEW r \in ConnState,
           r.begun => r.status # "pending", shutdown = "waiting" => Heeds(r), Become(c, r)
    PROVE  IInv'
<1>1. conn' = [conn EXCEPT ![c] = r] /\ UNCHANGED <<watch, blocker, exit>>
  BY DEF Become
<1>2. TypeOK'
  BY <1>1 DEF IInv, TypeOK, watch, exit
<1>3. Busy'
  BY <1>1 DEF IInv, TypeOK, Busy
<1>4. StopHeeded'
  BY <1>1 DEF IInv, TypeOK, StopHeeded, Heeds, Open, exit
<1> QED
  BY <1>2, <1>3, <1>4 DEF IInv

(* Whatever the clients and the handlers of a connection do, the invariant *)
(* is kept.                                                                *)
LEMMA ServeInvariant ==
    ASSUME IInv, NEW c \in Conn, Serve(c)
    PROVE  IInv'
<1> DEFINE old == conn[c]
<1>1. /\ old \in ConnState /\ (old.begun => old.status # "pending")
      /\ shutdown = "waiting" => Heeds(old)
  BY DEF IInv, TypeOK, Busy, StopHeeded, Heeds, Open
<1>2. /\ Fresh \in ConnState /\ ~Fresh.begun
      /\ Closed(old) \in ConnState /\ ~Closed(old).begun /\ Heeds(Closed(old))
  BY <1>1, StopProperties
<1> HIDE DEF old
<1>3. CASE Accept(c)
  <2> DEFINE r == [Fresh EXCEPT !.phase = "open"]
  <2>1. r \in ConnState /\ ~r.begun
    BY <1>2 DEF ConnState
  <2>2. process = "up" /\ Become(c, r) /\ shutdown = "none"
    BY <1>3 DEF Accept, LoopRuns
  <2> QED
    BY <2>1, <2>2, BecomeInvariant
<1>4. CASE DataReceived(c)
  <2> DEFINE r == [old EXCEPT !.status = "receiving"]
  <2>1. /\ r \in ConnState /\ r.status = "receiving"
        /\ r.phase = old.phase /\ r.stopped = old.stopped
    BY <1>1 DEF ConnState
  <2>3. shutdown = "waiting" => Heeds(r)
    <3> HIDE DEF r
    <3> QED
      BY <1>1, <2>1 DEF Heeds, Leaving
  <2>2. process = "up" /\ Become(c, r)
    BY <1>4 DEF DataReceived, LoopRuns, old
  <2> QED
    BY <2>1, <2>2, <2>3, BecomeInvariant
<1>5. CASE OnHeadersComplete(c)
  <2> DEFINE r == [old EXCEPT !.begun = TRUE, !.age = 0]
  <2>1. old.status = "receiving"
    BY <1>5 DEF OnHeadersComplete, old
  <2>2. /\ r \in ConnState /\ r.status = "receiving"
        /\ r.phase = old.phase /\ r.stopped = old.stopped
    BY <1>1, <2>1, Bounds DEF ConnState
  <2>4. shutdown = "waiting" => Heeds(r)
    <3> HIDE DEF r
    <3> QED
      BY <1>1, <2>2 DEF Heeds, Leaving
  <2>3. process = "up" /\ Become(c, r)
    BY <1>5 DEF OnHeadersComplete, LoopRuns, old
  <2> QED
    BY <2>2, <2>3, <2>4, BecomeInvariant
<1>6. CASE OnMessageComplete(c)
  <2> DEFINE r == [old EXCEPT !.status = "processing"]
  <2>1. /\ r \in ConnState /\ r.status = "processing"
        /\ r.phase = old.phase /\ r.stopped = old.stopped
    BY <1>1 DEF ConnState
  <2>3. shutdown = "waiting" => Heeds(r)
    <3> HIDE DEF r
    <3> QED
      BY <1>1, <2>1 DEF Heeds, Leaving
  <2>2. process = "up" /\ Become(c, r)
    BY <1>6 DEF OnMessageComplete, LoopRuns, old
  <2> QED
    BY <2>1, <2>2, <2>3, BecomeInvariant
<1>7. CASE AfterResponse(c)
  <2> DEFINE s == [old EXCEPT !.status = "pending", !.begun = FALSE]
  <2>1. /\ s \in ConnState /\ ~s.begun
        /\ s.phase = old.phase /\ s.stopped = old.stopped
    BY <1>1 DEF ConnState
  <2> DEFINE kept == [s EXCEPT !.closing = s.closing \/ s.stopped]
  <2>2. /\ kept \in ConnState /\ ~kept.begun /\ kept.phase = s.phase
        /\ kept.stopped = s.stopped /\ (s.stopped => kept.closing)
    <3> HIDE DEF s
    <3> QED
      BY <2>1 DEF ConnState
  <2>3. Closed(s) \in ConnState /\ ~Closed(s).begun /\ Heeds(Closed(s))
    BY <2>1, StopProperties
  <2>5. shutdown = "waiting" => Heeds(kept)
    <3> HIDE DEF s, kept
    <3> QED
      BY <1>1, <2>1, <2>2 DEF Heeds, Leaving
  <2>4. process = "up" /\ (Become(c, kept) \/ Become(c, Closed(s)))
    BY <1>7 DEF AfterResponse, LoopRuns, old
  <2> QED
    BY <2>2, <2>3, <2>4, <2>5, BecomeInvariant
<1>8. CASE ScheduledClose(c) \/ ConnectionLost(c)
  <2>1. process = "up" /\ Become(c, Closed(old))
    BY <1>8 DEF ScheduledClose, ConnectionLost, LoopRuns, old
  <2> QED
    BY <2>1, <1>2, BecomeInvariant
<1> QED
  BY <1>3, <1>4, <1>5, <1>6, <1>7, <1>8 DEF Serve

(* A handler that blocks the loop, or unblocks it, changes nothing else. *)
LEMMA BlockInvariant ==
    ASSUME IInv, NEW c \in Conn, Block(c) \/ Unblock
    PROVE  IInv'
<1>1. TypeOK'
  BY DEF IInv, TypeOK, Block, Unblock, watch, exit
<1>2. Busy'
  BY DEF IInv, Busy, Block, Unblock
<1>3. StopHeeded'
  BY DEF IInv, StopHeeded, Block, Unblock, exit, Open
<1> QED
  BY <1>1, <1>2, <1>3 DEF IInv

(* A second passes: connections age, and the reaper may begin a pass. *)
LEMMA TickInvariant ==
    ASSUME IInv, Tick
    PROVE  IInv'
<1> DEFINE aged(r) == [r EXCEPT !.age = @ + 1]
<1>1. \A c \in Conn : conn[c].age < Cap =>
          /\ aged(conn[c]) \in ConnState /\ aged(conn[c]).begun = conn[c].begun
          /\ aged(conn[c]).status = conn[c].status /\ aged(conn[c]).phase = conn[c].phase
          /\ aged(conn[c]).stopped = conn[c].stopped
          /\ aged(conn[c]).closing = conn[c].closing
  BY Bounds DEF IInv, TypeOK, ConnState
<1>2. /\ conn' \in [Conn -> ConnState]
      /\ \A c \in Conn :
            /\ conn'[c].begun = conn[c].begun /\ conn'[c].status = conn[c].status
            /\ conn'[c].phase = conn[c].phase /\ conn'[c].stopped = conn[c].stopped
            /\ conn'[c].closing = conn[c].closing
  <2>1. CASE conn' = conn
    BY <2>1 DEF IInv, TypeOK
  <2>2. CASE conn' = [c \in Conn |-> IF c \in Open /\ conn[c].age < Cap
                                    THEN aged(conn[c]) ELSE conn[c]]
    <3> HIDE DEF aged
    <3> QED
      BY <1>1, <2>2 DEF IInv, TypeOK
  <2> QED
    BY <2>1, <2>2 DEF Tick
<1>3. counter' \in 0 .. Period - 1
  <2>1. (counter + 1) % Period \in 0 .. Period - 1
    <3>1. counter + 1 \in Nat
      BY Bounds DEF IInv, TypeOK
    <3> QED
      BY <3>1, Bounds
  <2> QED
    BY <2>1 DEF Tick, IInv, TypeOK
<1>4. reaper' \in {"asleep", "idle", "stuck"} /\ todo' \subseteq Conn
  BY DEF Tick, IInv, TypeOK, Open
<1>5. TypeOK'
  BY <1>2, <1>3, <1>4 DEF Tick, IInv, TypeOK
<1>6. Busy'
  BY <1>2 DEF IInv, Busy
<1>7. StopHeeded'
  BY <1>2 DEF Tick, IInv, StopHeeded, Leaving, Open
<1> QED
  BY <1>5, <1>6, <1>7 DEF IInv

(* The reaper looks at connections and stops the idle ones. *)
LEMMA LookInvariant ==
    ASSUME IInv, Look
    PROVE  IInv'
<1>1. ASSUME NEW c \in Conn, LookIdle(c) PROVE IInv'
  BY <1>1 DEF LookIdle, IInv, TypeOK, Busy, StopHeeded, Open, exit
<1>2. ASSUME NEW c \in Conn, LookStuck(c) PROVE IInv'
  BY <1>2 DEF LookStuck, IInv, TypeOK, Busy, StopHeeded, Open
<1>3. CASE IdleDone \/ StuckDone
  BY <1>3 DEF IdleDone, StuckDone, IInv, TypeOK, Busy, StopHeeded, Open, exit
<1>4. CASE StopIdle
  <2>1. target \in Conn /\ conn[target] \in ConnState
    BY <1>4 DEF StopIdle, IInv, TypeOK
  <2>2. conn' = [conn EXCEPT ![target] = Stop(conn[target])]
    BY <1>4 DEF StopIdle
  <2>3. /\ Stop(conn[target]) \in ConnState
        /\ Stop(conn[target]).begun => Stop(conn[target]).status # "pending"
        /\ Heeds(Stop(conn[target]))
    BY <2>1, StopProperties DEF IInv, Busy
  <2>4. TypeOK'
    BY <1>4, <2>1, <2>2, <2>3 DEF StopIdle, IInv, TypeOK, exit
  <2>5. Busy'
    BY <2>1, <2>2, <2>3 DEF IInv, TypeOK, Busy
  <2>6. StopHeeded'
    BY <1>4, <2>1, <2>2, <2>3 DEF StopIdle, IInv, TypeOK, StopHeeded, Heeds, Open, exit
  <2> QED
    BY <2>4, <2>5, <2>6 DEF IInv
<1> QED
  BY <1>1, <1>2, <1>3, <1>4 DEF Look

(* SIGTERM and what stop_server does keep the invariant. *)
LEMMA ShutdownInvariant ==
    ASSUME IInv, Sigterm \/ StopServer
    PROVE  IInv'
<1>1. CASE Sigterm \/ StopReaper
  BY <1>1 DEF Sigterm, StopReaper, watch, LoopRuns, IInv, TypeOK, Busy, StopHeeded, Open
<1>2. CASE StopConnections
  <2>1. ASSUME NEW c \in Conn
        PROVE  /\ conn'[c] \in ConnState
               /\ conn'[c].begun => conn'[c].status # "pending"
               /\ Heeds(conn'[c])
    <3>1. conn[c] \in ConnState /\ (conn[c].begun => conn[c].status # "pending")
      BY DEF IInv, TypeOK, Busy
    <3>2. conn'[c] = Stop(conn[c])
      BY <1>2 DEF StopConnections
    <3> QED
      BY <3>1, <3>2, StopProperties
  <2>2. conn' = [c \in Conn |-> conn'[c]]
    BY <1>2 DEF StopConnections
  <2>3. TypeOK'
    <3>1. conn' \in [Conn -> ConnState]
      BY <2>1, <2>2
    <3> QED
      BY <1>2, <3>1 DEF StopConnections, IInv, TypeOK, watch
  <2>4. Busy'
    BY <2>1 DEF Busy
  <2>5. StopHeeded'
    BY <2>1 DEF StopHeeded, Heeds, Open
  <2> QED
    BY <2>3, <2>4, <2>5 DEF IInv
<1>3. CASE WaitClosed
  <2>1. process' \in {"up", "killed", "stopped"} /\ slept' \in BOOLEAN
        /\ left' \in 0 .. StopTimeout
    <3>1. StopTimeout \in Nat /\ left \in 0 .. StopTimeout
      BY LimitsAssumption DEF IInv, TypeOK
    <3>2. CASE left = 0 \/ Open = {}
      BY <1>3, <3>1, <3>2 DEF WaitClosed, IInv, TypeOK
    <3>3. CASE ~(left = 0 \/ Open = {})
      <4>1. left' = left - 1 /\ slept' = FALSE /\ process' = process
        BY <1>3, <3>3 DEF WaitClosed
      <4> QED
        <5>1. left' \in 0 .. StopTimeout
          BY <4>1, <3>1, <3>3
        <5> QED
          BY <4>1, <5>1 DEF IInv, TypeOK
    <3> QED
      BY <3>2, <3>3
  <2>5. TypeOK'
    BY <1>3, <2>1 DEF WaitClosed, IInv, TypeOK, watch
  <2>2. Busy'
    BY <1>3 DEF WaitClosed, IInv, Busy
  <2>3. StopHeeded'
    BY <1>3 DEF WaitClosed, LoopRuns, IInv, StopHeeded, Open
  <2> QED
    BY <2>5, <2>2, <2>3 DEF IInv
<1> QED
  BY <1>1, <1>2, <1>3 DEF StopServer

(* Every step of the worker keeps the invariant. *)
LEMMA NextInvariant == IInv /\ [Next]_vars => IInv'
<1> SUFFICES ASSUME IInv, [Next]_vars PROVE IInv'
  OBVIOUS
<1>1. ASSUME NEW c \in Conn, Serve(c) PROVE IInv'
  BY <1>1, ServeInvariant
<1>2. ASSUME NEW c \in Conn, Block(c) PROVE IInv'
  BY <1>2, BlockInvariant
<1>3. CASE Unblock
  <2>1. PICK c \in Conn : blocker = c
    BY <1>3 DEF Unblock, IInv, TypeOK
  <2> QED
    BY <1>3, <2>1, BlockInvariant
<1>4. CASE Tick
  BY <1>4, TickInvariant
<1>5. CASE Look
  BY <1>5, LookInvariant
<1>6. CASE Sigterm \/ StopServer
  BY <1>6, ShutdownInvariant
<1>7. CASE UNCHANGED vars
  BY <1>7 DEF vars, watch, exit, IInv, TypeOK, Busy, StopHeeded, Open
<1> QED
  BY <1>1, <1>2, <1>3, <1>4, <1>5, <1>6, <1>7 DEF Next

-----------------------------------------------------------------------------
(* The inductive invariant of the worker. *)
THEOREM Invariance == Spec => []IInv
<1>1. Init => IInv
  BY InitInvariant
<1>2. IInv /\ [Next]_vars => IInv'
  BY NextInvariant
<1> QED
  BY <1>1, <1>2, PTL DEF Spec

(* Every variable of the worker keeps its type. *)
THEOREM TypeCorrect == Spec => []TypeOK
<1>1. IInv => TypeOK
  BY DEF IInv
<1> QED
  BY <1>1, Invariance, PTL

(* Every connection that stop_server finds open while it waits is at work, *)
(* or about to close itself.                                               *)
THEOREM WaitsForWork == Spec => []StopHeeded
<1>1. IInv => StopHeeded
  BY DEF IInv
<1> QED
  BY <1>1, Invariance, PTL

(* No stop of the reaper or of stop_server closes a connection in the      *)
(* middle of a request, however the two threads interleave: stop() looks   *)
(* at the status once more, and a handler that runs keeps it from pending. *)
THEOREM RequestsAreSpared == Spec => RequestsSpared
<1>1. ASSUME IInv, StopIdle \/ StopConnections, NEW c \in Open, conn[c].begun
      PROVE  c \in Open'
  <2>1. c \in Conn /\ conn[c].phase = "open" /\ conn[c].status # "pending"
        /\ conn[c] \in ConnState
    BY <1>1 DEF Open, IInv, TypeOK, Busy
  <2>2. Stop(conn[c]).phase = "open"
    BY <2>1 DEF Stop, ConnState
  <2>3. conn'[c] \in {conn[c], Stop(conn[c])}
    BY <1>1, <2>1 DEF StopIdle, StopConnections, IInv, TypeOK
  <2> QED
    BY <2>1, <2>2, <2>3 DEF Open
<1>2. IInv => [StopIdle \/ StopConnections
                  => \A c \in Open : conn[c].begun => c \in Open']_vars
  BY <1>1
<1> QED
  BY <1>2, Invariance, PTL DEF Spec, RequestsSpared
=============================================================================
