---------------------------- MODULE ClientProofs ----------------------------
(***************************************************************************)
(* The client never shares a connection, loses none, posts once and keeps  *)
(* its rate: for any number of calls, hosts and connections, and any       *)
(* limit, budget and behaviour of the peers.                               *)
(***************************************************************************)
EXTENDS Client, SequenceTheorems, TLAPS

(* What makes Exclusive, NoSocketLost, PostedOnce and DoubledAtMost inductive. *)

(* A call has a connection where it uses one, and none where it waits for   *)
(* one.                                                                     *)
Connections ==
    \A r \in Calls : LET a == call[r] IN
       /\ a.pc \in {"idle", "start", "throttled", "connecting", "done"} => a.conn = None
       /\ a.pc \in {"checking", "head", "body", "held"} => a.conn # None

(* The connection of a response that is awaited is no other call's at all,  *)
(* the ones that have ended with it included.                               *)
Own ==
    \A r \in Calls : call[r].pc \in {"head", "body"} =>
      LET c == call[r].conn IN
      ~Pooled(c) /\ ~Leaving(c) /\ \A s \in Calls \ {r} : call[s].conn # c

(* An empty response that the user has not read gave its connection back    *)
(* with its head: if that is open, a pool or another call has it.           *)
GivenBack ==
    \A r \in Calls :
      LET c == call[r].conn IN
      /\ call[r].pc = "held" /\ call[r].kind = "empty"
      /\ transport[c] \in {"open", "eof"} /\ NoneLeft
      => \/ Pooled(c) \/ Leaving(c)
         \/ \E s \in Calls \ {r} : call[s].pc \in {"checking", "failed"} /\ call[s].conn = c

(* A call that has still to write its POST has written it for no more than  *)
(* the answers it repeats; and a POST is not repeated for a failure.        *)
Unsent(a) == a.leg = 0 => a.posted <= a.ask.statuses - a.again

Budgets ==
    \A r \in Calls : LET a == call[r] IN
      /\ a.again <= a.ask.statuses
      /\ a.ask.method = "POST" => a.net = 0
      /\ a.ask.method # "POST" => a.posted = 0
      /\ a.pc \in {"start", "throttled", "checking", "connecting"} => Unsent(a)

(* A lone call sleeps beyond the cycle.  While one runs, its first request  *)
(* is as old as the cycle, and no more than count are left of before it;    *)
(* when it is over, there is room for the call that slept.                  *)
Paced ==
    \A r \in Calls : Calls = {r} =>
      LET n == Len(recent)
          sleeps == call[r].pc = "throttled" IN
      /\ \A i, j \in 1 .. n : i <= j => recent[i] >= recent[j]
      /\ \A i \in 1 .. n : recent[i] < rate.period
      /\ sleeps => call[r].nap >= rate.ahead
      /\ rate.ahead = 0 => n <= rate.count /\ (sleeps => n < rate.count)
      /\ rate.ahead > 0 =>
           /\ rate.usage \in 1 .. rate.count
           /\ rate.usage <= n /\ n - rate.usage <= rate.count
           /\ recent[n - rate.usage + 1] = rate.period - rate.ahead

-----------------------------------------------------------------------------
(* An attempt within its budgets, with a connection where it uses one. *)
Good(a) ==
    /\ a \in Attempt
    /\ a.again <= a.ask.statuses
    /\ a.ask.method = "POST" => a.net = 0
    /\ a.ask.method # "POST" => a.posted = 0
    /\ a.posted <= 1 + (a.ask.statuses - a.again)
    /\ a.pc \in {"start", "throttled", "checking", "connecting"} => Unsent(a)
    /\ a.pc \in {"idle", "start", "throttled", "connecting", "done"} => a.conn = None
    /\ a.pc \in {"checking", "head", "body", "held"} => a.conn # None
Ended == {"idle", "done", "failed"}

LEMMA AskProperties ==
    ASSUME NEW ask \in Asks
    PROVE  ask.method \in {"GET", "POST"} /\ ask.url \in Hosts /\ ask.statuses \in Nat
BY AsksAssumption DEF Ask

(* The types of the parts of an attempt. *)
LEMMA Parts ==
    ASSUME NEW a \in Attempt
    PROVE  /\ a.ask \in Asks /\ a.ask.method \in {"GET", "POST"} /\ a.ask.url \in Hosts
           /\ a.ask.statuses \in Nat /\ a.url \in Hosts /\ a.host \in Hosts \cup {None}
           /\ a.to \in Hosts \cup {None} /\ a.conn \in Conns \cup {None}
           /\ a.leg \in 0 .. MaxRedirects /\ a.net \in 0 .. NetworkFailures /\ a.again \in Nat
           /\ a.posted \in Nat /\ a.nap \in Nat /\ a.kind \in Kinds /\ a.keep \in BOOLEAN
<1>1. a.ask \in Asks
  BY DEF Attempt
<1> QED
  BY <1>1, AskProperties DEF Attempt

(* A call begins within its budgets, and ends so. *)
LEMMA FreshProperties ==
    ASSUME NEW ask \in Asks
    PROVE  Good(Fresh(ask)) /\ Fresh(ask).conn = None /\ Fresh(ask).pc = "start"
<1> DEFINE f == Fresh(ask)
<1>1. /\ f = [pc |-> "start", ask |-> ask, url |-> ask.url, leg |-> 0,
              host |-> None, conn |-> None, net |-> Budget(ask), again |-> ask.statuses,
              kind |-> "sized", to |-> None, keep |-> FALSE, posted |-> 0, nap |-> 0]
      /\ Budget(ask) \in 0 .. NetworkFailures
      /\ ask.method = "POST" => Budget(ask) = 0
  BY BudgetAssumption, AskProperties DEF Fresh, Budget
<1>2. f \in Attempt
  BY <1>1, BudgetAssumption, AskProperties DEF Attempt, Kinds, Waits
<1> QED
  BY <1>1, <1>2, AskProperties DEF Good, Unsent

LEMMA BlankProperties ==
    ASSUME NEW pc \in Ended
    PROVE  Good(Blank(pc)) /\ Blank(pc).conn = None /\ Blank(pc).pc = pc
<1>1. PICK ask \in Asks : Blank(pc) = [Fresh(ask) EXCEPT !.pc = pc]
  BY AsksAssumption DEF Blank
<1>2. Good(Fresh(ask)) /\ Fresh(ask).conn = None
  BY FreshProperties
<1> QED
  BY <1>1, <1>2 DEF Good, Attempt, Ended, Unsent

LEMMA BeforeProperties ==
    ASSUME NEW asked \in Asks \cup {None}
    PROVE  /\ Good(Before(asked)) /\ Before(asked) \in Attempt
           /\ Before(asked).conn = None /\ Before(asked).pc \in {"idle", "done"}
<1>1. CASE asked = None
  BY <1>1, BlankProperties DEF Before, Ended, Good
<1>2. CASE asked \in Asks /\ asked # None
  <2>1. Good(Fresh(asked)) /\ Fresh(asked).conn = None
    BY <1>2, FreshProperties
  <2>2. Before(asked) = [Fresh(asked) EXCEPT !.pc = "idle"]
    BY <1>2 DEF Before
  <2> QED
    BY <2>1, <2>2 DEF Good, Attempt, Unsent
<1> QED
  BY <1>1, <1>2

LEMMA EndProperties ==
    ASSUME NEW a \in Attempt
    PROVE  /\ Good(Failed(a)) /\ Failed(a).conn = a.conn /\ Failed(a).pc = "failed"
           /\ a.conn # None => Good(Held(a))
           /\ Held(a).conn = a.conn /\ Held(a).pc = "held" /\ Held(a).kind = a.kind
<1>1. PICK ask \in Asks : Blank("held") = [Fresh(ask) EXCEPT !.pc = "held"]
  BY AsksAssumption DEF Blank
<1>2. /\ Good(Blank("failed")) /\ Blank("failed") \in Attempt /\ Blank("failed").pc = "failed"
      /\ Good(Fresh(ask)) /\ Fresh(ask) \in Attempt
  BY BlankProperties, FreshProperties DEF Ended, Good
<1>3. Failed(a) \in Attempt /\ Failed(a).conn = a.conn /\ Failed(a).pc = "failed"
  BY <1>2, Parts DEF Attempt, Failed
<1>4. Held(a) = [Fresh(ask) EXCEPT !.pc = "held", !.conn = a.conn, !.kind = a.kind, !.keep = a.keep]
  BY <1>1, <1>2 DEF Held, Attempt
<1>5. /\ Held(a) \in Attempt /\ Held(a).conn = a.conn /\ Held(a).pc = "held"
      /\ Held(a).kind = a.kind
  BY <1>2, <1>4, Parts DEF Attempt
<1>6. Good(Failed(a))
  BY <1>2, <1>3 DEF Good, Attempt, Failed
<1>7. a.conn # None => Good(Held(a))
  BY <1>2, <1>4, <1>5 DEF Good, Attempt
<1> QED
  BY <1>3, <1>5, <1>6, <1>7

(* What remains of the budgets when an attempt is repeated, for its status  *)
(* or for a failure; and a redirect posts no more.                          *)
LEMMA AgainProperties ==
    ASSUME NEW a, Good(a)
    PROVE  /\ a.again > 0 => LET b == Again([a EXCEPT !.again = @ - 1])
                             IN Good(b) /\ b.conn = None /\ b.pc = "start"
           /\ a.net > 0 => LET b == Again([a EXCEPT !.net = @ - 1])
                           IN Good(b) /\ b.conn = None /\ b.pc = "start"
<1>1. /\ a.ask \in Asks /\ a.ask.url \in Hosts /\ a.ask.statuses \in Nat
      /\ a.ask.method \in {"GET", "POST"} /\ a.again \in Nat /\ a.posted \in Nat
      /\ a.net \in 0 .. NetworkFailures
  BY AskProperties DEF Good, Attempt
<1>2. ASSUME a.again > 0
      PROVE  LET b == Again([a EXCEPT !.again = @ - 1])
             IN Good(b) /\ b.conn = None /\ b.pc = "start"
  <2> DEFINE b == Again([a EXCEPT !.again = @ - 1])
  <2>1. b \in Attempt
    <3> DEFINE m == [a EXCEPT !.again = @ - 1]
    <3>1. m \in Attempt /\ m.ask.url \in Hosts
      BY <1>1, <1>2 DEF Good, Attempt
    <3> HIDE DEF m
    <3>2. 0 \in 0 .. MaxRedirects /\ "sized" \in Kinds
      BY BudgetAssumption DEF Kinds
    <3>3. Again(m) \in Attempt
      BY <3>1, <3>2 DEF Attempt, Again
    <3> QED
      BY <3>3 DEF m
  <2>2. /\ b.ask = a.ask /\ b.again = a.again - 1 /\ b.net = a.net /\ b.posted = a.posted
        /\ b.pc = "start" /\ b.conn = None
    BY <1>2 DEF Good, Attempt, Again
  <2> QED
    BY <1>1, <2>1, <2>2 DEF Good, Unsent
<1>3. ASSUME a.net > 0
      PROVE  LET b == Again([a EXCEPT !.net = @ - 1])
             IN Good(b) /\ b.conn = None /\ b.pc = "start"
  <2> DEFINE b == Again([a EXCEPT !.net = @ - 1])
  <2>1. b \in Attempt
    <3> DEFINE m == [a EXCEPT !.net = @ - 1]
    <3>1. m \in Attempt /\ m.ask.url \in Hosts
      BY <1>1, <1>3, BudgetAssumption DEF Good, Attempt
    <3> HIDE DEF m
    <3>2. 0 \in 0 .. MaxRedirects /\ "sized" \in Kinds
      BY BudgetAssumption DEF Kinds
    <3>3. Again(m) \in Attempt
      BY <3>1, <3>2 DEF Attempt, Again
    <3> QED
      BY <3>3 DEF m
  <2>2. /\ b.ask = a.ask /\ b.again = a.again /\ b.net = a.net - 1 /\ b.posted = a.posted
        /\ b.pc = "start" /\ b.conn = None
    BY <1>3 DEF Good, Attempt, Again
  <2> QED
    BY <1>1, <1>3, <2>1, <2>2 DEF Good, Unsent
<1> QED
  BY <1>2, <1>3

LEMMA RedirectedProperties ==
    ASSUME NEW a, Good(a), a.to # None, ~TooManyRedirects(a)
    PROVE  /\ Redirected(a) \in Attempt /\ Redirected(a).pc = a.pc /\ Redirected(a).conn = a.conn
           /\ a.pc \in {"head", "body"} => Good(Redirected(a)) /\ Unsent(Redirected(a))
<1>1. a.leg \in 0 .. MaxRedirects /\ a.leg # MaxRedirects /\ a.to \in Hosts
  BY DEF Good, Attempt, TooManyRedirects
<1>2. Redirected(a) \in Attempt
  <2>1. a \in Attempt /\ a.leg + 1 \in 0 .. MaxRedirects
    BY <1>1, BudgetAssumption DEF Good
  <2> QED
    BY <1>1, <2>1 DEF Attempt, Redirected, Kinds
<1>3. LET b == Redirected(a)
      IN /\ b.ask = a.ask /\ b.again = a.again /\ b.net = a.net /\ b.posted = a.posted
         /\ b.pc = a.pc /\ b.conn = a.conn /\ b.leg = a.leg + 1
  BY DEF Good, Attempt, Redirected
<1> QED
  BY <1>1, <1>2, <1>3 DEF Good, Unsent

-----------------------------------------------------------------------------
(* The calls, the pools and the limit by themselves. *)
CallsGood == call \in [Calls -> Attempt] /\ \A r \in Calls : Good(call[r])

Shelves == /\ available \in [Hosts -> Seq(Conns)]
           /\ \A h \in Hosts : \A i \in DOMAIN available[h] : Pool(available[h][i]) = h

RateTyped == rate \in RateOf(SUBSET Hosts) /\ rate.ahead <= rate.period /\ recent \in Seq(Nat)

CallInv == TypeOK /\ Connections /\ Own /\ PostedOnce /\ Budgets

LEMMA CallInvGood == /\ CallInv <=> TypeOK /\ CallsGood /\ Own
                     /\ CallInv' <=> TypeOK' /\ CallsGood' /\ Own'
<1>1. TypeOK => (Connections /\ Budgets /\ PostedOnce <=> CallsGood)
  BY DEF TypeOK, Connections, Budgets, PostedOnce, CallsGood, Good
<1>2. TypeOK' => (Connections' /\ Budgets' /\ PostedOnce' <=> CallsGood')
  BY DEF TypeOK, Connections, Budgets, PostedOnce, CallsGood, Good
<1> QED
  BY <1>1, <1>2 DEF CallInv

LEMMA UpdateProperties ==
    ASSUME CallsGood, NEW r \in Calls, NEW b, Good(b), Update(r, b)
    PROVE  CallsGood' /\ call'[r] = b /\ \A s \in Calls \ {r} : call'[s] = call[s]
<1>1. b \in Attempt /\ call' = [call EXCEPT ![r] = b]
  BY DEF Good, Update
<1> QED
  BY <1>1 DEF CallsGood

(* A connection was taken from the shelf of a pool, or there was none. *)
Popped(b) ==
    \/ b.pc = "connecting" /\ b.conn = None /\ UNCHANGED available
    \/ /\ b.pc = "checking" /\ b.conn \in Conns /\ Pooled(b.conn) /\ Shelves'
       /\ \A c \in Conns : /\ Pooled(c)' => Pooled(c)
                           /\ Pooled(c) => Pooled(c)' \/ c = b.conn

LEMMA GetConnectionProperties ==
    ASSUME Shelves, NEW r \in Calls, NEW a, Good(a), Unsent(a), GetConnection(r, a)
    PROVE  \E b : Good(b) /\ Update(r, b) /\ Popped(b)
<1> DEFINE h == a.url
           idle == available[h]
           n == Len(idle)
<1>1. a \in Attempt /\ h \in Hosts
  BY Parts DEF Good
<1>2. idle \in Seq(Conns) /\ n \in Nat /\ DOMAIN idle = 1 .. n
      /\ idle \in [1 .. n -> Conns] /\ \A i \in 1 .. n : Pool(idle[i]) = h
  BY <1>1 DEF Shelves
<1>3. CASE n = 0 /\ Update(r, [a EXCEPT !.pc = "connecting", !.conn = None]) /\ UNCHANGED available
  <2> DEFINE b == [a EXCEPT !.pc = "connecting", !.conn = None]
  <2>1. b.pc = "connecting" /\ b.conn = None
    BY <1>1 DEF Attempt
  <2>2. Good(b)
    BY ZenonT(60), <1>1 DEF Good, Attempt, Unsent, Waits
  <2> QED
    BY <1>3, <2>1, <2>2 DEF Popped
<1>4. CASE /\ n > 0 /\ Update(r, [a EXCEPT !.pc = "checking", !.conn = idle[n]])
           /\ available' = [available EXCEPT ![h] = SubSeq(idle, 1, n - 1)]
  <2> DEFINE c == idle[n]
             b == [a EXCEPT !.pc = "checking", !.conn = c]
             rest == SubSeq(idle, 1, n - 1)
  <2>1. c \in Conns /\ c # None /\ Pool(c) = h
    BY <1>2, <1>4, NamesAssumption DEF Conns
  <2>2. b.pc = "checking" /\ b.conn = c /\ Pooled(c)
    BY <1>1, <1>2, <1>4, <2>1 DEF Attempt, Pooled
  <2>3. Good(b)
    <3> HIDE DEF c
    <3> QED
      BY <1>1, <2>1 DEF Good, Attempt, Unsent
  <2>4. /\ rest \in Seq(Conns) /\ DOMAIN rest = 1 .. n - 1
        /\ \A i \in 1 .. n - 1 : rest[i] = idle[i]
    <3>1. n - 1 \in Int /\ \A i \in 1 .. n - 1 : idle[i] \in Conns
      BY <1>2, <1>4
    <3>2. /\ rest \in Seq(Conns) /\ Len(rest) = IF 1 <= n - 1 THEN n - 1 - 1 + 1 ELSE 0
          /\ \A i \in 1 .. n - 1 - 1 + 1 : rest[i] = idle[1 + i - 1]
      BY <3>1, SubSeqProperties
    <3> HIDE DEF rest, idle
    <3> HIDE DEF n
    <3>3. n \in Nat /\ n > 0
      BY <1>2, <1>4
    <3>4. Len(rest) = n - 1
      BY <3>2, <3>3
    <3>5. \A i \in 1 .. n - 1 : rest[i] = idle[i]
      <4> SUFFICES ASSUME NEW i \in 1 .. n - 1 PROVE rest[i] = idle[i]
        OBVIOUS
      <4>1. i \in 1 .. n - 1 - 1 + 1 /\ 1 + i - 1 = i
        BY <3>3
      <4> QED
        BY <3>2, <4>1
    <3> QED
      BY <3>2, <3>4, <3>5
  <2> HIDE DEF rest
  <2>5. available'[h] = rest /\ \A g \in Hosts \ {h} : available'[g] = available[g]
    BY <1>1, <1>4 DEF Shelves, rest
  <2>6. available' \in [Hosts -> Seq(Conns)]
    BY <1>1, <1>4, <2>4 DEF Shelves, rest
  <2>7. \A g \in Hosts : \A i \in DOMAIN available'[g] : Pool(available'[g][i]) = g
    <3>1. \A i \in DOMAIN rest : Pool(rest[i]) = h
      BY <1>2, <2>4
    <3> HIDE DEF idle
    <3> QED
      BY <2>5, <3>1 DEF Shelves
  <2>8. ASSUME NEW d \in Conns
        PROVE  /\ Pooled(d)' => Pooled(d)
               /\ Pooled(d) => Pooled(d)' \/ d = c
    <3>1. Pool(d) \in Hosts
      BY DEF Conns, Pool
    <3>2. CASE Pool(d) = h
      <4>1. Pooled(d) <=> \E i \in 1 .. n : idle[i] = d
        BY <1>2, <3>2 DEF Pooled
      <4>2. Pooled(d)' <=> \E i \in 1 .. n - 1 : idle[i] = d
        BY <2>4, <2>5, <3>2 DEF Pooled
      <4>3. \A i \in 1 .. n : i \in 1 .. n - 1 \/ i = n
        BY <1>2
      <4> QED
        BY <1>2, <4>1, <4>2, <4>3
    <3>3. CASE Pool(d) # h
      BY <2>5, <3>1, <3>3 DEF Pooled
    <3> QED
      BY <3>2, <3>3
  <2> HIDE DEF idle, c
  <2>9. Popped(b)
    BY <2>1, <2>2, <2>6, <2>7, <2>8 DEF Popped, Shelves
  <2> QED
    BY <1>4, <2>3, <2>9 DEF c
<1> QED
  BY <1>3, <1>4 DEF GetConnection

(* A limit stays one whatever is counted. *)
LEMMA RateProperties ==
    ASSUME RateTyped
    PROVE  /\ \A s \in {Counted(rate), Woken(rate), Later(rate)} :
                s \in RateOf(SUBSET Hosts) /\ s.ahead <= s.period
           /\ Nap(rate) \in Nat
           /\ Append(recent, 0) \in Seq(Nat)
<1>1. /\ rate \in RateOf(SUBSET Hosts) /\ rate.ahead \in Nat /\ rate.period \in Nat \ {0}
      /\ rate.usage \in Nat /\ rate.ahead <= rate.period
  BY DEF RateTyped, RateOf
<1>2. Counted(rate) \in RateOf(SUBSET Hosts) /\ Counted(rate).ahead <= Counted(rate).period
  <2>1. CASE rate.ahead = 0
    <3>1. Counted(rate) = [rate EXCEPT !.ahead = rate.period, !.usage = 1]
      BY <2>1 DEF Counted
    <3>2. rate.period \in Nat /\ 1 \in Nat
      BY <1>1
    <3>3. Counted(rate) \in RateOf(SUBSET Hosts)
      BY <1>1, <3>1, <3>2 DEF RateOf
    <3>4. Counted(rate).ahead = rate.period /\ Counted(rate).period = rate.period
      BY <1>1, <3>1 DEF RateOf
    <3> QED
      BY <3>2, <3>3, <3>4
  <2>2. CASE rate.ahead # 0
    <3>1. Counted(rate) = [rate EXCEPT !.usage = rate.usage + 1]
      BY <2>2 DEF Counted
    <3>2. rate.usage + 1 \in Nat
      BY <1>1
    <3>3. Counted(rate) \in RateOf(SUBSET Hosts)
      BY <1>1, <3>1, <3>2 DEF RateOf
    <3>4. Counted(rate).ahead = rate.ahead /\ Counted(rate).period = rate.period
      BY <1>1, <3>1 DEF RateOf
    <3> QED
      BY <1>1, <3>3, <3>4
  <2> QED
    BY <2>1, <2>2
<1>3. Woken(rate) \in RateOf(SUBSET Hosts) /\ Woken(rate).ahead <= Woken(rate).period
  BY <1>1 DEF RateOf, Woken
<1>4. Later(rate) \in RateOf(SUBSET Hosts) /\ Later(rate).ahead <= Later(rate).period
  <2>1. Less(rate.ahead) \in Nat /\ Less(rate.ahead) <= rate.period
    BY <1>1 DEF Less
  <2> QED
    BY <1>1, <2>1 DEF RateOf, Later
<1>5. Nap(rate) \in Nat
  BY <1>1 DEF Nap
<1>6. Append(recent, 0) \in Seq(Nat)
  BY DEF RateTyped
<1> QED
  BY <1>2, <1>3, <1>4, <1>5, <1>6

(* A request that was asked for goes to a pool, or sleeps. *)
Asked(b) == Popped(b) \/ (b.pc = "throttled" /\ b.conn = None /\ UNCHANGED available)

LEMMA RequestProperties ==
    ASSUME Shelves, RateTyped, NEW r \in Calls, NEW a, Good(a), Unsent(a), Request(r, a)
    PROVE  RateTyped' /\ \E b : Good(b) /\ Update(r, b) /\ Asked(b)
<1>1. CASE GetConnection(r, a) /\ UNCHANGED limits
  BY <1>1, GetConnectionProperties DEF Asked, limits, RateTyped
<1>2. CASE /\ Update(r, [a EXCEPT !.pc = "throttled", !.conn = None, !.nap = Nap(rate)])
           /\ UNCHANGED <<available, limits>>
  <2> DEFINE b == [a EXCEPT !.pc = "throttled", !.conn = None, !.nap = Nap(rate)]
  <2>1. Nap(rate) \in Nat
    BY RateProperties
  <2>2. b.pc = "throttled" /\ b.conn = None /\ Good(b)
    BY <2>1 DEF Good, Attempt, Unsent
  <2> QED
    BY <1>2, <2>2 DEF Asked, limits, RateTyped
<1>3. CASE rate' = Counted(rate) /\ GoOn(r, a)
  <2>1. RateTyped'
    BY <1>3, RateProperties DEF GoOn, RateTyped
  <2>2. \E b : Good(b) /\ Update(r, b) /\ Popped(b)
    BY <1>3, GetConnectionProperties DEF GoOn
  <2> QED
    BY <2>1, <2>2 DEF Asked
<1> QED
  BY <1>1, <1>2, <1>3 DEF Request

(* A failure repeats the call or ends it, and a response that is returned   *)
(* to the session may repeat it.                                            *)
LEMMA NetworkErrorProperties ==
    ASSUME CallsGood, NEW r \in Calls, NetworkError(r)
    PROVE  \E b : /\ Good(b) /\ Update(r, b)
                  /\ \/ b.pc = "start" /\ b.conn = None
                     \/ b.pc = "failed" /\ b.conn = call[r].conn
<1>1. Good(call[r]) /\ call[r] \in Attempt
  BY DEF CallsGood, Good
<1>2. CASE call[r].net > 0
  BY <1>1, <1>2, AgainProperties DEF NetworkError
<1>3. CASE ~(call[r].net > 0)
  BY <1>1, <1>3, EndProperties DEF NetworkError
<1> QED
  BY <1>2, <1>3

LEMMA ReturnedProperties ==
    ASSUME NEW r \in Calls, NEW a, Good(a), NEW end, Good(end), Returned(r, a, end)
    PROVE  \E b : /\ Good(b) /\ Update(r, b)
                  /\ b = end \/ (a.again > 0 /\ b.pc = "start" /\ b.conn = None)
BY AgainProperties DEF Returned

LEMMA BodyReadProperties ==
    ASSUME Shelves, RateTyped, NEW r \in Calls, NEW a, Good(a), a.pc \in {"head", "body"},
           BodyRead(r, a)
    PROVE  /\ RateTyped'
           /\ \E b : /\ Good(b) /\ Update(r, b)
                     /\ \/ Asked(b)
                        \/ /\ b.pc \in {"start", "done", "failed"} /\ b.conn \in {None, a.conn}
                           /\ UNCHANGED available
<1>1. CASE Returned(r, a, Blank("done")) /\ UNCHANGED <<available, limits>>
  <2>1. Good(Blank("done")) /\ Blank("done").pc = "done" /\ Blank("done").conn = None
    BY BlankProperties DEF Ended
  <2>2. \E b : /\ Good(b) /\ Update(r, b)
               /\ b = Blank("done") \/ (b.pc = "start" /\ b.conn = None)
    BY <1>1, <2>1, ReturnedProperties
  <2> QED
    BY <1>1, <2>1, <2>2 DEF limits, RateTyped
<1>2. CASE Update(r, Failed(a)) /\ UNCHANGED <<available, limits>>
  BY <1>2, EndProperties DEF limits, RateTyped, Good
<1>3. CASE a.to # None /\ ~TooManyRedirects(a) /\ Request(r, Redirected(a))
  <2>1. Good(Redirected(a)) /\ Unsent(Redirected(a))
    BY <1>3, RedirectedProperties
  <2> QED
    BY <1>3, <2>1, RequestProperties
<1> QED
  BY <1>1, <1>2, <1>3 DEF BodyRead

(* The message of a call completes n times: as many tasks are created. *)
Task == [conn : Conns, keep : BOOLEAN]

LEMMA MessageCompleteProperties ==
    ASSUME releasing \in Seq(Task), NEW a \in Attempt, a.conn # None, NEW n \in Nat,
           MessageComplete(a, n)
    PROVE  /\ releasing' \in Seq(Task)
           /\ \A c \in Conns : Leaving(c)' <=> Leaving(c) \/ (n > 0 /\ c = a.conn)
<1> DEFINE task == [conn |-> a.conn, keep |-> a.keep]
           new == [i \in 1 .. n |-> task]
           m == Len(releasing)
<1>1. task \in Task /\ task.conn = a.conn
  BY Parts DEF Task
<1> HIDE DEF task
<1>2. new \in Seq(Task) /\ Len(new) = n /\ DOMAIN new = 1 .. n /\ \A i \in 1 .. n : new[i] = task
  BY <1>1
<1>3. releasing' = releasing \o new
  BY DEF MessageComplete, task
<1> HIDE DEF new
<1>4. /\ releasing' \in Seq(Task) /\ m \in Nat /\ DOMAIN releasing = 1 .. m
      /\ DOMAIN releasing' = 1 .. m + n
      /\ \A i \in 1 .. m + n : releasing'[i] = IF i <= m THEN releasing[i] ELSE new[i - m]
  BY <1>2, <1>3, ConcatProperties
<1>5. \A i \in 1 .. m + n : i > m => releasing'[i] = task
  <2> SUFFICES ASSUME NEW i \in 1 .. m + n, i > m PROVE releasing'[i] = task
    OBVIOUS
  <2>1. i - m \in 1 .. n
    BY <1>4
  <2>2. releasing'[i] = new[i - m]
    BY <1>4
  <2> QED
    BY <1>2, <2>1, <2>2
<1>6. ASSUME NEW c \in Conns
      PROVE  Leaving(c)' <=> Leaving(c) \/ (n > 0 /\ c = a.conn)
  <2>1. ASSUME Leaving(c) PROVE Leaving(c)'
    <3>1. PICK i \in 1 .. m : releasing[i].conn = c
      BY <1>4, <2>1 DEF Leaving
    <3>2. i \in 1 .. m + n /\ releasing'[i].conn = c
      BY <1>4, <3>1
    <3> QED
      BY <1>4, <3>2 DEF Leaving
  <2>2. ASSUME n > 0, c = a.conn PROVE Leaving(c)'
    <3>1. m + 1 \in 1 .. m + n /\ releasing'[m + 1].conn = c
      BY <1>1, <1>4, <1>5, <2>2
    <3> QED
      BY <1>4, <3>1 DEF Leaving
  <2>3. ASSUME Leaving(c)' PROVE Leaving(c) \/ (n > 0 /\ c = a.conn)
    <3>1. PICK i \in 1 .. m + n : releasing'[i].conn = c
      BY <1>4, <2>3 DEF Leaving
    <3>2. CASE i <= m
      BY <1>4, <3>1, <3>2 DEF Leaving
    <3>3. CASE i > m
      BY <1>1, <1>4, <1>5, <3>1, <3>3
    <3> QED
      BY <1>4, <3>1, <3>2, <3>3
  <2> QED
    BY <2>1, <2>2, <2>3
<1> QED
  BY <1>4, <1>6

-----------------------------------------------------------------------------
(* What a step of call r may do to the connections, when it opens none: it  *)
(* opens, pools and releases none but its own, and lets none go that is     *)
(* open and has no other place.                                             *)
Alive(c) == transport[c] \in {"open", "eof"}

Flow(r) ==
    LET a == call[r]
        b == call'[r]
    IN  /\ \A s \in Calls \ {r} : call'[s] = call[s]
        /\ b.conn \in {None, a.conn} \/ Pooled(b.conn)
        /\ b.pc \in {"head", "body"} => a.pc \in {"head", "body"} /\ b.conn = a.conn
        /\ \A c \in Conns :
              /\ b.pc = "held" /\ b.kind = "empty" /\ b.conn = c => Leaving(c)'
              /\ Alive(c)' => Alive(c) /\ (c \in connections => c \in connections')
              /\ Pooled(c)' => Pooled(c)
              /\ Pooled(c) => Pooled(c)' \/ (b.pc = "checking" /\ b.conn = c)
              /\ Leaving(c) => Leaving(c)'
              /\ Leaving(c)' => Leaving(c) \/ (c = a.conn /\ b.pc \notin {"head", "body"})
              /\ Alive(c)' /\ a.conn = c =>
                   \/ b.conn = c /\ (a.pc \in {"checking", "failed"} => b.pc = "failed")
                   \/ Leaving(c)'
                   \/ a.pc = "held" /\ a.kind = "empty"
                   \/ a.pc = "head" /\ a.ask.stream /\ a.again > 0

Typed == /\ CallsGood /\ Shelves /\ RateTyped
         /\ transport \in [Conns -> {"open", "eof", "reset", "closed"}]
         /\ connections \subseteq Conns /\ releasing \in Seq(Task) /\ closed \in BOOLEAN

LEMMA TypedIsTypeOK == /\ Typed <=> TypeOK /\ CallsGood
                       /\ Typed' <=> TypeOK' /\ CallsGood'
BY DEF Typed, TypeOK, CallsGood, Shelves, RateTyped, Task

(* Closing leaves nothing of a set of connections open, and changes no      *)
(* other.                                                                   *)
LEMMA ShutProperties ==
    ASSUME Typed, NEW cs, Shut(cs)
    PROVE  /\ transport' \in [Conns -> {"open", "eof", "reset", "closed"}]
           /\ \A c \in Conns : Alive(c)' => Alive(c) /\ c \notin cs
BY DEF Typed, Shut, Alive

LEMMA CallFlow ==
    ASSUME Typed, NEW r \in Calls, Call(r)
    PROVE  Typed' /\ Flow(r)
<1> DEFINE ask == call[r].ask
<1> HIDE DEF ask
<1>1. ask \in Asks /\ Update(r, Fresh(ask))
  BY Parts DEF Call, Typed, CallsGood, Good, ask
<1>2. Good(Fresh(ask)) /\ Fresh(ask).conn = None /\ Fresh(ask).pc = "start"
  BY <1>1, FreshProperties
<1>3. UNCHANGED <<transport, connections, available, releasing, closed, rate, recent>>
  BY DEF Call, sockets, limits
<1>4. CallsGood' /\ call'[r] = Fresh(ask) /\ \A s \in Calls \ {r} : call'[s] = call[s]
  BY <1>1, <1>2, UpdateProperties DEF Typed
<1>5. Typed'
  BY <1>3, <1>4 DEF Typed, Shelves, RateTyped
<1>6. call[r].conn = None
  BY DEF Call, At, Typed, CallsGood, Good
<1> QED
  BY <1>2, <1>3, <1>4, <1>5, <1>6, NamesAssumption DEF Flow, Alive, Pooled, Leaving, Conns

(* A call that has no connection, or one that is not open or stays with it, *)
(* asks a pool for one, or ends.                                            *)
LEMMA QuietFlow ==
    ASSUME Typed, RateTyped', NEW r \in Calls, NEW b, Good(b), Update(r, b),
           UNCHANGED <<transport, connections, releasing, closed>>,
           \/ Asked(b) /\ call[r].conn = None
           \/ /\ UNCHANGED available
              /\ \/ b.pc = "start" /\ b.conn = None /\ (call[r].conn # None => ~Alive(call[r].conn))
                 \/ b.pc = "failed" /\ b.conn = call[r].conn
    PROVE  Typed' /\ Flow(r)
<1>1. CallsGood' /\ call'[r] = b /\ \A s \in Calls \ {r} : call'[s] = call[s]
  BY UpdateProperties DEF Typed
<1>2. Shelves'
  BY DEF Asked, Popped, Typed, Shelves
<1>3. Typed'
  BY <1>1, <1>2 DEF Typed
<1>4. /\ b.pc \notin {"head", "body", "held"}
      /\ b.conn \in {None, call[r].conn} \/ Pooled(b.conn)
      /\ \A c \in Conns : /\ Pooled(c)' => Pooled(c)
                          /\ Pooled(c) => Pooled(c)' \/ (b.pc = "checking" /\ b.conn = c)
  <2>1. CASE Asked(b)
    BY <2>1 DEF Asked, Popped, Pooled
  <2>2. CASE UNCHANGED available /\ b.pc \in {"start", "failed"} /\ b.conn \in {None, call[r].conn}
    BY <2>2 DEF Pooled
  <2> QED
    BY <2>1, <2>2
<1>5. ASSUME NEW c \in Conns
      PROVE  /\ Alive(c)' <=> Alive(c)
             /\ Leaving(c)' <=> Leaving(c)
             /\ Alive(c)' /\ call[r].conn = c => b.conn = c /\ b.pc = "failed"
  BY NamesAssumption DEF Alive, Leaving, Conns
<1> QED
  BY <1>1, <1>3, <1>4, <1>5 DEF Flow

LEMMA BeginFlow ==
    ASSUME Typed, NEW r \in Calls, Begin(r) \/ Wake(r)
    PROVE  Typed' /\ Flow(r)
<1>1. /\ Good(call[r]) /\ Unsent(call[r]) /\ call[r].conn = None
      /\ UNCHANGED <<transport, connections, releasing, closed>>
  BY DEF Begin, Wake, At, sockets, Typed, CallsGood, Good
<1>2. RateTyped' /\ \E b : Good(b) /\ Update(r, b) /\ Asked(b)
  <2>1. CASE Begin(r)
    BY <1>1, <2>1, RequestProperties DEF Begin, Typed
  <2>2. CASE Wake(r)
    <3>1. rate' = Woken(rate) /\ recent' = Append(recent, 0) /\ GetConnection(r, call[r])
      BY <2>2 DEF Wake, GoOn
    <3>2. RateTyped'
      BY <3>1, RateProperties DEF Typed, RateTyped
    <3> QED
      BY <1>1, <3>1, <3>2, GetConnectionProperties DEF Typed, Asked
  <2> QED
    BY <2>1, <2>2
<1> QED
  BY <1>1, <1>2, QuietFlow

LEMMA FailFlow ==
    ASSUME Typed, NEW r \in Calls, NotConnected(r) \/ Lost(r) \/ Timeout(r)
    PROVE  Typed' /\ Flow(r)
<1>1. /\ Good(call[r]) /\ call[r] \in Attempt
      /\ UNCHANGED <<transport, connections, available, releasing, closed, rate, recent>>
  BY DEF NotConnected, Lost, Timeout, sockets, limits, Typed, CallsGood, Good
<1>2. RateTyped'
  BY <1>1 DEF Typed, RateTyped
<1>3. \/ Update(r, Failed(call[r]))
      \/ NetworkError(r) /\ (call[r].conn # None => ~Alive(call[r].conn))
  BY <1>1 DEF NotConnected, Lost, Timeout, At, Alive, Good
<1>4. \E b : /\ Good(b) /\ Update(r, b)
             /\ \/ b.pc = "start" /\ b.conn = None /\ (call[r].conn # None => ~Alive(call[r].conn))
                \/ b.pc = "failed" /\ b.conn = call[r].conn
  BY <1>1, <1>3, EndProperties, NetworkErrorProperties DEF Typed
<1> QED
  BY <1>1, <1>2, <1>4, QuietFlow

(* A pooled connection looks dropped: it is closed and forgotten. *)
LEMMA CheckedFlow ==
    ASSUME Typed, NEW r \in Calls, Checked(r)
    PROVE  Typed' /\ Flow(r)
<1> DEFINE c == call[r].conn
           b == [call[r] EXCEPT !.pc = "connecting", !.conn = None]
<1>1. /\ Good(call[r]) /\ call[r] \in Attempt /\ Unsent(call[r]) /\ call[r].pc = "checking"
      /\ UNCHANGED <<available, releasing, closed, rate, recent>> /\ RateTyped'
  BY DEF Checked, At, limits, Typed, CallsGood, Good, RateTyped
<1>2. CASE transport[c] = "reset" /\ NetworkError(r) /\ UNCHANGED sockets
  <2>1. \E d : /\ Good(d) /\ Update(r, d)
               /\ \/ d.pc = "start" /\ d.conn = None
                  \/ d.pc = "failed" /\ d.conn = call[r].conn
    BY <1>2, NetworkErrorProperties DEF Typed
  <2> QED
    BY <1>1, <1>2, <2>1, QuietFlow DEF Alive, sockets
<1>3. CASE Discard(c) /\ Update(r, b)
  <2>1. Good(b) /\ b.pc = "connecting" /\ b.conn = None
    BY <1>1 DEF Good, Attempt, Unsent, Waits
  <2> HIDE DEF b
  <2>2. CallsGood' /\ call'[r] = b /\ \A s \in Calls \ {r} : call'[s] = call[s]
    BY <1>3, <2>1, UpdateProperties DEF Typed
  <2>3. /\ transport' \in [Conns -> {"open", "eof", "reset", "closed"}]
        /\ connections' = connections \ {c}
        /\ \A d \in Conns : Alive(d)' => Alive(d) /\ d # c
    BY <1>3, ShutProperties DEF Discard
  <2>4. Typed'
    BY <1>1, <2>2, <2>3 DEF Typed, Shelves
  <2>5. \A d \in Conns : (Pooled(d)' <=> Pooled(d)) /\ (Leaving(d)' <=> Leaving(d))
    BY <1>1 DEF Pooled, Leaving
  <2> QED
    BY <2>1, <2>2, <2>3, <2>4, <2>5 DEF Flow
<1> QED
  BY <1>2, <1>3 DEF Checked, IsDropped

(* A message of the call completes n times, and the call moves on to b. *)
LEMMA AnswerFlow ==
    ASSUME Typed, RateTyped', NEW r \in Calls, call[r].pc \in {"head", "body", "held"},
           NEW a \in Attempt, a.conn = call[r].conn, NEW n \in Nat, MessageComplete(a, n),
           NEW b, Good(b), Update(r, b), UNCHANGED <<transport, connections, closed>>,
           Asked(b) \/ (UNCHANGED available /\ b.conn \in {None, a.conn}),
           b.pc \in {"head", "body"} => n = 0 /\ call[r].pc \in {"head", "body"} /\ b.conn = a.conn,
           b.pc = "held" /\ b.kind = "empty" => n > 0 /\ b.conn = a.conn,
           n = 0 => \/ b.conn = a.conn
                    \/ call[r].pc = "held" /\ call[r].kind = "empty"
                    \/ call[r].pc = "head" /\ call[r].ask.stream /\ call[r].again > 0
    PROVE  Typed' /\ Flow(r)
<1>1. Good(call[r]) /\ a.conn # None /\ a.conn \in Conns
  BY Parts DEF Typed, CallsGood, Good
<1>2. CallsGood' /\ call'[r] = b /\ \A s \in Calls \ {r} : call'[s] = call[s]
  BY UpdateProperties DEF Typed
<1>3. /\ releasing' \in Seq(Task)
      /\ \A c \in Conns : Leaving(c)' <=> Leaving(c) \/ (n > 0 /\ c = a.conn)
  BY <1>1, MessageCompleteProperties DEF Typed
<1>4. Shelves'
  BY DEF Asked, Popped, Typed, Shelves
<1>5. Typed'
  BY <1>2, <1>3, <1>4 DEF Typed
<1>6. /\ b.conn \in {None, a.conn} \/ Pooled(b.conn)
      /\ \A c \in Conns : /\ Pooled(c)' => Pooled(c)
                          /\ Pooled(c) => Pooled(c)' \/ (b.pc = "checking" /\ b.conn = c)
  BY DEF Asked, Popped, Pooled
<1>7. \A c \in Conns : (Alive(c)' <=> Alive(c)) /\ (c \in connections' <=> c \in connections)
  BY DEF Alive
<1>8. n = 0 \/ n > 0
  OBVIOUS
<1>9. \A c \in Conns : b.pc = "held" /\ b.kind = "empty" /\ b.conn = c => Leaving(c)'
  BY <1>3
<1>10. ASSUME NEW c \in Conns
       PROVE  /\ Leaving(c) => Leaving(c)'
              /\ Leaving(c)' => Leaving(c) \/ (c = call[r].conn /\ b.pc \notin {"head", "body"})
              /\ call[r].conn = c =>
                   \/ b.conn = c /\ call[r].pc \notin {"checking", "failed"}
                   \/ Leaving(c)'
                   \/ call[r].pc = "held" /\ call[r].kind = "empty"
                   \/ call[r].pc = "head" /\ call[r].ask.stream /\ call[r].again > 0
  <2>1. Leaving(c)' <=> Leaving(c) \/ (n > 0 /\ c = call[r].conn)
    BY <1>3
  <2>2. n > 0 => b.pc \notin {"head", "body"}
    OBVIOUS
  <2> QED
    BY <1>8, <2>1, <2>2
<1>11. b.pc \in {"head", "body"} => call[r].pc \in {"head", "body"} /\ b.conn = call[r].conn
  OBVIOUS
<1>12. b.conn \in {None, call[r].conn} \/ Pooled(b.conn)
  BY <1>6
<1> QED
  BY <1>2, <1>5, <1>6, <1>7, <1>9, <1>10, <1>11, <1>12 DEF Flow

LEMMA ReadContentFlow ==
    ASSUME Typed, NEW r \in Calls, ReadContent(r)
    PROVE  Typed' /\ Flow(r)
<1>1. /\ Good(call[r]) /\ call[r] \in Attempt /\ call[r].pc = "body"
      /\ MessageComplete(call[r], 1) /\ BodyRead(r, call[r])
      /\ UNCHANGED <<transport, connections, closed>>
  BY DEF ReadContent, At, sockets, Typed, CallsGood, Good
<1>2. /\ RateTyped'
      /\ \E b : /\ Good(b) /\ Update(r, b)
                /\ \/ Asked(b)
                   \/ /\ b.pc \in {"start", "done", "failed"} /\ b.conn \in {None, call[r].conn}
                      /\ UNCHANGED available
  BY <1>1, BodyReadProperties DEF Typed
<1>3. PICK b : /\ Good(b) /\ Update(r, b)
               /\ \/ Asked(b)
                  \/ /\ b.pc \in {"start", "done", "failed"} /\ b.conn \in {None, call[r].conn}
                     /\ UNCHANGED available
  BY <1>2
<1>4. b.pc \notin {"head", "body", "held"}
  BY <1>3 DEF Asked, Popped
<1> QED
  BY <1>1, <1>2, <1>3, <1>4, AnswerFlow

LEMMA ReceiveHeadersFlow ==
    ASSUME Typed, NEW r \in Calls, ReceiveHeaders(r)
    PROVE  Typed' /\ Flow(r)
<1>1. PICK answer \in Answers :
        LET kind == answer.kind
            a == [call[r] EXCEPT !.kind = kind, !.to = answer.to, !.keep = answer.keep]
            unread == a.ask.stream /\ a.to = None
        IN /\ At(r, "head") /\ UNCHANGED <<sockets, closed>>
           /\ \/ /\ unread
                 /\ MessageComplete(a, AtHead(kind))
                 /\ Returned(r, a, Held(a)) /\ UNCHANGED <<available, limits>>
              \/ /\ ~unread /\ kind = "sized"
                 /\ MessageComplete(a, AtHead(kind))
                 /\ Update(r, [a EXCEPT !.pc = "body"]) /\ UNCHANGED <<available, limits>>
              \/ /\ ~unread /\ kind = "empty"
                 /\ MessageComplete(a, AtHead(kind) + AtBody(kind))
                 /\ BodyRead(r, a)
              \/ /\ ~unread /\ kind \in {"bare", "endless"}
                 /\ MessageComplete(a, AtHead(kind))
                 /\ Update(r, Failed(a)) /\ UNCHANGED <<available, limits>>
  BY DEF ReceiveHeaders
<1> DEFINE kind == answer.kind
           a == [call[r] EXCEPT !.kind = kind, !.to = answer.to, !.keep = answer.keep]
           unread == a.ask.stream /\ a.to = None
<1>2. /\ Good(call[r]) /\ call[r] \in Attempt /\ call[r].pc = "head" /\ call[r].conn # None
      /\ answer.to \in Hosts \cup {None} /\ answer.keep \in BOOLEAN /\ kind \in Kinds
  BY <1>1, AnswersAssumption DEF At, Typed, CallsGood, Good, Answer
<1>3. /\ a \in Attempt /\ a.pc = "head" /\ a.conn = call[r].conn /\ a.ask = call[r].ask
      /\ a.again = call[r].again /\ a.kind = kind
  BY <1>2 DEF Attempt
<1>4. Good(a)
  BY <1>2, <1>3 DEF Good, Attempt
<1>5. UNCHANGED <<transport, connections, closed>>
  BY <1>1 DEF sockets
<1>6. /\ AtHead(kind) \in Nat /\ AtHead(kind) + AtBody(kind) \in Nat
      /\ kind = "empty" => AtHead(kind) > 0 /\ AtHead(kind) + AtBody(kind) > 0
      /\ kind = "sized" => AtHead(kind) = 0
  BY DEF AtHead, AtBody
<1>7. CASE /\ unread /\ MessageComplete(a, AtHead(kind))
           /\ Returned(r, a, Held(a)) /\ UNCHANGED <<available, limits>>
  <2>1. Good(Held(a)) /\ Held(a).conn = a.conn /\ Held(a).pc = "held" /\ Held(a).kind = kind
    BY <1>2, <1>3, EndProperties
  <2>2. PICK b : /\ Good(b) /\ Update(r, b)
                 /\ b = Held(a) \/ (a.again > 0 /\ b.pc = "start" /\ b.conn = None)
    BY <1>4, <1>7, <2>1, ReturnedProperties
  <2>3. UNCHANGED available /\ RateTyped'
    BY <1>7 DEF Typed, RateTyped, limits
  <2>4. a.ask.stream
    BY <1>7
  <2> HIDE DEF a, kind
  <2>5. /\ b.conn \in {None, a.conn} /\ b.pc \notin {"head", "body"}
        /\ b.pc = "held" /\ b.kind = "empty" => AtHead(kind) > 0 /\ b.conn = a.conn
        /\ b.conn = a.conn \/ (call[r].pc = "head" /\ call[r].ask.stream /\ call[r].again > 0)
    BY <1>2, <1>3, <1>6, <2>1, <2>2, <2>4
  <2> QED
    BY <1>2, <1>3, <1>5, <1>6, <1>7, <2>2, <2>3, <2>5, AnswerFlow
<1>8. CASE /\ kind = "sized" /\ MessageComplete(a, AtHead(kind))
           /\ Update(r, [a EXCEPT !.pc = "body"]) /\ UNCHANGED <<available, limits>>
  <2> DEFINE b == [a EXCEPT !.pc = "body"]
  <2>1. UNCHANGED available /\ RateTyped'
    BY <1>8 DEF Typed, RateTyped, limits
  <2> HIDE DEF a, kind
  <2>2. Good(b) /\ b.pc = "body" /\ b.conn = a.conn
    BY <1>3, <1>4, Parts DEF Good, Attempt, Waits, Unsent
  <2> HIDE DEF b
  <2> QED
    BY ZenonT(60), <1>2, <1>3, <1>5, <1>6, <1>8, <2>1, <2>2, AnswerFlow DEF b
<1>9. CASE /\ kind = "empty" /\ MessageComplete(a, AtHead(kind) + AtBody(kind))
           /\ BodyRead(r, a)
  <2> HIDE DEF a, kind
  <2>1. /\ RateTyped'
        /\ \E b : /\ Good(b) /\ Update(r, b)
                  /\ \/ Asked(b)
                     \/ /\ b.pc \in {"start", "done", "failed"} /\ b.conn \in {None, a.conn}
                        /\ UNCHANGED available
    BY <1>3, <1>4, <1>9, BodyReadProperties DEF Typed
  <2>2. PICK b : /\ Good(b) /\ Update(r, b)
                 /\ \/ Asked(b)
                    \/ /\ b.pc \in {"start", "done", "failed"} /\ b.conn \in {None, a.conn}
                       /\ UNCHANGED available
    BY <2>1
  <2>3. b.pc \notin {"head", "body", "held"}
    BY <2>2 DEF Asked, Popped
  <2>4. AtHead(kind) + AtBody(kind) # 0
    BY <1>6, <1>9
  <2> QED
    BY <1>2, <1>3, <1>5, <1>6, <1>9, <2>1, <2>2, <2>3, <2>4, AnswerFlow
<1>10. CASE MessageComplete(a, AtHead(kind)) /\ Update(r, Failed(a)) /\ UNCHANGED <<available, limits>>
  <2>1. UNCHANGED available /\ RateTyped'
    BY <1>10 DEF Typed, RateTyped, limits
  <2> HIDE DEF a, kind
  <2>2. Good(Failed(a)) /\ Failed(a).conn = a.conn /\ Failed(a).pc = "failed"
    BY <1>3, EndProperties
  <2> QED
    BY <1>2, <1>3, <1>5, <1>6, <1>10, <2>1, <2>2, AnswerFlow
<1> QED
  BY <1>1, <1>7, <1>8, <1>9, <1>10

LEMMA ReadHeldFlow ==
    ASSUME Typed, NEW r \in Calls, ReadHeld(r)
    PROVE  Typed' /\ Flow(r)
<1> DEFINE a == call[r]
<1>1. /\ Good(a) /\ a \in Attempt /\ a.pc = "held" /\ a.conn # None /\ a.conn \in Conns
      /\ UNCHANGED <<transport, connections, available, closed, rate, recent>> /\ RateTyped'
  BY Parts DEF ReadHeld, At, sockets, limits, Typed, CallsGood, Good, RateTyped
<1>2. /\ Good(Blank("done")) /\ Blank("done").pc = "done" /\ Blank("done").conn = None
      /\ Good(Failed(a)) /\ Failed(a).pc = "failed" /\ Failed(a).conn = a.conn
  BY <1>1, BlankProperties, EndProperties DEF Ended
<1>3. \/ Readable(a) /\ MessageComplete(a, AtBody(a.kind)) /\ Update(r, Blank("done"))
      \/ a.kind = "empty" /\ Update(r, Blank("done")) /\ UNCHANGED releasing
      \/ ~Readable(a) /\ Update(r, Failed(a)) /\ UNCHANGED releasing
  BY DEF ReadHeld
<1>4. CASE Readable(a) /\ MessageComplete(a, AtBody(a.kind)) /\ Update(r, Blank("done"))
  <2>1. AtBody(a.kind) = 1
    BY <1>4 DEF AtBody, Readable
  <2> HIDE DEF a
  <2> QED
    BY <1>1, <1>2, <1>4, <2>1, AnswerFlow DEF a
<1>5. CASE UNCHANGED releasing /\ \/ a.kind = "empty" /\ Update(r, Blank("done"))
                                  \/ Update(r, Failed(a))
  <2>1. PICK b : /\ Good(b) /\ Update(r, b) /\ b.pc \in {"done", "failed"}
                 /\ \/ a.kind = "empty" /\ b.conn = None
                    \/ b.pc = "failed" /\ b.conn = a.conn
    BY <1>2, <1>5
  <2>2. CallsGood' /\ call'[r] = b /\ \A s \in Calls \ {r} : call'[s] = call[s]
    BY <2>1, UpdateProperties DEF Typed
  <2>3. Typed'
    BY <1>1, <1>5, <2>2 DEF Typed, Shelves
  <2>4. \A c \in Conns : /\ Alive(c)' <=> Alive(c)
                         /\ Pooled(c)' <=> Pooled(c)
                         /\ Leaving(c)' <=> Leaving(c)
    BY <1>1, <1>5 DEF Alive, Pooled, Leaving
  <2> QED
    BY <1>1, <2>1, <2>2, <2>3, <2>4 DEF Flow
<1> QED
  BY <1>3, <1>4, <1>5

-----------------------------------------------------------------------------
(* The other steps: a connection is opened, released or dropped, the        *)
(* session is closed, and the clock ticks.                                  *)
LEMMA ConnectedStep ==
    ASSUME Typed, NEW r \in Calls, Connected(r)
    PROVE  /\ Typed' /\ call[r].conn = None
           /\ \A s \in Calls \ {r} : call'[s] = call[s]
           /\ \E c \in Conns :
                 /\ Unused(c) /\ call'[r].pc = "head" /\ call'[r].conn = c
                 /\ UNCHANGED <<available, releasing>> /\ connections' = connections \cup {c}
                 /\ \A d \in Conns : Alive(d)' <=> Alive(d) \/ d = c
<1>1. PICK n \in Numbers :
        LET c == <<call[r].url, n>>
        IN /\ At(r, "connecting") /\ Unused(c)
           /\ transport' = [transport EXCEPT ![c] = "open"]
           /\ connections' = connections \cup {c}
           /\ Send(r, c) /\ UNCHANGED <<available, releasing, closed, limits>>
  BY DEF Connected
<1> DEFINE c == <<call[r].url, n>>
           a == call[r]
           host == IF a.host = None THEN a.url ELSE a.host
           posted == IF a.ask.method = "POST" /\ a.leg = 0 THEN a.posted + 1 ELSE a.posted
           b == [a EXCEPT !.pc = "head", !.conn = c, !.host = host, !.posted = posted]
<1>2. /\ Good(a) /\ a \in Attempt /\ Unsent(a) /\ a.conn = None
      /\ a.ask.statuses \in Nat /\ a.again \in Nat /\ a.posted \in Nat
  BY <1>1, Parts DEF At, Typed, CallsGood, Good
<1>3. c \in Conns /\ c # None
  BY <1>2, Parts, NamesAssumption DEF Conns
<1> HIDE DEF c
<1>4. host \in Hosts \cup {None} /\ posted \in Nat
  BY <1>2, Parts
<1>5. posted <= 1 + (a.ask.statuses - a.again) /\ (a.ask.method # "POST" => posted = 0)
  BY <1>2 DEF Good, Unsent
<1>6. Update(r, b)
  BY <1>1 DEF Send, c
<1> HIDE DEF host, posted
<1>7. b \in Attempt /\ b.pc = "head" /\ b.conn = c /\ b.posted = posted
  BY ZenonT(60), <1>2, <1>3, <1>4 DEF Attempt, Waits
<1>8. /\ b.ask = a.ask /\ b.again = a.again /\ b.net = a.net
  BY <1>2 DEF Attempt
<1>9. Good(b)
  <2> HIDE DEF b
  <2> QED
    BY <1>2, <1>3, <1>5, <1>7, <1>8 DEF Good
<1> HIDE DEF b
<1>10. CallsGood' /\ call'[r] = b /\ \A s \in Calls \ {r} : call'[s] = call[s]
  BY <1>6, <1>9, UpdateProperties DEF Typed
<1>11. /\ transport' \in [Conns -> {"open", "eof", "reset", "closed"}]
       /\ \A d \in Conns : Alive(d)' <=> Alive(d) \/ d = c
  BY <1>1, <1>3 DEF Typed, Alive, c
<1>12. Typed'
  BY <1>1, <1>3, <1>10, <1>11 DEF Typed, Shelves, RateTyped, limits, c
<1> QED
  BY <1>1, <1>2, <1>3, <1>7, <1>10, <1>11, <1>12 DEF c

LEMMA ReleaseStep ==
    ASSUME Typed, Release
    PROVE  /\ Typed' /\ call' = call
           /\ \E c \in Conns :
                 /\ Leaving(c)
                 /\ \A d \in Conns :
                       /\ Pooled(d)' => Pooled(d) \/ d = c
                       /\ Pooled(d) => Pooled(d)'
                       /\ Leaving(d)' => Leaving(d)
                       /\ Leaving(d) => Leaving(d)' \/ Pooled(d)' \/ ~Alive(d)'
                       /\ Alive(d)' => Alive(d) /\ (d \in connections => d \in connections')
<1> DEFINE c == Head(releasing).conn
           keep == Head(releasing).keep
           h == Pool(c)
           m == Len(releasing)
<1>1. /\ ReleaseConnection(c, keep) /\ releasing' = Tail(releasing) /\ releasing # <<>>
      /\ UNCHANGED <<call, closed, rate, recent>>
  BY DEF Release, limits
<1>2. /\ m \in Nat /\ DOMAIN releasing = 1 .. m /\ m > 0 /\ Head(releasing) = releasing[1]
      /\ releasing[1] \in Task
  BY <1>1 DEF Typed
<1>3. c \in Conns /\ h \in Hosts
  BY <1>2 DEF Task, Conns, Pool
<1>4. /\ releasing' \in Seq(Task) /\ DOMAIN releasing' = 1 .. m - 1
      /\ \A i \in 1 .. m - 1 : releasing'[i] = releasing[i + 1]
  BY <1>1, <1>2, HeadTailProperties DEF Typed
<1> HIDE DEF m
<1>5. ASSUME NEW d \in Conns
      PROVE  /\ Leaving(d)' => Leaving(d)
             /\ Leaving(d) => Leaving(d)' \/ d = c
  <2>1. ASSUME Leaving(d)' PROVE Leaving(d)
    <3>1. PICK i \in 1 .. m - 1 : releasing'[i].conn = d
      BY <1>4, <2>1 DEF Leaving
    <3>2. i + 1 \in 1 .. m /\ releasing[i + 1].conn = d
      BY <1>2, <1>4, <3>1
    <3> QED
      BY <1>2, <3>2 DEF Leaving
  <2>2. ASSUME Leaving(d), d # c PROVE Leaving(d)'
    <3>1. PICK i \in 1 .. m : releasing[i].conn = d
      BY <1>2, <2>2 DEF Leaving
    <3>2. i # 1 /\ i - 1 \in 1 .. m - 1
      BY <1>2, <2>2, <3>1
    <3>3. releasing'[i - 1].conn = d
      BY <1>2, <1>4, <3>1, <3>2
    <3> QED
      BY <1>4, <3>2, <3>3 DEF Leaving
  <2> QED
    BY <2>1, <2>2
<1>6. Leaving(c)
  BY <1>2 DEF Leaving
<1> HIDE DEF c, keep
<1>7. CASE available' = [available EXCEPT ![h] = <<c>> \o @] /\ UNCHANGED sockets
  <2> DEFINE idle == available[h]
             more == <<c>> \o idle
             n == Len(idle)
  <2>1. /\ idle \in Seq(Conns) /\ n \in Nat /\ DOMAIN idle = 1 .. n
        /\ \A i \in 1 .. n : Pool(idle[i]) = h
    BY <1>3 DEF Typed, Shelves
  <2> HIDE DEF idle
  <2>2. <<c>> \in Seq(Conns) /\ Len(<<c>>) = 1 /\ <<c>>[1] = c
    BY <1>3
  <2>3. /\ more \in Seq(Conns) /\ DOMAIN more = 1 .. n + 1
        /\ \A i \in 1 .. n + 1 : more[i] = IF i <= 1 THEN <<c>>[i] ELSE idle[i - 1]
    BY <2>1, <2>2, ConcatProperties
  <2>4. more[1] = c /\ \A i \in 1 .. n : more[i + 1] = idle[i]
    BY <2>1, <2>2, <2>3
  <2> HIDE DEF more, n
  <2>5. /\ available'[h] = more /\ available' \in [Hosts -> Seq(Conns)]
        /\ \A g \in Hosts \ {h} : available'[g] = available[g]
    BY <1>3, <1>7, <2>3 DEF Typed, Shelves, more, idle
  <2>6. \A i \in DOMAIN more : Pool(more[i]) = h
    <3> SUFFICES ASSUME NEW i \in 1 .. n + 1 PROVE Pool(more[i]) = h
      BY <2>3
    <3>1. i = 1 \/ (i - 1 \in 1 .. n /\ i = (i - 1) + 1)
      BY <2>1 DEF n
    <3> QED
      BY <2>1, <2>4, <3>1 DEF n
  <2>7. Shelves'
    BY <2>5, <2>6 DEF Shelves, Typed
  <2>8. Typed'
    BY <1>1, <1>4, <1>7, <2>7 DEF Typed, CallsGood, RateTyped, sockets
  <2>9. ASSUME NEW d \in Conns
        PROVE  (Pooled(d)' <=> Pooled(d) \/ d = c) /\ (Alive(d)' <=> Alive(d))
    <3>1. CASE Pool(d) = h
      <4>1. Pooled(d) <=> \E i \in 1 .. n : idle[i] = d
        BY <2>1, <3>1 DEF Pooled, idle, n
      <4>2. Pooled(d)' <=> \E i \in 1 .. n + 1 : more[i] = d
        BY <2>3, <2>5, <3>1 DEF Pooled
      <4>3. n \in Nat /\ \A i \in 1 .. n + 1 : i = 1 \/ (i - 1 \in 1 .. n /\ (i - 1) + 1 = i)
        BY <2>1 DEF n
      <4>4. (\E i \in 1 .. n : idle[i] = d) => \E i \in 1 .. n + 1 : more[i] = d
        <5> SUFFICES ASSUME NEW i \in 1 .. n, idle[i] = d PROVE \E j \in 1 .. n + 1 : more[j] = d
          OBVIOUS
        <5>1. i + 1 \in 1 .. n + 1 /\ more[i + 1] = d
          BY <2>4, <4>3
        <5> QED
          BY <5>1
      <4>5. d = c => \E i \in 1 .. n + 1 : more[i] = d
        BY <2>4, <4>3
      <4>6. (\E i \in 1 .. n + 1 : more[i] = d) => d = c \/ \E i \in 1 .. n : idle[i] = d
        <5> SUFFICES ASSUME NEW i \in 1 .. n + 1, more[i] = d
                     PROVE  d = c \/ \E j \in 1 .. n : idle[j] = d
          OBVIOUS
        <5> QED
          BY <2>4, <4>3
      <4>7. Alive(d)' <=> Alive(d)
        BY <1>7 DEF Alive, sockets
      <4> QED
        BY <4>1, <4>2, <4>4, <4>5, <4>6, <4>7
    <3>2. CASE Pool(d) # h
      BY <1>7, <2>5, <3>2 DEF Pooled, Alive, sockets, Conns, Pool, h
    <3> QED
      BY <3>1, <3>2
  <2> QED
    BY <1>1, <1>3, <1>5, <1>6, <1>7, <2>8, <2>9 DEF sockets
<1>8. CASE Discard(c) /\ UNCHANGED available
  <2>1. /\ transport' \in [Conns -> {"open", "eof", "reset", "closed"}]
        /\ connections' = connections \ {c}
        /\ \A d \in Conns : Alive(d)' => Alive(d) /\ d # c
    BY <1>8, ShutProperties DEF Discard
  <2>2. Typed'
    BY <1>1, <1>4, <1>8, <2>1 DEF Typed, CallsGood, Shelves, RateTyped
  <2>3. \A d \in Conns : Pooled(d)' <=> Pooled(d)
    BY <1>8 DEF Pooled
  <2> QED
    BY <1>1, <1>3, <1>5, <1>6, <2>1, <2>2, <2>3
<1> QED
  BY <1>1, <1>7, <1>8 DEF ReleaseConnection

LEMMA OutsideStep ==
    ASSUME Typed, Drop \/ Close \/ Tick
    PROVE  /\ Typed'
           /\ \A r \in Calls : /\ call'[r].pc = call[r].pc /\ call'[r].conn = call[r].conn
                               /\ call'[r].kind = call[r].kind
           /\ \A c \in Conns : /\ Pooled(c)' <=> Pooled(c)
                               /\ Leaving(c)' <=> Leaving(c)
                               /\ Alive(c)' => Alive(c) /\ (c \in connections => c \in connections')
<1>1. CASE Drop
  <2>1. UNCHANGED <<call, connections, available, releasing, closed, rate, recent>>
    BY <1>1 DEF Drop, limits
  <2>2. PICK c \in Conns, how \in {"eof", "reset"} :
          transport[c] = "open" /\ transport' = [transport EXCEPT ![c] = how]
    BY <1>1 DEF Drop
  <2>3. /\ transport' \in [Conns -> {"open", "eof", "reset", "closed"}]
        /\ \A d \in Conns : Alive(d)' => Alive(d)
    BY <2>2 DEF Typed, Alive
  <2>4. Typed'
    BY <2>1, <2>3 DEF Typed, CallsGood, Shelves, RateTyped
  <2> QED
    BY <2>1, <2>3, <2>4 DEF Pooled, Leaving
<1>2. CASE Close
  <2>1. /\ UNCHANGED <<call, connections, available, releasing, rate, recent>>
        /\ closed' = TRUE /\ Shut(connections)
    BY <1>2 DEF Close, limits
  <2>2. /\ transport' \in [Conns -> {"open", "eof", "reset", "closed"}]
        /\ \A d \in Conns : Alive(d)' => Alive(d)
    BY <2>1, ShutProperties
  <2>3. Typed'
    BY <2>1, <2>2 DEF Typed, CallsGood, Shelves, RateTyped
  <2> QED
    BY <2>1, <2>2, <2>3 DEF Pooled, Leaving
<1>3. CASE Tick
  <2>1. /\ UNCHANGED <<transport, connections, available, releasing, closed>>
        /\ rate' = Later(rate)
        /\ call' = [r \in Calls |-> [call[r] EXCEPT !.nap = Less(@)]]
    BY <1>3 DEF Tick, sockets
  <2>2. PICK gone \in 0 .. Len(recent) :
          recent' = [i \in 1 .. Len(recent) - gone |-> recent[gone + i] + 1]
    BY <1>3 DEF Tick
  <2>3. recent' \in Seq(Nat)
    <3>1. Len(recent) \in Nat /\ Len(recent) - gone \in Nat
      BY DEF Typed, RateTyped
    <3>2. \A i \in 1 .. Len(recent) - gone : recent[gone + i] + 1 \in Nat
      BY <3>1 DEF Typed, RateTyped
    <3> QED
      BY <2>2, <3>1, <3>2
  <2>4. RateTyped'
    BY <2>1, <2>3, RateProperties DEF Typed, RateTyped
  <2>5. ASSUME NEW r \in Calls
        PROVE  /\ Good(call'[r]) /\ call'[r].pc = call[r].pc /\ call'[r].conn = call[r].conn
               /\ call'[r].kind = call[r].kind
    <3>1. /\ Good(call[r]) /\ call[r] \in Attempt /\ call[r].nap \in Nat
          /\ call'[r] = [call[r] EXCEPT !.nap = Less(call[r].nap)]
      BY <2>1, Parts DEF Typed, CallsGood, Good
    <3>2. Less(call[r].nap) \in Nat
      BY <3>1 DEF Less
    <3> QED
      BY <3>1, <3>2 DEF Good, Attempt, Unsent
  <2>6. CallsGood'
    <3>1. call' \in [Calls -> Attempt]
      BY <2>1, <2>5 DEF Good
    <3> QED
      BY <2>5, <3>1 DEF CallsGood
  <2>7. Typed'
    BY <2>1, <2>4, <2>6 DEF Typed, Shelves
  <2> QED
    BY <2>1, <2>5, <2>7 DEF Pooled, Leaving, Alive
<1> QED
  BY <1>1, <1>2, <1>3

(* So every step is one of four. *)
LEMMA StepCases ==
    ASSUME Typed, [Next]_vars
    PROVE  /\ Typed'
           /\ \/ \E r \in Calls : Flow(r) \/ Connected(r)
              \/ Release \/ Drop \/ Close \/ Tick
              \/ UNCHANGED vars
<1>1. ASSUME NEW r \in Calls, Call(r) \/ Attempts(r) \/ ReadHeld(r)
      PROVE  Typed' /\ (Flow(r) \/ Connected(r))
  BY <1>1, CallFlow, BeginFlow, FailFlow, CheckedFlow, ReceiveHeadersFlow, ReadContentFlow,
     ReadHeldFlow, ConnectedStep DEF Attempts
<1>2. CASE Release \/ Drop \/ Close \/ Tick
  BY <1>2, ReleaseStep, OutsideStep
<1>3. CASE UNCHANGED vars
  BY <1>3 DEF vars, sockets, limits, Typed, CallsGood, Shelves, RateTyped
<1> QED
  BY <1>1, <1>2, <1>3 DEF Next

-----------------------------------------------------------------------------
(* A response is awaited on a connection that no one else holds. *)
LEMMA OwnStep ==
    ASSUME Typed, Own, [Next]_vars
    PROVE  Own'
<1> SUFFICES ASSUME NEW q \in Calls, call'[q].pc \in {"head", "body"}, NEW c, c = call'[q].conn
             PROVE  ~Pooled(c)' /\ ~Leaving(c)' /\ \A s \in Calls \ {q} : call'[s].conn # c
  BY DEF Own, Pooled, Leaving
<1>1. c \in Conns /\ c # None
  BY StepCases, Parts DEF Typed, CallsGood, Good
<1>2. ASSUME NEW r \in Calls, Flow(r)
      PROVE  ~Pooled(c)' /\ ~Leaving(c)' /\ \A s \in Calls \ {q} : call'[s].conn # c
  <2>1. call[q].pc \in {"head", "body"} /\ call[q].conn = c
    BY <1>2 DEF Flow
  <2>2. ~Pooled(c) /\ ~Leaving(c) /\ \A s \in Calls \ {q} : call[s].conn # c
    BY <2>1 DEF Own
  <2>3. ~Pooled(c)' /\ ~Leaving(c)'
    BY <1>1, <1>2, <2>1, <2>2 DEF Flow
  <2>4. \A s \in Calls \ {q} : call'[s].conn # c
    BY <1>1, <1>2, <2>2 DEF Flow
  <2> QED
    BY <2>3, <2>4
<1>3. ASSUME NEW r \in Calls, Connected(r)
      PROVE  ~Pooled(c)' /\ ~Leaving(c)' /\ \A s \in Calls \ {q} : call'[s].conn # c
  <2>1. PICK d \in Conns : /\ Unused(d) /\ call'[r].conn = d /\ UNCHANGED <<available, releasing>>
    BY <1>3, ConnectedStep
  <2>2. \A s \in Calls \ {r} : call'[s] = call[s]
    BY <1>3, ConnectedStep
  <2>3. CASE q = r
    BY <2>1, <2>2, <2>3 DEF Unused, Pooled, Leaving
  <2>4. CASE q # r
    BY <2>1, <2>2, <2>4 DEF Own, Unused, Pooled, Leaving
  <2> QED
    BY <2>3, <2>4
<1>4. CASE Release
  <2>1. call' = call
    BY <1>4, ReleaseStep
  <2>2. ~Pooled(c) /\ ~Leaving(c) /\ \A s \in Calls \ {q} : call[s].conn # c
    BY <2>1 DEF Own
  <2> QED
    BY <1>1, <1>4, <2>1, <2>2, ReleaseStep
<1>5. CASE Drop \/ Close \/ Tick
  BY <1>1, <1>5, OutsideStep DEF Own
<1>6. CASE UNCHANGED vars
  BY <1>6 DEF vars, sockets, Own, Pooled, Leaving
<1> QED
  BY <1>2, <1>3, <1>4, <1>5, <1>6, StepCases

LEMMA InitTyped == Init => Typed /\ Own
<1> SUFFICES ASSUME Init PROVE Typed /\ Own
  OBVIOUS
<1>1. PICK use \in Uses : /\ call = [r \in Calls |-> Before(use.asked[r])]
                          /\ rate = NewRate(use.limit)
  BY DEF Init
<1> DEFINE limit == use.limit
<1>2. CallsGood /\ \A r \in Calls : call[r].conn = None /\ call[r].pc \in {"idle", "done"}
  <2>1. \A r \in Calls : use.asked[r] \in Asks \cup {None}
    BY UsesAssumption DEF Use
  <2>2. \A r \in Calls : /\ Good(call[r]) /\ call[r] \in Attempt
                          /\ call[r].conn = None /\ call[r].pc \in {"idle", "done"}
    BY <1>1, <2>1, BeforeProperties
  <2>3. call \in [Calls -> Attempt]
    BY <1>1, <2>2
  <2> QED
    BY <2>2, <2>3 DEF CallsGood
<1>3. rate = NewRate(limit)
  BY <1>1
<1>4. RateTyped
  <2>1. limit \in LimitOf(SUBSET Hosts)
    BY UsesAssumption DEF Use
  <2>2. rate \in RateOf(SUBSET Hosts) /\ rate.ahead = 0 /\ rate.period \in Nat
    BY <1>3, <2>1 DEF LimitOf, RateOf, NewRate
  <2> QED
    BY <2>2 DEF Init, RateTyped
<1>5. Shelves
  BY DEF Init, Shelves
<1>6. Typed
  <2>1. /\ transport = [c \in Conns |-> "closed"] /\ connections = {}
        /\ releasing = <<>> /\ closed = FALSE
    BY DEF Init
  <2>2. releasing \in Seq(Task)
    BY <2>1
  <2> QED
    BY <1>2, <1>4, <1>5, <2>1, <2>2 DEF Typed
<1>7. Own
  BY <1>2 DEF Own
<1> QED
  BY <1>6, <1>7

(* Types, budgets and the ownership of connections are kept. *)
THEOREM Invariance == Spec => []CallInv
<1>1. Init => CallInv
  BY InitTyped, TypedIsTypeOK, CallInvGood
<1>2. CallInv /\ [Next]_vars => CallInv'
  <2> SUFFICES ASSUME CallInv, [Next]_vars PROVE CallInv'
    OBVIOUS
  <2>1. Typed /\ Own
    BY TypedIsTypeOK, CallInvGood
  <2>2. Typed' /\ Own'
    BY <2>1, StepCases, OwnStep
  <2> QED
    BY <2>2, TypedIsTypeOK, CallInvGood
<1> QED
  BY <1>1, <1>2, PTL DEF Spec

(* The types are kept. *)
THEOREM TypeCorrect == Spec => []TypeOK
<1>1. CallInv => TypeOK
  BY DEF CallInv
<1> QED
  BY <1>1, Invariance, PTL

(* No two calls share a connection, nor a call and a pool (pool.py:47-60,   *)
(* response.py:240-249).                                                    *)
THEOREM ConnectionsAreExclusive == Spec => []Exclusive
<1>1. CallInv => Exclusive
  BY DEF CallInv, Own, Exclusive
<1> QED
  BY <1>1, Invariance, PTL

(* A POST is written once but for the statuses that the caller listed       *)
(* (retries.py:11).                                                         *)
THEOREM PostsOnce == Spec => []PostedOnce
<1>1. CallInv => PostedOnce
  BY DEF CallInv
<1> QED
  BY <1>1, Invariance, PTL

-----------------------------------------------------------------------------
(* Who has a connection that is open: a pool, a release task or a call.     *)
Placed(c) == Pooled(c) \/ Leaving(c) \/ \E r \in Calls : call[r].conn = c
Taken(r, c) == \E s \in Calls \ {r} : call[s].pc \in {"checking", "failed"} /\ call[s].conn = c

Sockets == /\ \A c \in Conns : Alive(c) => c \in connections
           /\ NoneLeft =>
                /\ \A c \in Conns : Alive(c) => Placed(c)
                /\ \A c \in Conns, r \in Calls :
                      call[r].pc = "held" /\ call[r].kind = "empty" /\ call[r].conn = c /\ Alive(c)
                      => Pooled(c) \/ Leaving(c) \/ Taken(r, c)

LEMMA SocketsProperties ==
    ASSUME Typed
    PROVE  Sockets <=> NoSocketLost /\ GivenBack
<1>1. \A r \in Calls : call[r].pc = "held" => call[r].conn \in Conns
  BY Parts DEF Typed, CallsGood, Good
<1>2. NoSocketLost <=> /\ \A c \in Conns : Alive(c) => c \in connections
                       /\ NoneLeft => \A c \in Conns : Alive(c) => Placed(c)
  BY DEF NoSocketLost, Alive, Placed
<1>3. GivenBack <=>
        (NoneLeft => \A c \in Conns, r \in Calls :
           call[r].pc = "held" /\ call[r].kind = "empty" /\ call[r].conn = c /\ Alive(c)
           => Pooled(c) \/ Leaving(c) \/ Taken(r, c))
  BY <1>1 DEF GivenBack, Alive, Taken
<1> QED
  BY <1>2, <1>3 DEF Sockets

LEMMA SocketsStep ==
    ASSUME Typed, Sockets, [Next]_vars
    PROVE  Sockets'
<1>1. ASSUME NEW r \in Calls, Flow(r)
      PROVE  Sockets'
  <2>1. ASSUME NEW c \in Conns, Alive(c)'
        PROVE  c \in connections'
    BY <1>1, <2>1 DEF Flow, Sockets
  <2>2. ASSUME NEW c \in Conns, Alive(c)', NoneLeft
        PROVE  /\ Alive(c) /\ Placed(c)
               /\ ~(call[r].ask.stream /\ call[r].again > 0)
               /\ \A s \in Calls \ {r} : call'[s] = call[s]
    <3>1. Alive(c) /\ \A s \in Calls \ {r} : call'[s] = call[s]
      BY <1>1, <2>2 DEF Flow
    <3>2. call[r].again <= call[r].ask.statuses /\ call[r].again \in Nat /\ call[r].ask \in Asks
      BY Parts DEF Typed, CallsGood, Good
    <3> QED
      BY <2>2, <3>1, <3>2 DEF Sockets, NoneLeft
  <2>3. ASSUME NEW c \in Conns, Alive(c)', NoneLeft, call[r].conn = c
        PROVE  \/ call'[r].conn = c /\ (call[r].pc \in {"checking", "failed"} => call'[r].pc = "failed")
               \/ Pooled(c)' \/ Leaving(c)' \/ Taken(r, c)'
    <3>1. Alive(c) /\ ~(call[r].ask.stream /\ call[r].again > 0)
      BY <2>2, <2>3
    <3>2. CASE call[r].pc = "held" /\ call[r].kind = "empty"
      <4>1. Pooled(c) \/ Leaving(c) \/ Taken(r, c)
        BY <2>3, <3>1, <3>2 DEF Sockets
      <4>2. Taken(r, c) => Taken(r, c)'
        BY <2>2, <2>3 DEF Taken
      <4> QED
        BY <1>1, <2>3, <3>2, <4>1, <4>2 DEF Flow
    <3>3. CASE ~(call[r].pc = "held" /\ call[r].kind = "empty")
      BY <1>1, <2>3, <3>1, <3>3 DEF Flow
    <3> QED
      BY <3>2, <3>3
  <2>4. ASSUME NEW c \in Conns, Alive(c)', NoneLeft
        PROVE  Placed(c)'
    <3>1. Placed(c) /\ \A s \in Calls \ {r} : call'[s] = call[s]
      BY <2>2, <2>4
    <3>2. CASE Pooled(c) \/ Leaving(c)
      BY <1>1, <3>2 DEF Flow, Placed
    <3>3. CASE call[r].conn = c
      BY <2>3, <2>4, <3>3 DEF Placed, Taken
    <3>4. CASE \E s \in Calls \ {r} : call[s].conn = c
      BY <3>1, <3>4 DEF Placed
    <3> QED
      BY <3>1, <3>2, <3>3, <3>4 DEF Placed
  <2>5. ASSUME NEW c \in Conns, Alive(c)', NoneLeft, NEW q \in Calls,
               call'[q].pc = "held", call'[q].kind = "empty", call'[q].conn = c
        PROVE  Pooled(c)' \/ Leaving(c)' \/ Taken(q, c)'
    <3>1. CASE q = r
      BY <1>1, <2>5, <3>1 DEF Flow
    <3>2. CASE q # r
      <4>1. call'[q] = call[q] /\ Alive(c) /\ \A s \in Calls \ {r} : call'[s] = call[s]
        BY <2>2, <2>5, <3>2
      <4>2. Pooled(c) \/ Leaving(c) \/ Taken(q, c)
        BY <2>5, <4>1 DEF Sockets
      <4>3. CASE Pooled(c) \/ Leaving(c)
        <5>1. Pooled(c)' \/ Leaving(c)' \/ (call'[r].pc = "checking" /\ call'[r].conn = c)
          BY <1>1, <4>3 DEF Flow
        <5> QED
          BY <3>2, <5>1 DEF Taken
      <4>4. CASE \E s \in Calls \ {q, r} : call[s].pc \in {"checking", "failed"} /\ call[s].conn = c
        BY <4>1, <4>4 DEF Taken
      <4>5. CASE call[r].pc \in {"checking", "failed"} /\ call[r].conn = c
        <5>1. (call'[r].conn = c /\ call'[r].pc = "failed") \/ Leaving(c)'
          BY <1>1, <2>2, <2>5, <4>5 DEF Flow
        <5> QED
          BY <3>2, <5>1 DEF Taken
      <4> QED
        BY <4>2, <4>3, <4>4, <4>5 DEF Taken
    <3> QED
      BY <3>1, <3>2
  <2> QED
    BY <2>1, <2>4, <2>5 DEF Sockets
<1>2. ASSUME NEW r \in Calls, Connected(r)
      PROVE  Sockets'
  <2>1. call[r].conn = None /\ \A s \in Calls \ {r} : call'[s] = call[s]
    BY <1>2, ConnectedStep
  <2>2. PICK c \in Conns :
           /\ Unused(c) /\ call'[r].pc = "head" /\ call'[r].conn = c
           /\ UNCHANGED <<available, releasing>> /\ connections' = connections \cup {c}
           /\ \A d \in Conns : Alive(d)' <=> Alive(d) \/ d = c
    BY <1>2, ConnectedStep
  <2>3. \A d \in Conns : (Pooled(d)' <=> Pooled(d)) /\ (Leaving(d)' <=> Leaving(d)) /\ d # None
    BY <2>2, NamesAssumption DEF Pooled, Leaving, Conns
  <2>4. \A d \in Conns : Alive(d)' => d \in connections'
    BY <2>2 DEF Sockets
  <2>5. \A d \in Conns : Placed(d) => Placed(d)'
    BY <2>1, <2>3 DEF Placed
  <2>6. Placed(c)'
    BY <2>2 DEF Placed
  <2>7. ASSUME NEW d \in Conns, NEW q \in Calls, NoneLeft, Alive(d)',
               call'[q].pc = "held", call'[q].kind = "empty", call'[q].conn = d
        PROVE  Pooled(d)' \/ Leaving(d)' \/ Taken(q, d)'
    <3>1. q # r /\ call'[q] = call[q] /\ d # c
      BY <2>1, <2>2, <2>7 DEF Unused
    <3>2. Pooled(d) \/ Leaving(d) \/ Taken(q, d)
      BY <2>2, <2>7, <3>1 DEF Sockets
    <3>3. Taken(q, d) => Taken(q, d)'
      BY <2>1, <2>3 DEF Taken
    <3> QED
      BY <2>3, <3>2, <3>3
  <2> QED
    BY <2>2, <2>4, <2>5, <2>6, <2>7 DEF Sockets
<1>3. CASE Release
  <2>1. call' = call
    BY <1>3, ReleaseStep
  <2>2. \A d \in Conns : /\ Pooled(d) \/ Leaving(d) => Pooled(d)' \/ Leaving(d)' \/ ~Alive(d)'
                         /\ Alive(d)' => Alive(d) /\ (d \in connections => d \in connections')
    BY <1>3, ReleaseStep
  <2> QED
    BY <2>1, <2>2 DEF Sockets, Placed, Taken
<1>4. CASE Drop \/ Close \/ Tick
  <2>1. /\ \A r \in Calls : /\ call'[r].pc = call[r].pc /\ call'[r].conn = call[r].conn
                            /\ call'[r].kind = call[r].kind
        /\ \A c \in Conns : /\ Pooled(c)' <=> Pooled(c)
                            /\ Leaving(c)' <=> Leaving(c)
                            /\ Alive(c)' => Alive(c) /\ (c \in connections => c \in connections')
    BY <1>4, OutsideStep
  <2> QED
    BY <2>1 DEF Sockets, Placed, Taken
<1>5. CASE UNCHANGED vars
  BY <1>5 DEF vars, sockets, Sockets, Placed, Taken, Alive, Pooled, Leaving
<1> QED
  BY <1>1, <1>2, <1>3, <1>4, <1>5, StepCases

(* No socket that is open is lost, unless streams are repeated (pool.py,    *)
(* response.py:157-162 and 240-249, session.py:233-236).                    *)
THEOREM NothingIsLost == Spec => []NoSocketLost
<1>1. Init => Typed /\ Sockets
  <2>1. Init => \A c \in Conns : ~Alive(c)
    BY DEF Init, Alive
  <2> QED
    BY <2>1, InitTyped DEF Sockets
<1>2. (Typed /\ Sockets) /\ [Next]_vars => (Typed /\ Sockets)'
  BY StepCases, SocketsStep
<1>3. Typed /\ Sockets => NoSocketLost
  BY SocketsProperties
<1> QED
  BY <1>1, <1>2, <1>3, PTL DEF Spec

-----------------------------------------------------------------------------
(* What a step of call r may do to the limit: nothing, or sleep because it  *)
(* is exhausted, or be counted because it is not, or wake.                  *)
Sleeps(r) == call[r].pc = "throttled"

Paying(r) ==
    \/ UNCHANGED limits /\ ~Sleeps(r)'
    \/ UNCHANGED limits /\ Exhausted(rate) /\ call'[r].nap = Nap(rate)
    \/ /\ ~Exhausted(rate) /\ rate' = Counted(rate)
       /\ recent' = Append(recent, 0) /\ ~Sleeps(r) /\ ~Sleeps(r)'
    \/ /\ Sleeps(r) /\ call[r].nap = 0 /\ rate' = Woken(rate)
       /\ recent' = Append(recent, 0) /\ ~Sleeps(r)'

LEMMA GetConnectionAwake ==
    ASSUME Typed, NEW r \in Calls, NEW a, Good(a), Unsent(a), GetConnection(r, a)
    PROVE  ~Sleeps(r)'
<1>1. PICK b : Good(b) /\ Update(r, b) /\ Popped(b)
  BY GetConnectionProperties DEF Typed
<1>2. call'[r] = b
  BY <1>1, UpdateProperties DEF Typed
<1> QED
  BY <1>1, <1>2 DEF Popped, Sleeps

LEMMA RequestPaying ==
    ASSUME Typed, NEW r \in Calls, NEW a, Good(a), Unsent(a), ~Sleeps(r), Request(r, a)
    PROVE  Paying(r)
<1>1. CASE GetConnection(r, a) /\ UNCHANGED limits
  BY <1>1, GetConnectionAwake DEF Paying
<1>2. CASE /\ Exhausted(rate) /\ UNCHANGED limits
           /\ Update(r, [a EXCEPT !.pc = "throttled", !.conn = None, !.nap = Nap(rate)])
  BY <1>2 DEF Paying, Update, Typed, CallsGood, Good, Attempt
<1>3. CASE ~Exhausted(rate) /\ rate' = Counted(rate) /\ GoOn(r, a)
  BY <1>3, GetConnectionAwake DEF Paying, GoOn
<1> QED
  BY <1>1, <1>2, <1>3 DEF Request

(* A call that is given a state in which it does not sleep. *)
LEMMA AwakeAfter ==
    ASSUME Typed, NEW r \in Calls, NEW b, Good(b), Update(r, b), b.pc # "throttled"
    PROVE  ~Sleeps(r)'
BY UpdateProperties DEF Typed, Sleeps

LEMMA BodyReadPaying ==
    ASSUME Typed, NEW r \in Calls, NEW a, Good(a), a.pc \in {"head", "body"}, ~Sleeps(r),
           BodyRead(r, a)
    PROVE  Paying(r)
<1>1. CASE Returned(r, a, Blank("done")) /\ UNCHANGED <<available, limits>>
  <2>1. Good(Blank("done")) /\ Blank("done").pc = "done"
    BY BlankProperties DEF Ended
  <2>2. \E b : Good(b) /\ Update(r, b) /\ b.pc \in {"done", "start"}
    BY <1>1, <2>1, ReturnedProperties
  <2> QED
    BY <1>1, <2>2, AwakeAfter DEF Paying
<1>2. CASE Update(r, Failed(a)) /\ UNCHANGED <<available, limits>>
  BY <1>2, EndProperties, AwakeAfter DEF Paying, Good
<1>3. CASE a.to # None /\ ~TooManyRedirects(a) /\ Request(r, Redirected(a))
  BY <1>3, RedirectedProperties, RequestPaying
<1> QED
  BY <1>1, <1>2, <1>3 DEF BodyRead

LEMMA CallPaying ==
    ASSUME Typed, NEW r \in Calls, Call(r) \/ Attempts(r) \/ ReadHeld(r)
    PROVE  Paying(r)
<1> DEFINE a == call[r]
<1>1. Good(a) /\ a \in Attempt
  BY DEF Typed, CallsGood, Good
<1>2. CASE Call(r)
  <2>1. a.ask \in Asks /\ Update(r, Fresh(a.ask))
    BY <1>1, <1>2, Parts DEF Call
  <2> QED
    BY <1>2, <2>1, FreshProperties, AwakeAfter DEF Call, Paying
<1>3. CASE Begin(r)
  BY <1>1, <1>3, RequestPaying DEF Begin, At, Sleeps, Good
<1>4. CASE Wake(r)
  BY <1>1, <1>4, GetConnectionAwake DEF Wake, At, GoOn, Paying, Sleeps, Good
<1>5. CASE NotConnected(r) \/ Lost(r) \/ Timeout(r)
  <2>1. UNCHANGED limits /\ (NetworkError(r) \/ Update(r, Failed(a)))
    BY <1>5 DEF NotConnected, Lost, Timeout
  <2>2. \E b : Good(b) /\ Update(r, b) /\ b.pc \in {"start", "failed"}
    BY <1>1, <2>1, EndProperties, NetworkErrorProperties DEF Typed
  <2> QED
    BY <2>1, <2>2, AwakeAfter DEF Paying
<1>6. CASE Checked(r)
  <2>1. /\ UNCHANGED limits
        /\ NetworkError(r) \/ Update(r, [a EXCEPT !.pc = "connecting", !.conn = None])
    BY <1>6 DEF Checked, IsDropped
  <2>2. CASE NetworkError(r)
    <3>1. \E b : Good(b) /\ Update(r, b) /\ b.pc \in {"start", "failed"}
      BY <2>2, NetworkErrorProperties DEF Typed
    <3> QED
      BY <2>1, <3>1, AwakeAfter DEF Paying
  <2>3. CASE Update(r, [a EXCEPT !.pc = "connecting", !.conn = None])
    BY <1>1, <2>1, <2>3 DEF Paying, Sleeps, Update, Typed, CallsGood, Attempt
  <2> QED
    BY <2>1, <2>2, <2>3
<1>7. CASE Connected(r)
  BY <1>7, ConnectedStep DEF Connected, Paying, Sleeps
<1>8. CASE ReceiveHeaders(r)
  <2>1. a.pc = "head" /\ ~Sleeps(r) /\ a.conn # None
    BY <1>1, <1>8 DEF ReceiveHeaders, At, Sleeps, Good
  <2>2. PICK answer \in Answers :
          LET b == [a EXCEPT !.kind = answer.kind, !.to = answer.to, !.keep = answer.keep]
          IN  \/ /\ UNCHANGED limits
                 /\ \/ Returned(r, b, Held(b))
                    \/ Update(r, [b EXCEPT !.pc = "body"])
                    \/ Update(r, Failed(b))
              \/ BodyRead(r, b)
    BY <1>8 DEF ReceiveHeaders
  <2> DEFINE b == [a EXCEPT !.kind = answer.kind, !.to = answer.to, !.keep = answer.keep]
  <2>3. answer.to \in Hosts \cup {None} /\ answer.keep \in BOOLEAN /\ answer.kind \in Kinds
    BY AnswersAssumption DEF Answer
  <2>4. b \in Attempt /\ b.pc = "head" /\ b.conn = a.conn /\ Good(b)
    BY <1>1, <2>1, <2>3 DEF Good, Attempt
  <2> HIDE DEF b
  <2>5. CASE UNCHANGED limits /\ Returned(r, b, Held(b))
    <3>1. Good(Held(b)) /\ Held(b).pc = "held"
      BY <2>1, <2>4, EndProperties
    <3>2. \E d : Good(d) /\ Update(r, d) /\ d.pc \in {"held", "start"}
      BY <2>4, <2>5, <3>1, ReturnedProperties
    <3> QED
      BY <2>5, <3>2, AwakeAfter DEF Paying
  <2>6. CASE UNCHANGED limits /\ Update(r, [b EXCEPT !.pc = "body"])
    BY <2>4, <2>6 DEF Paying, Sleeps, Update, Typed, CallsGood, Attempt
  <2>7. CASE UNCHANGED limits /\ Update(r, Failed(b))
    BY <2>4, <2>7, EndProperties, AwakeAfter DEF Paying
  <2>8. CASE BodyRead(r, b)
    BY <2>1, <2>4, <2>8, BodyReadPaying
  <2> QED
    BY <2>2, <2>5, <2>6, <2>7, <2>8 DEF b
<1>9. CASE ReadContent(r)
  BY <1>1, <1>9, BodyReadPaying DEF ReadContent, At, Sleeps
<1>10. CASE ReadHeld(r)
  <2>1. UNCHANGED limits /\ (Update(r, Blank("done")) \/ Update(r, Failed(a)))
    BY <1>10 DEF ReadHeld
  <2>2. \E b : Good(b) /\ Update(r, b) /\ b.pc \in {"done", "failed"}
    BY <1>1, <2>1, BlankProperties, EndProperties DEF Ended
  <2> QED
    BY <2>1, <2>2, AwakeAfter DEF Paying
<1> QED
  BY <1>2, <1>3, <1>4, <1>5, <1>6, <1>7, <1>8, <1>9, <1>10 DEF Attempts

(* The limit as a lone call r sees it. *)
Ages(q, period) ==
    /\ \A i, j \in 1 .. Len(q) : i <= j => q[i] >= q[j]
    /\ \A i \in 1 .. Len(q) : q[i] < period

LoneSound(q, limit, sleeps, nap) ==
    /\ Ages(q, limit.period)
    /\ sleeps => nap >= limit.ahead
    /\ limit.ahead = 0 => Len(q) <= limit.count /\ (sleeps => Len(q) < limit.count)
    /\ limit.ahead > 0 =>
         /\ limit.usage \in 1 .. limit.count
         /\ limit.usage <= Len(q) /\ Len(q) - limit.usage <= limit.count
         /\ q[Len(q) - limit.usage + 1] = limit.period - limit.ahead

LonePaced(r) == LoneSound(recent, rate, Sleeps(r), call[r].nap)

LEMMA PacedProperties ==
    /\ Paced <=> \A r \in Calls : Calls = {r} => LonePaced(r)
    /\ Paced' <=> \A r \in Calls : Calls = {r} => LonePaced(r)'
<1>1. Paced <=> \A r \in Calls : Calls = {r} => LonePaced(r)
  BY DEF Paced, LonePaced, LoneSound, Ages, Sleeps
<1>2. Paced' <=> \A r \in Calls : Calls = {r} => LonePaced(r)'
  BY DEF Paced, LonePaced, LoneSound, Ages, Sleeps
<1> QED
  BY <1>1, <1>2

(* The numbers of a limit. *)
LEMMA RateFields ==
    ASSUME NEW limit \in RateOf(SUBSET Hosts)
    PROVE  /\ limit.count \in Nat \ {0} /\ limit.period \in Nat \ {0}
           /\ limit.usage \in Nat /\ limit.ahead \in Nat
BY DEF RateOf

(* A request that is let through is the youngest. *)
LEMMA OneMore ==
    ASSUME NEW q \in Seq(Nat), NEW P \in Nat \ {0},
           Ages(q, P)
    PROVE  LET p == Append(q, 0) IN
           /\ Len(p) = Len(q) + 1 /\ p[Len(q) + 1] = 0
           /\ \A i \in 1 .. Len(q) : p[i] = q[i]
           /\ Ages(p, P)
<1> DEFINE p == Append(q, 0)
<1>1. /\ Len(p) = Len(q) + 1 /\ p[Len(q) + 1] = 0 /\ Len(q) \in Nat
      /\ \A i \in 1 .. Len(q) : p[i] = q[i] /\ q[i] \in Nat
  OBVIOUS
<1>2. \A i \in 1 .. Len(p) : i \in 1 .. Len(q) \/ i = Len(q) + 1
  BY <1>1
<1> HIDE DEF p
<1>3. \A i \in 1 .. Len(p) : p[i] < P /\ p[i] \in Nat
  BY <1>1, <1>2 DEF Ages
<1>4. ASSUME NEW i \in 1 .. Len(p), NEW j \in 1 .. Len(p), i <= j
      PROVE  p[i] >= p[j]
  <2>1. CASE j \in 1 .. Len(q)
    BY <1>1, <1>4, <2>1 DEF Ages
  <2>2. CASE j = Len(q) + 1
    BY <1>1, <1>3, <1>4, <2>2
  <2> QED
    BY <1>2, <2>1, <2>2
<1> QED
  BY <1>1, <1>3, <1>4 DEF p, Ages

(* Where the first request of the cycle stands. *)
LEMMA FirstOfCycle ==
    ASSUME NEW n \in Nat, NEW u \in Nat, NEW c \in Nat, u \in 1 .. c, u <= n
    PROVE  /\ n - u + 1 \in 1 .. n
           /\ n + 1 - (u + 1) = n - u /\ n + 1 - (u + 1) + 1 = n - u + 1
           /\ u < c => u + 1 \in 1 .. c
           /\ u + 1 <= n + 1
OBVIOUS

LEMMA CountedPaced ==
    ASSUME NEW limit \in RateOf(SUBSET Hosts), NEW q \in Seq(Nat), NEW nap,
           LoneSound(q, limit, FALSE, nap), ~Exhausted(limit)
    PROVE  LoneSound(Append(q, 0), Counted(limit), FALSE, nap)
<1> DEFINE p == Append(q, 0)
<1>1. /\ limit.count \in Nat \ {0} /\ limit.period \in Nat \ {0}
      /\ limit.usage \in Nat /\ limit.ahead \in Nat
  BY RateFields
<1>2. /\ Len(p) = Len(q) + 1 /\ p[Len(q) + 1] = 0 /\ Len(q) \in Nat
      /\ \A i \in 1 .. Len(q) : p[i] = q[i]
      /\ Ages(p, limit.period)
  BY <1>1, OneMore DEF LoneSound
<1> HIDE DEF p
<1>3. CASE limit.ahead = 0
  <2>1. /\ Counted(limit).count = limit.count /\ Counted(limit).period = limit.period
        /\ Counted(limit).usage = 1 /\ Counted(limit).ahead = limit.period
    BY <1>3 DEF Counted, RateOf
  <2>2. Len(q) <= limit.count
    BY <1>3 DEF LoneSound
  <2>3. Len(p) - 1 = Len(q) /\ Len(p) - 1 + 1 = Len(q) + 1
    BY <1>2
  <2> QED
    BY <1>1, <1>2, <2>1, <2>2, <2>3 DEF LoneSound, p
<1>4. CASE limit.ahead > 0
  <2>1. /\ Counted(limit).count = limit.count /\ Counted(limit).period = limit.period
        /\ Counted(limit).usage = limit.usage + 1 /\ Counted(limit).ahead = limit.ahead
    BY <1>4 DEF Counted, RateOf
  <2>2. /\ limit.usage \in 1 .. limit.count
        /\ limit.usage <= Len(q) /\ Len(q) - limit.usage <= limit.count
        /\ q[Len(q) - limit.usage + 1] = limit.period - limit.ahead
    BY <1>4 DEF LoneSound
  <2>3. limit.usage < limit.count
    BY <1>1, <1>4 DEF Exhausted
  <2>4. /\ Len(q) - limit.usage + 1 \in 1 .. Len(q)
        /\ Len(p) - (limit.usage + 1) = Len(q) - limit.usage
        /\ Len(p) - (limit.usage + 1) + 1 = Len(q) - limit.usage + 1
        /\ limit.usage + 1 \in 1 .. limit.count
        /\ limit.usage + 1 <= Len(p)
    <3>1. /\ limit.count \in Nat /\ Len(q) \in Nat /\ limit.usage \in Nat
          /\ limit.usage \in 1 .. limit.count /\ limit.usage <= Len(q)
      BY <1>1, <1>2, <2>2
    <3> QED
      <4> DEFINE n == Len(q)
                 u == limit.usage
                 c == limit.count
      <4>1. n \in Nat /\ u \in Nat /\ c \in Nat /\ u \in 1 .. c /\ u <= n /\ u < c
        BY <2>3, <3>1
      <4>2. Len(p) = n + 1
        BY <1>2
      <4> HIDE DEF n, u, c, p
      <4>3. /\ n - u + 1 \in 1 .. n
            /\ n + 1 - (u + 1) = n - u /\ n + 1 - (u + 1) + 1 = n - u + 1
            /\ u + 1 \in 1 .. c /\ u + 1 <= n + 1
        BY <4>1, FirstOfCycle
      <4> QED
        BY <4>2, <4>3 DEF n, u, c
  <2>5. p[Len(p) - (limit.usage + 1) + 1] = limit.period - limit.ahead
    BY <1>2, <2>2, <2>4
  <2>6. ~(limit.ahead = 0)
    BY <1>1, <1>4
  <2> QED
    BY <1>2, <1>4, <2>1, <2>2, <2>4, <2>5, <2>6 DEF LoneSound, p
<1>5. limit.ahead = 0 \/ limit.ahead > 0
  BY <1>1
<1> QED
  BY <1>3, <1>4, <1>5

LEMMA WokenPaced ==
    ASSUME NEW limit \in RateOf(SUBSET Hosts), NEW q \in Seq(Nat), NEW nap,
           LoneSound(q, limit, TRUE, 0)
    PROVE  LoneSound(Append(q, 0), Woken(limit), FALSE, nap)
<1>1. /\ limit.count \in Nat \ {0} /\ limit.period \in Nat \ {0}
      /\ limit.usage \in Nat /\ limit.ahead \in Nat
  BY RateFields
<1>2. limit.ahead = 0 /\ Len(q) < limit.count
  BY <1>1 DEF LoneSound
<1>3. LET p == Append(q, 0) IN
      /\ Len(p) = Len(q) + 1 /\ Len(q) \in Nat
      /\ Ages(p, limit.period)
  BY <1>1, OneMore DEF LoneSound
<1>4. /\ Woken(limit).count = limit.count /\ Woken(limit).period = limit.period
      /\ Woken(limit).ahead = 0
  BY <1>2 DEF Woken, RateOf
<1> QED
  BY <1>1, <1>2, <1>3, <1>4 DEF LoneSound

(* The first request of the cycle is among the gone, or is not. *)
LEMMA Fallen ==
    ASSUME NEW n \in Nat, NEW u \in Nat, NEW c \in Nat, NEW gone \in Nat,
           u \in 1 .. c, n - u + 1 <= gone
    PROVE  n - gone < c
OBVIOUS

(* A tick ends the cycle, or moves its first request along with it. *)
LEMMA TickPaced ==
    ASSUME NEW limit \in RateOf(SUBSET Hosts), NEW q \in Seq(Nat),
           NEW sleeps \in BOOLEAN, NEW nap \in Nat, NEW gone \in 0 .. Len(q),
           limit.ahead <= limit.period,
           \A i \in DOMAIN q : i <= gone <=> q[i] + 1 = limit.period,
           LoneSound(q, limit, sleeps, nap)
    PROVE  LoneSound([i \in 1 .. Len(q) - gone |-> q[gone + i] + 1], Later(limit),
                     sleeps, Less(nap))
<1> DEFINE p == [i \in 1 .. Len(q) - gone |-> q[gone + i] + 1]
<1>1. /\ limit.count \in Nat \ {0} /\ limit.period \in Nat \ {0}
      /\ limit.usage \in Nat /\ limit.ahead \in Nat
  BY RateFields
<1>2. Len(q) \in Nat /\ gone \in Nat /\ gone <= Len(q) /\ \A i \in 1 .. Len(q) : q[i] \in Nat
  OBVIOUS
<1>3. /\ Len(p) = Len(q) - gone /\ Len(p) \in Nat
      /\ \A i \in 1 .. Len(p) : gone + i \in 1 .. Len(q) /\ p[i] = q[gone + i] + 1
  BY <1>2
<1>4. \A i \in 1 .. Len(p) : p[i] < limit.period
  <2>1. ASSUME NEW i \in 1 .. Len(p)
        PROVE  q[gone + i] + 1 < limit.period
    <3>1. gone + i \in DOMAIN q /\ ~(gone + i <= gone)
      BY <1>2, <1>3
    <3>2. q[gone + i] + 1 # limit.period /\ q[gone + i] < limit.period
      BY <1>3, <3>1 DEF LoneSound, Ages
    <3> QED
      BY <1>1, <1>2, <1>3, <3>2
  <2> QED
    BY <1>3, <2>1
<1>5. \A i, j \in 1 .. Len(p) : i <= j => p[i] >= p[j]
  <2>1. ASSUME NEW i \in 1 .. Len(p), NEW j \in 1 .. Len(p), i <= j
        PROVE  q[gone + i] + 1 >= q[gone + j] + 1
    <3>1. gone + i <= gone + j /\ gone + i \in 1 .. Len(q) /\ gone + j \in 1 .. Len(q)
      BY <1>2, <1>3, <2>1
    <3>2. q[gone + i] >= q[gone + j]
      BY <3>1 DEF LoneSound, Ages
    <3> QED
      BY <1>2, <3>1, <3>2
  <2> HIDE DEF p
  <2> QED
    BY <1>3, <2>1
<1>6. /\ Later(limit).count = limit.count /\ Later(limit).period = limit.period
      /\ Later(limit).usage = limit.usage /\ Later(limit).ahead = Less(limit.ahead)
  BY DEF Later, RateOf
<1>7. sleeps => Less(nap) >= Less(limit.ahead)
  BY <1>1 DEF LoneSound, Less
<1> HIDE DEF p
<1>8. Ages(p, limit.period)
  BY <1>4, <1>5 DEF Ages
<1>9. CASE limit.ahead = 0
  <2>1. Less(limit.ahead) = 0 /\ Len(p) <= Len(q)
    BY <1>2, <1>3, <1>9 DEF Less
  <2>2. Len(q) <= limit.count /\ (sleeps => Len(q) < limit.count)
    BY <1>9 DEF LoneSound
  <2>3. Len(p) <= limit.count /\ (sleeps => Len(p) < limit.count)
    BY <1>1, <1>2, <1>3, <2>1, <2>2
  <2>4. ~(0 > 0)
    OBVIOUS
  <2> QED
    BY <1>6, <1>7, <1>8, <2>1, <2>3, <2>4 DEF LoneSound, p
<1>10. CASE limit.ahead > 0
  <2> DEFINE first == Len(q) - limit.usage + 1
  <2>1. /\ limit.usage \in 1 .. limit.count
        /\ limit.usage <= Len(q) /\ Len(q) - limit.usage <= limit.count
        /\ q[first] = limit.period - limit.ahead
    BY <1>10 DEF LoneSound
  <2>2. first \in 1 .. Len(q)
    <3>1. /\ limit.count \in Nat /\ Len(q) \in Nat /\ limit.usage \in Nat
          /\ limit.usage \in 1 .. limit.count /\ limit.usage <= Len(q)
      BY <1>1, <1>2, <2>1
    <3> QED
      BY <3>1, FirstOfCycle
  <2>3. first <= gone <=> limit.ahead = 1
    <3>1. first \in DOMAIN q
      BY <2>2
    <3>2. first <= gone <=> limit.period - limit.ahead + 1 = limit.period
      BY <2>1, <3>1
    <3> QED
      BY <1>1, <3>2
  <2>4. CASE limit.ahead = 1
    <3>1. Less(limit.ahead) = 0 /\ ~(0 > 0)
      BY <2>4 DEF Less
    <3>2. Len(p) < limit.count
      <4>1. /\ Len(q) \in Nat /\ limit.usage \in Nat /\ limit.count \in Nat /\ gone \in Nat
            /\ limit.usage \in 1 .. limit.count /\ Len(q) - limit.usage + 1 <= gone
        BY <1>1, <1>2, <2>1, <2>3, <2>4
      <4>2. Len(q) - gone < limit.count
        BY <4>1, Fallen
      <4> QED
        BY <1>3, <4>2
    <3>3. Len(p) <= limit.count
      BY <1>1, <1>3, <3>2
    <3> QED
      BY <1>6, <1>7, <1>8, <3>1, <3>2, <3>3 DEF LoneSound, p
  <2>5. CASE limit.ahead > 1
    <3>1. Less(limit.ahead) = limit.ahead - 1 /\ limit.ahead - 1 > 0 /\ ~(limit.ahead - 1 = 0)
      BY <1>1, <2>5 DEF Less
    <3>2. /\ limit.usage <= Len(p) /\ Len(p) - limit.usage <= limit.count
          /\ Len(p) - limit.usage + 1 \in 1 .. Len(p)
          /\ gone + (Len(p) - limit.usage + 1) = first
      <4>1. ~(first <= gone)
        BY <1>1, <2>3, <2>5
      <4>2. /\ Len(q) \in Nat /\ limit.usage \in Nat /\ limit.count \in Nat /\ gone \in Nat
            /\ limit.usage \in 1 .. limit.count /\ ~(Len(q) - limit.usage + 1 <= gone)
            /\ limit.usage <= Len(q) /\ Len(q) - limit.usage <= limit.count /\ gone <= Len(q)
        BY <1>1, <1>2, <2>1, <4>1
      <4>3. /\ limit.usage <= Len(q) - gone /\ Len(q) - gone - limit.usage <= limit.count
            /\ Len(q) - gone - limit.usage + 1 \in 1 .. Len(q) - gone
            /\ gone + (Len(q) - gone - limit.usage + 1) = Len(q) - limit.usage + 1
        <5> DEFINE n == Len(q)
                   u == limit.usage
                   c == limit.count
        <5>1. /\ n \in Nat /\ u \in Nat /\ c \in Nat /\ gone \in Nat /\ u \in 1 .. c
              /\ u <= n /\ n - u <= c /\ ~(n - u + 1 <= gone) /\ gone <= n
          BY <4>2
        <5> HIDE DEF n, u, c
        <5>2. /\ u <= n - gone /\ n - gone - u <= c
              /\ n - gone - u + 1 \in 1 .. n - gone
              /\ gone + (n - gone - u + 1) = n - u + 1
          BY <5>1
        <5> QED
          BY <5>2 DEF n, u, c
      <4> QED
        BY <1>3, <4>3
    <3>3. p[Len(p) - limit.usage + 1] = limit.period - (limit.ahead - 1)
      <4>1. p[Len(p) - limit.usage + 1] = q[first] + 1
        BY <1>3, <3>2
      <4>2. limit.period - limit.ahead + 1 = limit.period - (limit.ahead - 1)
        BY <1>1
      <4> QED
        BY <2>1, <4>1, <4>2
    <3> HIDE DEF first
    <3> QED
      BY <1>6, <1>7, <1>8, <2>1, <3>1, <3>2, <3>3 DEF LoneSound, p
  <2>6. limit.ahead = 1 \/ limit.ahead > 1
    BY <1>1, <1>10
  <2> QED
    BY <2>4, <2>5, <2>6
<1>11. limit.ahead = 0 \/ limit.ahead > 0
  BY <1>1
<1> QED
  BY <1>9, <1>10, <1>11

LEMMA PacedStep ==
    ASSUME Typed, Paced, [Next]_vars
    PROVE  Paced'
<1> SUFFICES ASSUME NEW r \in Calls, Calls = {r}
             PROVE  LonePaced(r)'
  BY PacedProperties
<1>1. LonePaced(r)
  BY PacedProperties
<1>2. rate \in RateOf(SUBSET Hosts) /\ recent \in Seq(Nat) /\ rate.ahead <= rate.period
  BY DEF Typed, RateTyped
<1>3. call \in [Calls -> Attempt] /\ call[r].nap \in Nat /\ Sleeps(r) \in BOOLEAN
  BY DEF Typed, CallsGood, Attempt, Sleeps
<1>4. CASE Call(r) \/ Attempts(r) \/ ReadHeld(r)
  <2>1. Paying(r)
    BY <1>4, CallPaying
  <2>2. CASE UNCHANGED limits /\ ~Sleeps(r)'
    BY <1>1, <2>2 DEF LonePaced, LoneSound, limits
  <2>3. CASE UNCHANGED limits /\ Exhausted(rate) /\ call'[r].nap = Nap(rate)
    <3>1. rate.period \in Nat /\ rate.ahead \in Nat
      BY <1>2 DEF RateOf
    <3>2. Nap(rate) = rate.ahead \/ Nap(rate) = rate.period
      BY DEF Nap
    <3>3. Nap(rate) >= rate.ahead /\ rate.ahead > 0 /\ rate.ahead # 0
      BY <1>2, <2>3, <3>1, <3>2 DEF Exhausted
    <3> QED
      BY <1>1, <2>3, <3>3 DEF LonePaced, LoneSound, limits
  <2>4. CASE /\ ~Exhausted(rate) /\ rate' = Counted(rate)
             /\ recent' = Append(recent, 0) /\ ~Sleeps(r) /\ ~Sleeps(r)'
    <3>1. LoneSound(recent, rate, FALSE, call'[r].nap)
      BY <1>1, <2>4 DEF LonePaced, LoneSound
    <3>2. LoneSound(Append(recent, 0), Counted(rate), FALSE, call'[r].nap)
      BY <1>2, <2>4, <3>1, CountedPaced
    <3> QED
      BY <2>4, <3>2 DEF LonePaced, LoneSound
  <2>5. CASE /\ Sleeps(r) /\ call[r].nap = 0 /\ rate' = Woken(rate)
             /\ recent' = Append(recent, 0) /\ ~Sleeps(r)'
    <3>1. LoneSound(recent, rate, TRUE, 0)
      BY <1>1, <2>5 DEF LonePaced, LoneSound
    <3>2. LoneSound(Append(recent, 0), Woken(rate), FALSE, call'[r].nap)
      BY <1>2, <3>1, WokenPaced
    <3> QED
      BY <2>5, <3>2 DEF LonePaced, LoneSound
  <2> QED
    BY <2>1, <2>2, <2>3, <2>4, <2>5 DEF Paying
<1>5. CASE Release \/ Drop \/ Close \/ UNCHANGED vars
  <2>1. UNCHANGED <<call, rate, recent>>
    BY <1>5 DEF Release, Drop, Close, vars, limits
  <2> QED
    BY <1>1, <2>1 DEF LonePaced, LoneSound, Sleeps
<1>6. CASE Tick
  <2>1. PICK gone \in 0 .. Len(recent) :
          /\ \A i \in DOMAIN recent : i <= gone <=> recent[i] + 1 = rate.period
          /\ recent' = [i \in 1 .. Len(recent) - gone |-> recent[gone + i] + 1]
    BY <1>6 DEF Tick
  <2>2. rate' = Later(rate)
    BY <1>6 DEF Tick
  <2>3. call'[r].nap = Less(call[r].nap) /\ call'[r].pc = call[r].pc
    BY <1>3, <1>6 DEF Tick, Attempt
  <2>4. LoneSound(recent', rate', Sleeps(r), call'[r].nap)
    BY ZenonT(60), <1>1, <1>2, <1>3, <2>1, <2>2, <2>3, TickPaced DEF LonePaced
  <2> QED
    BY <2>3, <2>4 DEF LonePaced, LoneSound, Sleeps
<1> QED
  BY <1>4, <1>5, <1>6 DEF Next

(* A call that is alone has at most twice the count let through in a       *)
(* period (limits.py:33-52): a cycle lets count requests through, and no    *)
(* more than count of the ones before it are as young.  (RateKept, which    *)
(* says count, is violated.)                                                *)
DoubledAtMost == (\E r \in Calls : Calls = {r}) => Len(recent) <= 2 * rate.count

THEOREM AtMostDoubled == Spec => []DoubledAtMost
<1>1. Init => Typed /\ Paced
  <2>1. SUFFICES ASSUME Init PROVE Paced
    BY InitTyped
  <2>2. PICK use \in Uses : /\ call = [r \in Calls |-> Before(use.asked[r])]
                            /\ rate = NewRate(use.limit)
    BY <2>1 DEF Init
  <2>3. recent = <<>> /\ rate.ahead = 0 /\ rate.count \in Nat \ {0}
    BY <2>1, <2>2, UsesAssumption DEF Init, Use, NewRate, LimitOf
  <2>4. \A r \in Calls : ~Sleeps(r)
    <3>1. \A r \in Calls : use.asked[r] \in Asks \cup {None}
      BY UsesAssumption DEF Use
    <3> QED
      BY <2>2, <3>1, BeforeProperties DEF Sleeps
  <2>5. \A r \in Calls : LonePaced(r)
    <3>1. Ages(recent, rate.period)
      BY <2>3 DEF Ages
    <3>2. Len(recent) <= rate.count /\ ~(rate.ahead > 0)
      BY <2>3
    <3> QED
      BY <2>3, <2>4, <3>1, <3>2 DEF LonePaced, LoneSound
  <2> QED
    BY <2>5, PacedProperties
<1>2. (Typed /\ Paced) /\ [Next]_vars => (Typed /\ Paced)'
  BY StepCases, PacedStep
<1>3. Typed /\ Paced => DoubledAtMost
  <2> SUFFICES ASSUME Typed, Paced, NEW r \in Calls, Calls = {r}
               PROVE  Len(recent) <= 2 * rate.count
    BY DEF DoubledAtMost
  <2>1. /\ rate.count \in Nat \ {0} /\ rate.usage \in Nat /\ rate.ahead \in Nat
        /\ Len(recent) \in Nat
    BY DEF Typed, RateTyped, RateOf
  <2>2. LonePaced(r)
    BY PacedProperties
  <2> QED
    BY <2>1, <2>2 DEF LonePaced, LoneSound
<1> QED
  BY <1>1, <1>2, <1>3, PTL DEF Spec
=============================================================================
