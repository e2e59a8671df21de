----------------------------- MODULE RequestRate -----------------------------
(* Class RequestRate of the client (vibora/client/limits.py) as operators   *)
(* on a record.  Time is counted in ticks: ahead is what is left until      *)
(* _next_flush, and 0 once that is past or was never set.  (The instant of  *)
(* _next_flush itself, at which nothing is reset or limited, has no tick.)  *)
EXTENDS Naturals

(* A limit: count requests in a period, to the hosts its pattern matches.   *)
LimitOf(patterns) == [count : Nat \ {0}, period : Nat \ {0}, pattern : patterns,
                      optimistic : BOOLEAN]
RateOf(patterns) == [count : Nat \ {0}, period : Nat \ {0}, pattern : patterns,
                     optimistic : BOOLEAN, usage : Nat, ahead : Nat]

NewRate(limit) ==
    [count |-> limit.count, period |-> limit.period, pattern |-> limit.pattern,
     optimistic |-> limit.optimistic, usage |-> 0, ahead |-> 0]

(* notify() sleeps when the usage of this cycle is up, for what is left of  *)
(* it or for a whole period.                                                *)
Exhausted(rate) == rate.ahead > 0 /\ rate.usage >= rate.count
Nap(rate) == IF rate.optimistic THEN rate.ahead ELSE rate.period

(* notify() does not sleep: a new cycle begins or the request is counted.   *)
Counted(rate) ==
    IF rate.ahead = 0 THEN [rate EXCEPT !.ahead = rate.period, !.usage = 1]
                      ELSE [rate EXCEPT !.usage = @ + 1]

(* It slept.  What it waited for is not looked at again, nor begun. *)
Woken(rate) == [rate EXCEPT !.usage = 1]

Less(ticks) == IF ticks = 0 THEN 0 ELSE ticks - 1
Later(rate) == [rate EXCEPT !.ahead = Less(@)]
=============================================================================
