------------------------------ MODULE MCClient ------------------------------
(* Client for TLC: calls to a host that may redirect to another.           *)
EXTENDS Client, TLC

CONSTANTS one, two, home, other

Asking(method, stream, statuses) ==
    [method |-> method, url |-> home, stream |-> stream, statuses |-> statuses]

Post == Asking("POST", FALSE, 0)
StreamedPost == Asking("POST", TRUE, 0)

(* A call that may be repeated for its status. *)
Repeated(method) == Asking(method, FALSE, 1)

AllAsks == {Post, StreamedPost, Repeated("GET"), Repeated("POST")}

(* One answer of each kind, redirects to either host, one that closes. *)
AllAnswers ==
    {[kind |-> "sized", to |-> None, keep |-> TRUE],
     [kind |-> "sized", to |-> other, keep |-> TRUE],
     [kind |-> "empty", to |-> None, keep |-> FALSE],
     [kind |-> "empty", to |-> home, keep |-> TRUE],
     [kind |-> "bare", to |-> None, keep |-> TRUE],
     [kind |-> "endless", to |-> None, keep |-> FALSE]}

Limit(count, period, pattern, optimistic) ==
    [count |-> count, period |-> period, pattern |-> pattern, optimistic |-> optimistic]

NoLimit == Limit(1, 1, {}, FALSE)

UseOf(limit, first, second) ==
    [limit |-> limit, asked |-> [r \in Calls |-> IF r = one THEN first ELSE second]]

(* Two calls beside each other without a limit, one streams its answer. *)
PairUses == {UseOf(NoLimit, Post, StreamedPost)}

(* One call alone, with every retry: a GET under a strict limit for one    *)
(* host, a POST under an optimistic one for both.                          *)
LimitedUses ==
    {UseOf(Limit(1, 1, {home}, FALSE), Repeated("GET"), None),
     UseOf(Limit(1, 2, {home, other}, TRUE), Repeated("POST"), None)}

AllUses == PairUses \cup LimitedUses
=============================================================================
