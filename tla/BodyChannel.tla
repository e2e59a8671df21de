---------------------------- MODULE BodyChannel ----------------------------
(***************************************************************************)
(* What the body stream of one request promises its reader: the chunks the *)
(* client sent, each once and in order, and the end of the body after the  *)
(* last of them and only once the client has sent it.                      *)
(***************************************************************************)
EXTENDS Naturals, Sequences

CONSTANT N           \* how many chunks the body has, a natural number

VARIABLES
    sent,            \* chunks 1..sent have arrived
    complete,        \* the end of the message has arrived
    got,             \* what the reader was given
    atEnd            \* the reader was told that the body is over

vars == <<sent, complete, got, atEnd>>

Init == sent = 0 /\ complete = FALSE /\ got = <<>> /\ atEnd = FALSE

Arrive ==
    /\ ~complete
    /\ sent' \in sent .. N
    /\ complete' \in BOOLEAN
    /\ complete' => sent' = N
    /\ UNCHANGED <<got, atEnd>>

Deliver ==
    /\ Len(got) < sent
    /\ got' = Append(got, Len(got) + 1)
    /\ UNCHANGED <<sent, complete, atEnd>>

Finish ==
    /\ complete /\ Len(got) = N /\ ~atEnd
    /\ atEnd' = TRUE
    /\ UNCHANGED <<sent, complete, got>>

Next == Arrive \/ Deliver \/ Finish

Spec == Init /\ [][Next]_vars
=============================================================================
