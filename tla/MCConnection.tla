---------------------------- MODULE MCConnection ----------------------------
(* Instances of Connection: what each client sends and what may happen.    *)
EXTENDS Connection

World(chunks, features) ==
    [body |-> chunks, limit |-> [i \in DOMAIN chunks |-> 0], cached |-> {},
     upgrades |-> {}, features |-> features]

Streams == {"chunked", "complete", "stream_timeouts", "stops", "drops"}

(* Clients that are served: requests with a body and without one, before   *)
(* and after one another, with failing handlers and hooks, with timeouts,  *)
(* with streaming responses to a slow client, and without keep-alive.      *)
TameWorlds == {
    World(<<2, 0, 1>>, Streams \cup {"keep_alive", "plain", "failures", "hooks"}),
    World(<<0, 0, 0>>, Streams \cup {"keep_alive", "plain", "hooks", "route_timeouts"}),
    World(<<2, 0, 1>>, Streams \cup {"keep_alive", "pauses", "hooks"}),
    World(<<2, 0, 1>>, Streams \cup {"plain", "failures"})}

(* Everything that may happen; hooks and timeouts that answer again, before *)
(* a third request; a cached response before an upgrade; a body at the     *)
(* limit and one over it.                                                  *)
WildWorlds == {
    World(<<2, 1>>, FeatureNames \ {"early"}),
    World(<<0, 1, 0>>, {"keep_alive", "plain", "failures", "hooks", "hook_failures",
                        "route_timeouts"}),
    [World(<<0, 0>>, FeatureNames) EXCEPT !.cached = {1}, !.upgrades = {2}],
    [World(<<2, 4>>, {"keep_alive", "plain", "failures", "stops", "drops"})
        EXCEPT !.limit = <<2, 2>>]}

AllWorlds == TameWorlds \cup WildWorlds
=============================================================================
