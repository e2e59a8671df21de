--------------------------- MODULE MCApplication ----------------------------
(* Application for TLC: two blueprints, one hook of each kind that matters, *)
(* and exceptions one below the other.                                      *)
EXTENDS Application, TLC

Hook(name, event, async, local, listed, wants) ==
    [name |-> name, event |-> event, async |-> async, local |-> local,
     listed |-> listed, wants |-> wants]

Authorize == Hook("authorize", "before", TRUE, FALSE, FALSE, {"Request"})
Check == Hook("check", "before", FALSE, TRUE, FALSE, {})
Stamp == Hook("stamp", "after", FALSE, FALSE, FALSE, {"Response"})
Log == Hook("log", "sent", TRUE, TRUE, FALSE, {"Request"})
Warm == Hook("warm", "start", FALSE, TRUE, FALSE, {"Vibora"})
Listed == Hook("listed", "start", TRUE, TRUE, TRUE, {"Custom"})

Builtin == {"Exception", "MissingComponent", "NotFound", "Limit", "ValueError"}
AllClasses == Builtin \cup {"Parent", "Child"}

AboveDef ==
    [t \in AllClasses \cup {"Vibora", "Request", "Response", "Custom", "FilesSessionEngine"} |->
        CASE t = "Child" -> {"Child", "Parent", "Exception"}
          [] t \in AllClasses \ {"Child"} -> {t, "Exception"}
          [] t = "FilesSessionEngine" -> {t, "SessionEngine"}
          [] OTHER -> {t}]

PlainOrTwo == {{<<>>}, {<<"a">>, <<"b">>}}

Outcome(answering, raises, wants, silent) ==
    [answering |-> answering, raises |-> raises, wants |-> wants, silent |-> silent]

Plain == Outcome({}, None, {}, {})
AnsweredBy(h) == Outcome({h}, None, {}, {})
Needing(t) == Outcome({}, None, {t}, {})
Raising(c, silent) == Outcome({}, c, {}, silent)

(* Hooks of requests, hooks of the start, error handlers, and prefixes.     *)
AllSettings ==
    {[hooks |-> {Authorize, Check, Log}, catchable |-> {}, extras |-> {},
      endpoints |-> {"home"}, outcomes |-> {Needing("Request"), AnsweredBy(Check)}],
     [hooks |-> {Stamp, Warm, Listed}, catchable |-> {}, endpoints |-> {"home"},
      extras |-> {"Custom", "FilesSessionEngine"},
      outcomes |-> {Plain, Needing("Custom"), AnsweredBy(Stamp), AnsweredBy(Warm)}],
     [hooks |-> {}, catchable |-> {"Exception", "Parent", "Child"}, extras |-> {},
      endpoints |-> {"home"},
      outcomes |-> {Raising("Child", {}), Raising("Child", {<<App, "Child">>})}],
     [hooks |-> {}, catchable |-> {}, extras |-> {}, endpoints |-> {"home", "shop"},
      outcomes |-> {Plain}]}

BlueprintSymmetry == Permutations(Blueprints)
=============================================================================
