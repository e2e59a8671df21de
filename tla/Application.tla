---------------------------- MODULE Application -----------------------------
(* An application and its blueprints: vibora/application.py, blueprints.py, *)
(* hooks.py, exceptions.py and the initialisation in server.py.  First the  *)
(* user declares routes, hooks, exception handlers and nested blueprints in *)
(* any order; initialize() registers what it finds and the server starts;   *)
(* then a connection is accepted and its requests are served.  How requests *)
(* interleave on a connection is in module Connection: here a request is    *)
(* one step, whose hooks, endpoint and error handlers run in order.         *)
EXTENDS Integers, Sequences, FiniteSets, SequencesExt, FiniteSetsExt, Components

CONSTANTS
    App, None,
    Blueprints,     \* blueprints other than the application
    Classes,        \* exception classes
    Settings,       \* what users may declare: sets of hooks, of classes to
                    \* handle, of component types and of route names; and
                    \* what the user code of a request may do
    PrefixSets,     \* what add_blueprint may be given as prefixes
    HasSessions,    \* whether a session engine is configured
    MaxDeclared     \* bound on the declarations of a behaviour

VARIABLES
    setting,
    parent,         \* of each blueprint
    nested,         \* blueprints of a blueprint, with their prefixes
    hooks,          \* hooks and async_hooks of a blueprint, by event
    catches,        \* exception_handlers of a blueprint: classes, in order
    routes,         \* routes declared on a blueprint
    table,          \* what the router was given: routes under their prefixes
    engine,         \* components of the application
    phase,
    conn,           \* the connection: its engine and its cached hook flags
    last,           \* the last request
    declared,       \* history: the hooks declared, where, and when
    count           \* number of declarations

vars == <<setting, parent, nested, hooks, catches, routes, table, engine, phase,
          conn, last, declared, count>>

All == Blueprints \cup {App}

ASSUME NamesAssumption ==
    IsFiniteSet(Blueprints) /\ App \notin Blueprints /\ None \notin All

(* A prefix, like a path, is a sequence of segments. *)
ASSUME PrefixesAssumption == PrefixSets \subseteq SUBSET Seq(STRING)

Events == {"start", "before", "after", "sent"}
Kinds == {"sync", "async"}

Kind(h) == IF h.async THEN "async" ELSE "sync"

(* handle() makes the hooks of server events global, unless the event comes *)
(* in a list, which it compares with the events as a whole.                 *)
Local(h) == h.local /\ (h.event = "start" => h.listed)

(* The hooks for an event in the order of call_hooks: lists has those of a  *)
(* blueprint by kind and event.                                             *)
HeldIn(lists, event) ==
    LET of(kind) == IF event \in DOMAIN lists[kind] THEN lists[kind][event] ELSE <<>>
    IN of("sync") \o of("async")

Held(b, event) == HeldIn(hooks[b], event)

NoRequest == [route |-> None, ran |-> <<>>, returned |-> FALSE, cut |-> FALSE,
              raised |-> None, by |-> <<>>, silent |-> {}, answers |-> 0]

Init ==
    /\ setting \in Settings
    /\ parent = [b \in All |-> None]
    /\ nested = [b \in All |-> <<>>]
    /\ hooks = [b \in All |-> [k \in Kinds |-> [e \in Events |-> <<>>]]]
    /\ catches = [b \in All |-> <<>>]
    /\ routes = [b \in All |-> {}]
    /\ table = {}
    /\ engine = NewEngine
    /\ phase = "declaring"
    /\ conn = None
    /\ last = NoRequest
    /\ declared = {} /\ count = 0

-----------------------------------------------------------------------------
(* Declarations. *)

Declare(history) ==
    /\ count < MaxDeclared /\ count' = count + 1
    /\ declared' = declared \cup history

AddHook(held, h) == [held EXCEPT ![Kind(h)][h.event] = Append(@, h)]

(* handle(event).  Once add_blueprint has taken the global hooks out, the   *)
(* events without a local one are no longer keys: add_hook raises KeyError. *)
Handle(b, h) ==
    /\ \A d \in declared : d.hook # h
    /\ Declare({[at |-> b, hook |-> h, late |-> parent[b] # None]})
    /\ h.event \in DOMAIN hooks[b][Kind(h)]
    /\ hooks' = [hooks EXCEPT ![b] = AddHook(@, h)]
    /\ UNCHANGED <<parent, nested, catches, routes, table, engine, phase,
                   conn, last>>

(* A new key goes to the end of a dict. *)
WithKey(keys, c) == IF Contains(keys, c) THEN keys ELSE Append(keys, c)

Catch(b, c) ==
    /\ phase = "declaring" /\ ~Contains(catches[b], c)
    /\ Declare({})
    /\ catches' = [catches EXCEPT ![b] = WithKey(@, c)]
    /\ UNCHANGED <<parent, nested, hooks, routes, table, engine, phase, conn, last>>

Route(b, r) ==
    /\ phase = "declaring"
    /\ \A o \in All : r \notin routes[o]
    /\ Declare({})
    /\ routes' = [routes EXCEPT ![b] = @ \cup {r}]
    /\ UNCHANGED <<parent, nested, hooks, catches, table, engine, phase,
                   conn, last>>

(* DuplicatedBlueprint.  (ConflictingPrefixes is never raised: a prefix is  *)
(* compared with the dict of prefixes of another blueprint.)                *)
MayNest(c) == parent[c] = None

Adopt(b, c, prefixes) ==
    /\ phase = "declaring" /\ MayNest(c)
    /\ Declare({})
    /\ parent' = [parent EXCEPT ![c] = b]
    /\ nested' = [nested EXCEPT ![b] = Append(@, <<c, prefixes>>)]

(* Blueprint.add_blueprint: nothing is registered yet. *)
Nest(b, c, prefixes) ==
    /\ Adopt(b, c, prefixes)
    /\ UNCHANGED <<hooks, catches, routes, table, engine, phase, conn, last>>

(* __register_blueprint_routes: the routes of b and of all that is nested   *)
(* in it, each under every combination of prefixes on its way.              *)
Mounted(b) ==
    LET Below[n \in 0 .. Cardinality(All)] ==
            [c \in All |->
                IF n = 0 THEN {}
                ELSE {<<r, <<>>>> : r \in routes[c]} \cup
                     UNION {{<<x[1], p \o x[2]>> : x \in Below[n - 1][d[1]], p \in d[2]} :
                                d \in Range(nested[c])}]
    IN Below[Cardinality(All)][b]

(* The hooks of a list that are local, or those that are not, in order. *)
Part(list, local) ==
    LET Taken[n \in 0 .. Len(list)] ==
            IF n = 0 THEN <<>>
            ELSE IF Local(list[n]) <=> local THEN Append(Taken[n - 1], list[n])
            ELSE Taken[n - 1]
    IN Taken[Len(list)]

HasLocal(list) == \E i \in DOMAIN list : Local(list[i])

(* What an application holds once it has the global hooks of a blueprint,   *)
(* and what the blueprint is left with: no key for an event without one.    *)
Given(held, from) ==
    [k \in Kinds |-> [e \in Events |-> held[k][e] \o Part(from[k][e], FALSE)]]

Left(from) ==
    [k \in Kinds |-> [e \in {f \in Events : HasLocal(from[k][f])} |-> Part(from[k][e], TRUE)]]

(* Mutant: the asynchronous global hooks stay with the blueprint. *)
TakeOverSync(c) ==
    [hooks EXCEPT ![App].sync = Given(hooks[App], hooks[c]).sync,
                  ![c].sync = Left(hooks[c]).sync]

(* The hooks that are not local move to the application. *)
TakeOver(c) ==
    [hooks EXCEPT ![App] = Given(@, hooks[c]), ![c] = Left(@)]

(* Application.add_blueprint registers at once what the blueprint has. *)
AddBlueprint(c, prefixes) ==
    /\ Adopt(App, c, prefixes)
    /\ table' = table \cup {<<x[1], p \o x[2]>> : x \in Mounted(c), p \in prefixes}
    /\ hooks' = TakeOver(c)
    /\ UNCHANGED <<catches, routes, engine, phase, conn, last>>

AddComponent(t) ==
    /\ ~Provides(engine, t)
    /\ Declare({})
    /\ engine' = Add(engine, t)
    /\ UNCHANGED <<parent, nested, hooks, catches, routes, table, phase,
                   conn, last>>

-----------------------------------------------------------------------------
(* Start of the server. *)

(* sort_error_handlers: the deque is turned until its last class has none   *)
(* left that it is a subclass of, which is then taken out; the classes      *)
(* taken last come first.                                                   *)
Free(left) ==
    {i \in DOMAIN left : \A j \in DOMAIN left \ {i} : left[j] \notin Above[left[i]]}

TakeOut(s) ==
    LET i == Max(Free(s.left))
    IN [left |-> SubSeq(s.left, i + 1, Len(s.left)) \o SubSeq(s.left, 1, i - 1),
        taken |-> <<s.left[i]>> \o s.taken]

SortErrorHandlers(keys) ==
    LET Taken[n \in 0 .. Len(keys)] ==
            IF n = 0 THEN [left |-> keys, taken |-> <<>>] ELSE TakeOut(Taken[n - 1])
    IN Taken[Len(keys)].taken

(* _add_default_routes, _add_default_error_handlers.  The handler for       *)
(* MissingComponent replaces one of the user.                               *)
DefaultHandlers == <<"MissingComponent", "Limit", "Exception", "NotFound">>

WithDefaults(keys) ==
    LET d == DefaultHandlers
    IN WithKey(WithKey(WithKey(WithKey(keys, d[1]), d[2]), d[3]), d[4])

(* issubclass orders the classes of exceptions. *)
ASSUME ClassesAssumption ==
    /\ Range(DefaultHandlers) \subseteq Classes
    /\ \A s \in Settings : s.catchable \subseteq Classes
    /\ \A c \in Classes : c \in Above[c]
    /\ \A c, d \in Classes :
          c # d /\ d \in Above[c] => Above[d] \subseteq Above[c] /\ c \notin Above[d]

SessionStart == [name |-> "register_session_hook", event |-> "start", async |-> TRUE,
                 local |-> FALSE, listed |-> FALSE, wants |-> {"Vibora"}]

FlushSession == [name |-> "flush_session", event |-> "after", async |-> TRUE,
                 local |-> TRUE, listed |-> FALSE,
                 wants |-> {"Request", "Response", "SessionEngine"}]

(* What users declare are hooks for known events, and none of these two. *)
ASSUME SettingsAssumption ==
    \A s \in Settings : \A h \in s.hooks :
        h.event \in Events /\ h \notin {SessionStart, FlushSession}

(* Mutant: only its own routes. *)
OwnRegistered == table \cup {<<r, <<>>>> : r \in routes[App]}

(* initialize() adds the application to itself, which registers its routes  *)
(* and, again, those of every blueprint.                                    *)
Registered == table \cup Mounted(App)

(* Vibora.initialize. *)
Initialize ==
    /\ phase = "declaring"
    /\ phase' = "starting"
    /\ engine' = Add(engine, "Vibora")
    /\ table' = Registered
    /\ catches' = [catches EXCEPT ![App] = SortErrorHandlers(WithDefaults(@))]
    /\ hooks' = [hooks EXCEPT ![App] = AddHook(@, SessionStart)]
    /\ UNCHANGED <<parent, nested, routes, conn, last, declared, count>>

(* call_hooks: hooks are called until one returns a response or fails for   *)
(* want of a component.                                                     *)
Failing(e, h) == UNION {Failures(e, t) : t \in h.wants}

CallHooks(list, e, answering) ==
    LET stops == {i \in DOMAIN list : list[i] \in answering \/ Failing(e, list[i]) # {}}
        upto == IF stops = {} THEN Len(list) ELSE Min(stops)
        failed == IF stops = {} THEN {} ELSE Failing(e, list[upto])
    IN [ran |-> SubSeq(list, 1, IF failed = {} THEN upto ELSE upto - 1),
        answered |-> stops # {} /\ failed = {},
        failed |-> failed]

(* The BEFORE_SERVER_START hooks.  One that fails ends the worker.          *)
StartHooks(o) ==
    LET run == CallHooks(Held(App, "start"), engine, o.answering)
        sessions == HasSessions /\ Contains(run.ran, SessionStart)
        twice == sessions /\ Provides(engine, "FilesSessionEngine")
    IN /\ phase = "starting"
       /\ phase' = IF run.failed # {} \/ twice THEN "dead" ELSE "serving"
       /\ last' = [NoRequest EXCEPT !.ran = run.ran]
       /\ engine' = IF sessions THEN Add(engine, "FilesSessionEngine") ELSE engine
       /\ hooks' = IF sessions /\ ~twice
                   THEN [hooks EXCEPT ![App] = AddHook(@, FlushSession)] ELSE hooks
       /\ UNCHANGED <<parent, nested, catches, routes, table, conn, declared, count>>

-----------------------------------------------------------------------------
(* A connection and its requests. *)

(* Mutant: exists_hook forgets the coroutines. *)
ExistsHookSync(event) ==
    \E b \in {App} \cup {d[1] : d \in Range(nested[App])} :
        event \in DOMAIN hooks[b].sync /\ hooks[b].sync[event] # <<>>

(* Only the blueprints added to the application itself are looked at. *)
ExistsHook(event) ==
    \E b \in {App} \cup {d[1] : d \in Range(nested[App])} : Held(b, event) # <<>>

(* Connection.__init__: components and hook flags as of now. *)
Accept ==
    /\ phase = "serving" /\ conn = None
    /\ conn' = [engine |-> Clone(engine),
                flags |-> {e \in Events : ExistsHook(e)},
                known |-> declared]
    /\ UNCHANGED <<parent, nested, hooks, catches, routes, table, engine,
                   phase, last, declared, count>>

Owner(r) == CHOOSE b \in All : r \in routes[b]

(* Mutant: the hooks of the application are asked for their own routes only. *)
TargetsOwner(b, event) == Held(b, event)

(* The blueprint of the route, then the application; those between are not  *)
(* asked.                                                                   *)
Targets(b, event) ==
    IF b = App THEN Held(App, event) ELSE Held(b, event) \o Held(App, event)

(* The handlers of one blueprint that would answer an exception of class c. *)
Speaking(b, c, silent) ==
    {i \in DOMAIN catches[b] : catches[b][i] \in Above[c] /\ <<b, catches[b][i]>> \notin silent}

(* Mutant: the exact class has no precedence. *)
FirstAnswering(b, c, silent) == catches[b][Min(Speaking(b, c, silent))]

(* process_exception on one blueprint: the handler of the class itself is   *)
(* tried first, then the others in the order of the dict.                   *)
Answering(b, c, silent) ==
    IF \E i \in Speaking(b, c, silent) : catches[b][i] = c THEN c
    ELSE catches[b][Min(Speaking(b, c, silent))]

(* The blueprints from b up to the application. *)
Lineage(b) ==
    LET Up[n \in 0 .. Cardinality(All)] ==
            [c \in All \cup {None} |->
                IF n = 0 \/ c = None THEN <<>> ELSE <<c>> \o Up[n - 1][parent[c]]]
    IN Up[Cardinality(All)][b]

(* handle_exception: the first handler that returns a response. *)
ProcessException(b, c, silent) ==
    LET up == Lineage(b)
        able == {n \in DOMAIN up : Speaking(up[n], c, silent) # {}}
        at == up[Min(able)]
    IN IF able = {} THEN <<>> ELSE <<at, Answering(at, c, silent)>>

(* handle_request.  before, after and sent are the runs of the hooks; a     *)
(* failure anywhere goes to handle_exception, even after the response was   *)
(* sent, when after_response has reset the components of the request.       *)
Serve(r, o) ==
    LET b == Owner(r)
        e == AddEphemeral(conn.engine, "Request")
        Called(event, comps) == IF event \in conn.flags
            THEN CallHooks(Targets(b, event), comps, o.answering)
            ELSE [ran |-> <<>>, answered |-> FALSE, failed |-> {}]
        before == Called("before", e)
        halted == before.answered \/ before.failed # {}
        wrong == IF o.raises # None THEN {o.raises}
                 ELSE UNION {Failures(e, t) : t \in o.wants}
        returned == ~halted /\ wrong = {}
        after == Called("after", AddEphemeral(e, "Response"))
        sends == returned /\ after.failed = {}
        sent == Called("sent", Reset(e))
        raised == CASE halted -> before.failed
                    [] ~halted /\ ~returned -> wrong
                    [] returned /\ ~sends -> after.failed
                    [] OTHER -> sent.failed
        class == IF raised = {} THEN None ELSE CHOOSE c \in raised : TRUE
        by == IF raised = {} THEN <<>> ELSE ProcessException(b, class, o.silent)
    IN /\ conn # None /\ \E p \in table : p[1] = r
       /\ last' = [route |-> r,
                   ran |-> before.ran \o (IF returned THEN after.ran ELSE <<>>)
                               \o (IF sends THEN sent.ran ELSE <<>>),
                   returned |-> returned, cut |-> after.answered \/ after.failed # {},
                   raised |-> class, by |-> by, silent |-> o.silent,
                   answers |-> (IF before.answered \/ sends THEN 1 ELSE 0)
                                   + (IF by = <<>> THEN 0 ELSE 1)]
       /\ UNCHANGED <<parent, nested, hooks, catches, routes, table, engine,
                      phase, conn, declared, count>>

Declaration ==
    \/ \E b \in All :
          \/ \E h \in setting.hooks : Handle(b, h)
          \/ \E c \in setting.catchable : Catch(b, c)
          \/ \E r \in setting.endpoints : Route(b, r)
    \/ \E c \in Blueprints, prefixes \in PrefixSets :
          \/ \E b \in Blueprints : Nest(b, c, prefixes)
          \/ AddBlueprint(c, prefixes)
    \/ \E t \in setting.extras : AddComponent(t)

Step ==
    \/ Declaration \/ Initialize \/ Accept
    \/ \E o \in setting.outcomes : StartHooks(o) \/ \E r \in setting.endpoints : Serve(r, o)

Next == UNCHANGED setting /\ Step

Spec == Init /\ [][Next]_vars

-----------------------------------------------------------------------------
(* The type of the declarations and of the state of a running server. *)
TypeOK ==
    /\ parent \in [All -> All \cup {None}]
    /\ \A b \in All : \A d \in Range(nested[b]) : d \in Blueprints \X PrefixSets
    /\ \A b \in All : \A k \in Kinds : DOMAIN hooks[b][k] \subseteq Events
    /\ \A b \in All : Range(catches[b]) \subseteq Classes
    /\ routes \in [All -> SUBSET setting.endpoints]
    /\ {p[1] : p \in table} \subseteq setting.endpoints
    /\ phase \in {"declaring", "starting", "serving", "dead"}
    /\ conn # None => phase = "serving"
    /\ last.answers \in 0 .. 2

Home(d) == IF ~d.late /\ parent[d.at] = App /\ ~Local(d.hook) THEN App ELSE d.at

(* A hook that was declared is kept once and in one place: with the         *)
(* application if it is global and its blueprint was added to it after the  *)
(* declaration, and otherwise with its blueprint, however declarations and  *)
(* add_blueprint alternate (application.py:137-147).                        *)
HooksKept ==
    \A d \in declared, b \in All :
        Cardinality({i \in DOMAIN Held(b, d.hook.event) :
                         Held(b, d.hook.event)[i] = d.hook})
            = (IF b = Home(d) THEN 1 ELSE 0)

(* Where a blueprint is mounted, by the way up from it to the application.  *)
MountPoints(b) ==
    LET Up[n \in 0 .. Cardinality(All)] ==
            [c \in All |->
                IF c = App THEN {<<>>}
                ELSE IF n = 0 \/ parent[c] = None THEN {}
                ELSE UNION {{q \o p : q \in Up[n - 1][parent[c]], p \in d[2]} :
                                d \in {x \in Range(nested[parent[c]]) : x[1] = c}}]
    IN Up[Cardinality(All)][b]

(* When the server starts the router has every route under every prefix by  *)
(* which its blueprint is reached and no other, in whatever order routes    *)
(* were declared and blueprints nested and added (application.py:96-135).   *)
Reached ==
    phase # "declaring" =>
        table = UNION {routes[b] \X MountPoints(b) : b \in All}

(* No endpoint runs before the hooks in its scope: those the application    *)
(* holds, and those of its own blueprint if that was added to the           *)
(* application itself; at least those declared before the connection was    *)
(* accepted, which looks for hooks only then (cprotocol.pyx:73-76).         *)
Guarded ==
    last.returned =>
        \A d \in conn.known :
            LET b == Owner(last.route)
                scope == {App} \cup (IF b = App \/ parent[b] = App THEN {b} ELSE {})
            IN /\ d.hook.event = "before"
               /\ \E s \in scope : Contains(Held(s, "before"), d.hook)
               => Contains(last.ran, d.hook)

(* A session engine that was configured flushes the session of every        *)
(* request whose endpoint returned, unless an AFTER_ENDPOINT hook replaced  *)
(* the response or failed, or a BEFORE_SERVER_START hook returned a value   *)
(* and so kept it from being set up (server.py:212-231).                    *)
SessionFlushed ==
    /\ last.returned /\ Contains(Held(App, "after"), FlushSession) /\ ~last.cut
    => Contains(last.ran, FlushSession)

(* An exception is answered by the nearest blueprint that has a handler for *)
(* it which returns a response: there the handler of its own class if there *)
(* is one, and on the application the most specific (blueprints.py:96-124,  *)
(* server.py:170-187).                                                      *)
Nearest ==
    last.raised # None =>
        LET up == Lineage(Owner(last.route))
            fit == {t \in (DOMAIN up) \X Above[last.raised] :
                        /\ Contains(catches[up[t[1]]], t[2])
                        /\ <<up[t[1]], t[2]>> \notin last.silent}
        IN IF fit = {} THEN last.by = <<>>
           ELSE \E t \in fit :
                    /\ last.by = <<up[t[1]], t[2]>>
                    /\ \A u \in fit :
                          /\ t[1] <= u[1]
                          /\ t[1] = u[1] /\ u[2] = last.raised => t = u
                          /\ t[1] = u[1] /\ up[t[1]] = App /\ t # u
                                 => t[2] \notin Above[u[2]]

=============================================================================
