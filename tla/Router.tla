------------------------------- MODULE Router -------------------------------
(***************************************************************************)
(* The router (router/router.py): the tables of routes that registration   *)
(* fills when the server starts, the strategies for ending slashes, and    *)
(* the lookup of the route of a request, with its cache.                   *)
(*                                                                         *)
(* A URL is a sequence of segments and an optional ending slash; a pattern *)
(* is a URL some of whose segments may be parameters, which match any      *)
(* segment.  The pattern of a virtual host is the set of the hosts that it *)
(* matches.  Handlers are named by their routes.                           *)
(***************************************************************************)
EXTENDS Naturals, Sequences, SequencesExt

Methods == {"GET", "POST"}

CONSTANTS
    Param,           \* a segment of a pattern that is a parameter
    Segments,        \* the other segments
    Hosts,           \* the hosts that requests may name
    NoHost,          \* a request without a Host header
    Strategies,      \* the strategies an application may choose
    Declared,        \* the routes that it may declare
    PrefixLists,     \* the prefixes it may declare them with, in order
    Requests,        \* the requests that clients make
    MaxSize,         \* max_size of the LRUCache
    MaxRoutes,       \* how many routes are declared, for model checking
    MaxLookups       \* how many requests are made, for model checking

Path == Seq(Segments \cup {Param})
Pattern == [path : Path, slash : BOOLEAN]

RouteOf(names) == [name : names, pattern : Pattern, dynamic : BOOLEAN,
                   methods : SUBSET Methods, hosts : Seq(SUBSET Hosts), to : Seq(Pattern)]

Names == {route.name : route \in Declared}

IsDynamic(pattern) == \E i \in DOMAIN pattern.path : pattern.path[i] = Param

ASSUME StrategiesAssumption == Strategies \subseteq {"STRICT", "REDIRECT", "CLONE"}
ASSUME DeclaredAssumption ==
    /\ Declared \subseteq RouteOf(Names)
    /\ \A route \in Declared : route.dynamic = IsDynamic(route.pattern) /\ route.to = <<>>
ASSUME PrefixesAssumption == PrefixLists \subseteq Seq(Path)
ASSUME RequestsAssumption ==
    Requests \subseteq [method : Methods, url : [path : Seq(Segments), slash : BOOLEAN],
                        host : Hosts \cup {NoHost}]
ASSUME MaxSizeAssumption == MaxSize \in Nat

VARIABLES
    strategy,        \* RouterStrategy
    declared,        \* how many routes were declared
    routes,          \* static routes: <<method, url>> to route
    dynamic_routes,  \* dynamic routes in order of declaration
    hosts,           \* <<[host, routes]>> in order of declaration
    reverse_index,   \* names to routes
    values, queue,   \* the LRUCache
    current_size,
    lookups,         \* how many requests were made
    answer           \* the last request and what it got

tables == <<declared, routes, dynamic_routes, hosts, reverse_index>>
cache == <<values, queue, current_size>>
vars == <<strategy, tables, cache, lookups, answer>>

-----------------------------------------------------------------------------
(* Patterns and routes. *)

Matches(pattern, url) ==
    /\ pattern.slash = url.slash
    /\ Len(pattern.path) = Len(url.path)
    /\ \A i \in DOMAIN url.path : pattern.path[i] \in {url.path[i], Param}

(* A clone is as dynamic as the route it is made of, whatever its prefix. *)
Serves(route, url) ==
    IF route.dynamic THEN Matches(route.pattern, url) ELSE route.pattern = url

Prefixed(prefix, pattern) == [pattern EXCEPT !.path = prefix \o @]

(* The other form of a URL.  Without its slash the root is the empty       *)
(* pattern, for which clone() takes the pattern of the route it clones.    *)
OtherForm(url) ==
    IF url.path = <<>> THEN url ELSE [url EXCEPT !.slash = ~@]

(* The route that redirects to pattern to. *)
Redirected(route, to) ==
    [route EXCEPT !.methods = {"GET"}, !.to = <<to>>]

(* What a lookup comes to: a route, one of the default handlers, or an     *)
(* exception that nothing catches.                                         *)
NotFound == [outcome |-> "404"]
MethodNotAllowed == [outcome |-> "405"]
Raised == [outcome |-> "raised"]
Found(route) == [outcome |-> "route", route |-> route]

-----------------------------------------------------------------------------
(* Registration. *)

(* A dict with some keys set to a route. *)
With(table, keys, route) ==
    [k \in DOMAIN table \cup keys |-> IF k \in keys THEN route ELSE table[k]]

(* The static table with a route added under each of its methods. *)
AddStatic(table, route) ==
    With(table, {<<m, route.pattern>> : m \in route.methods}, route)

(* Where a pattern has its entry in the table of the hosts, or 0. *)
Place(table, host) == SelectInSeq(table, LAMBDA e : e.host = host)

(* The table of the hosts with a route added under one host.  (Two patterns *)
(* that match the same hosts are one host here.)                           *)
AddToHost(table, host, route) ==
    LET known == Place(table, host) IN
    IF known = 0 THEN Append(table, [host |-> host, routes |-> <<route>>])
    ELSE [table EXCEPT ![known].routes = Append(@, route)]

(* ... and under each of its hosts, one after the other. *)
AddToHosts(table, route) ==
    LET Added[n \in 0 .. Len(route.hosts)] ==
            IF n = 0 THEN table
            ELSE AddToHost(Added[n - 1], route.hosts[n], route)
    IN  Added[Len(route.hosts)]

(* _add_route_to_cache, which is about tables and not the LRUCache.  t has *)
(* the four tables.                                                        *)
AddRouteToCache(t, route) ==
    [IF route.hosts # <<>> THEN [t EXCEPT !.hosts = AddToHosts(@, route)]
     ELSE IF route.dynamic THEN [t EXCEPT !.dynamic_routes = Append(@, route)]
     ELSE [t EXCEPT !.routes = AddStatic(@, route)]
     EXCEPT !.reverse_index = With(@, {route.name}, route)]

(* Mutant: a clone is made of the methods that redirects have. *)
AddCloneGet(t, route, last) ==
    LET added == AddRouteToCache(t, route)
        other == OtherForm(route.pattern)
    IN  IF route.dynamic \/ "GET" \notin route.methods
           \/ strategy = "STRICT"
        THEN added
        ELSE AddRouteToCache(added,
                 IF strategy = "CLONE"
                 THEN [route EXCEPT !.pattern = other, !.methods = {"GET"}]
                 ELSE [Redirected(route, last) EXCEPT !.pattern = other])

(* One prefix of add_route: the route, and its form for the strategy.  The *)
(* handler of a redirect reads the variable `clone` when it is called, so  *)
(* it redirects to the route of the last prefix.                           *)
AddClone(t, route, last) ==
    LET added == AddRouteToCache(t, route)
        other == OtherForm(route.pattern)
    IN  IF route.dynamic \/ "GET" \notin route.methods
           \/ strategy = "STRICT"
        THEN added
        ELSE AddRouteToCache(added,
                 IF strategy = "CLONE" THEN [route EXCEPT !.pattern = other]
                 ELSE [Redirected(route, last) EXCEPT !.pattern = other])

AddPrefixes(t, route, prefixes) ==
    LET under(p) == Prefixed(p, route.pattern)
        clone(p) == [route EXCEPT !.pattern = under(p), !.name = <<p, @>>]
        Added[n \in 0 .. Len(prefixes)] ==
            IF n = 0 THEN t
            ELSE AddClone(Added[n - 1], clone(prefixes[n]), under(Last(prefixes)))
    IN  Added[Len(prefixes)]

Tables == [routes |-> routes, dynamic_routes |-> dynamic_routes, hosts |-> hosts,
           reverse_index |-> reverse_index]

AddRoute(route, prefixes) ==
    /\ lookups = 0 /\ declared < MaxRoutes
    /\ LET t == AddPrefixes(Tables, route, prefixes)
       IN  /\ routes' = t.routes
           /\ dynamic_routes' = t.dynamic_routes
           /\ hosts' = t.hosts
           /\ reverse_index' = t.reverse_index
    /\ declared' = declared + 1
    /\ UNCHANGED <<strategy, cache, lookups, answer>>

-----------------------------------------------------------------------------
(* Lookup. *)

(* Where the first route is that serves a method and a URL, or 0. *)
FirstMatch(list, method, url) ==
    SelectInSeq(list, LAMBDA r : method \in r.methods /\ Serves(r, url))

(* Where the first host is whose pattern matches, or 0. *)
FirstHost(table, host) == SelectInSeq(table, LAMBDA e : host \in e.host)

(* _find_route without its cache.                                       *)
FindRoute(method, url) ==
    LET dynamic == FirstMatch(dynamic_routes, method, url)
        allowed == \/ \E m \in Methods : <<m, url>> \in DOMAIN routes
                   \/ \E i \in DOMAIN dynamic_routes :
                         Matches(dynamic_routes[i].pattern, url)
    IN  IF <<method, url>> \in DOMAIN routes THEN Found(routes[<<method, url>>])
        ELSE IF dynamic # 0 THEN Found(dynamic_routes[dynamic])
        ELSE IF allowed THEN MethodNotAllowed
        ELSE NotFound

(* The hosts whose patterns match, up to the first that has the route.  If *)
(* one before it has not, looking for methods that are allowed there       *)
(* raises: self.hosts has compiled patterns for keys and is indexed with   *)
(* the name of the host.  Without a Host header fullmatch raises.          *)
FindRouteByHost(method, url, host) ==
    LET first == FirstHost(hosts, host)
        here == FirstMatch(hosts[first].routes, method, url)
    IN  IF host = NoHost THEN Raised
        ELSE IF first = 0 THEN FindRoute(method, url)
        ELSE IF here = 0 THEN Raised
        ELSE Found(hosts[first].routes[here])

(* get_route without the cache. *)
Resolve(r) ==
    IF hosts = <<>> THEN FindRoute(r.method, r.url)
    ELSE FindRouteByHost(r.method, r.url, r.host)

(* Mutant: the key has no method. *)
KeyOfUrl(r) == <<r.url>>

(* The key of what was found.  What no virtual host claims is left to      *)
(* _find_route, whose keys have no host.                                   *)
Key(r) ==
    IF hosts # <<>> /\ (r.host = NoHost \/ \E i \in DOMAIN hosts : r.host \in hosts[i].host)
    THEN <<r.url, r.method, r.host>> ELSE <<r.url, r.method>>

(* LRUCache.set.  An entry too many is evicted, and its key, not that of   *)
(* the new entry, gets the new route.  The size counts up to MaxSize + 1,  *)
(* all that is asked of it.                                                *)
SetCache(key, route) ==
    LET evicts == current_size > MaxSize
        evicted == Last(queue)
        set == IF evicts THEN evicted ELSE key
        rest == IF evicts THEN Front(queue) ELSE queue
    IN  /\ queue' = <<set>> \o rest
        /\ values' = With(values, {set}, route)
        /\ current_size' = IF evicts THEN current_size ELSE current_size + 1

GetRoute(r) ==
    /\ lookups < MaxLookups
    /\ lookups' = lookups + 1
    /\ LET key == Key(r)
           found == Resolve(r)
       IN  IF key \in DOMAIN values
           THEN /\ answer' = [request |-> r, result |-> Found(values[key])]
                /\ UNCHANGED cache
           ELSE /\ answer' = [request |-> r, result |-> found]
                /\ IF found.outcome = "route" THEN SetCache(key, found.route)
                   ELSE UNCHANGED cache
    /\ UNCHANGED <<strategy, tables>>

-----------------------------------------------------------------------------
Init ==
    /\ strategy \in Strategies
    /\ declared = 0 /\ routes = <<>> /\ dynamic_routes = <<>> /\ hosts = <<>>
    /\ reverse_index = <<>>
    /\ values = <<>> /\ queue = <<>> /\ current_size = 0
    /\ lookups = 0 /\ answer = <<>>

Next ==
    \/ \E route \in Declared, prefixes \in PrefixLists : AddRoute(route, prefixes)
    \/ \E r \in Requests : GetRoute(r)

Spec == Init /\ [][Next]_vars

-----------------------------------------------------------------------------
Routes == RouteOf(Path \X Names)

(* The type of the tables. *)
TablesOK(t) ==
    /\ \A k \in DOMAIN t.routes : k \in Methods \X Pattern /\ t.routes[k] \in Routes
    /\ t.dynamic_routes \in Seq(Routes)
    /\ t.hosts \in Seq([host : SUBSET Hosts, routes : Seq(Routes)])
    /\ \A name \in DOMAIN t.reverse_index : t.reverse_index[name] \in Routes

(* The type of the router's state. *)
TypeOK ==
    /\ strategy \in {"STRICT", "REDIRECT", "CLONE"}
    /\ declared \in Nat /\ lookups \in Nat
    /\ TablesOK(Tables)
    /\ current_size \in 0 .. MaxSize + 1 /\ Len(queue) = current_size
    /\ queue \in Seq(DOMAIN values) /\ ToSet(queue) = DOMAIN values
    /\ \A k \in DOMAIN values : values[k] \in Routes
    /\ answer # <<>> => answer.request \in Requests

Answered == answer # <<>> /\ answer.result.outcome = "route"

(* Until the cache is full, a request is answered by what the tables have  *)
(* for it, whichever requests filled the cache before, and no request for  *)
(* a host gets a route of other hosts (LRUCache, router.py:145-197).       *)
CacheAgrees ==
    current_size <= MaxSize =>
        /\ answer # <<>> => answer.result = Resolve(answer.request)
        /\ \A r \in Requests :
               Key(r) \in DOMAIN values => Found(values[Key(r)]) = Resolve(r)
        /\ Answered => LET claimed == answer.result.route.hosts IN
                       claimed = <<>> \/ \E h \in ToSet(claimed) : answer.request.host \in h

(* Where a request is redirected to there is a route, whatever was declared *)
(* before or since, and it is no redirect if it has the other form of the   *)
(* URL.  The redirects of a route with several prefixes all lead to the     *)
(* last one, where a later route may redirect to its own form; and the root *)
(* may redirect to itself.                                                  *)
Landed ==
    \A r \in Requests :
        LET found == Resolve(r)
            landed == Resolve([r EXCEPT !.url = found.route.to[1]])
        IN  found.outcome = "route" /\ found.route.to # <<>>
                => /\ landed.outcome = "route"
                   /\ r.url.path # <<>> /\ found.route.to[1] = OtherForm(r.url)
                          => landed.route.to = <<>>

(* Under CLONE a static route that serves GET serves both forms of its     *)
(* URL, with every method, and a GET of either form gets the same route,   *)
(* in whichever forms and order the static routes were declared.  Among    *)
(* the routes of a virtual host a dynamic one before it may take one form. *)
SameForms ==
    strategy = "CLONE" =>
        \A r \in Requests :
            LET found == Resolve(r)
                other == Resolve([r EXCEPT !.url = OtherForm(@)])
            IN  found.outcome = "route" /\ ~found.route.dynamic
                /\ "GET" \in found.route.methods
                    => /\ other.outcome = "route"
                       /\ r.method = "GET" =>
                              \/ other.route.name = found.route.name
                              \/ other.route.dynamic /\ other.route.hosts # <<>>

(* Both forms of a URL, with and without its ending slash, lead to the     *)
(* same place under the strategies that say so (add_route,                 *)
(* router.py:95-108), but for the cases above.                             *)
SlashForms == Landed /\ SameForms
=============================================================================
