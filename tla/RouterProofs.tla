----------------------------- MODULE RouterProofs -----------------------------
(***************************************************************************)
(* Whatever routes are declared and whichever requests fill the cache, the *)
(* answers agree with the tables until the cache is full, and both forms   *)
(* of a URL lead to the same place (router/router.py).                     *)
(***************************************************************************)
EXTENDS Router, SequenceTheorems, WellFoundedInduction, TLAPS

(* What makes CacheAgrees inductive. *)

(* Each route is in the table that its hosts and its pattern call for, and  *)
(* in that of a host only if it claims it.                                  *)
Placed(t) ==
    /\ \A k \in DOMAIN t.routes : /\ t.routes[k].hosts = <<>> /\ t.routes[k].pattern = k[2]
                                  /\ ~t.routes[k].dynamic
    /\ \A i \in DOMAIN t.dynamic_routes :
          t.dynamic_routes[i].hosts = <<>> /\ t.dynamic_routes[i].dynamic
    /\ \A i \in DOMAIN t.hosts :
          /\ t.hosts[i].routes # <<>>
          /\ \A j \in DOMAIN t.hosts[i].routes :
                t.hosts[i].host \in ToSet(t.hosts[i].routes[j].hosts)

(* The tables are complete before the first lookup. *)
Fresh == lookups = 0 => values = <<>> /\ answer = <<>>

IInv == TypeOK /\ Placed(Tables) /\ Fresh /\ CacheAgrees

-----------------------------------------------------------------------------
HostEntry == [host : SUBSET Hosts, routes : Seq(Routes)]

(* A set of numbers that is not empty has a least element. *)
LEMMA Least ==
    ASSUME NEW T, T \subseteq Nat, T # {}
    PROVE  \E n \in T : \A m \in T : ~(m < n)
<1>1. \E x \in T : \A y \in T : ~(<<y, x>> \in OpToRel(<, Nat))
  BY WFMin, NatLessThanWellFounded
<1>2. \A m, n \in Nat : m < n => <<m, n>> \in OpToRel(<, Nat)
  BY DEF OpToRel
<1> QED
  BY <1>1, <1>2

(* Induction up to N, over a set instead of a predicate. *)
LEMMA UpTo ==
    ASSUME NEW N \in Nat, NEW T, 0 \in T,
           \A n \in 1 .. N : n - 1 \in T => n \in T
    PROVE  \A n \in 0 .. N : n \in T
<1> DEFINE Bad == {n \in 0 .. N : n \notin T}
<1> SUFFICES ASSUME Bad # {} PROVE FALSE
  OBVIOUS
<1>1. Bad \subseteq Nat
  OBVIOUS
<1>2. PICK n \in Bad : \A m \in Bad : ~(m < n)
  <2> HIDE DEF Bad
  <2> QED
    BY <1>1, Least
<1>3. n \in 1 .. N /\ n - 1 \in 0 .. N /\ n - 1 < n
  BY <1>2
<1>4. n - 1 \in T
  BY <1>2, <1>3
<1> QED
  BY <1>2, <1>3, <1>4

LEMMA MinProperties ==
    ASSUME NEW T, T \subseteq Nat, T # {}
    PROVE  Min(T) \in T /\ \A m \in T : Min(T) <= m
<1>1. PICK n \in T : \A m \in T : ~(m < n)
  BY Least
<1>2. \A m \in T : n =< m
  BY <1>1
<1> QED
  BY <1>2 DEF Min

LEMMA PlaceProperties ==
    ASSUME NEW table \in Seq(HostEntry), NEW host
    PROVE  /\ Place(table, host) \in 0 .. Len(table)
           /\ Place(table, host) # 0 => table[Place(table, host)].host = host
           /\ Place(table, host) = 0 => \A i \in 1 .. Len(table) : table[i].host # host
<1> DEFINE T == {i \in 1 .. Len(table) : table[i].host = host}
<1>1. T # {} => Min(T) \in T
  <2>1. T \subseteq Nat
    OBVIOUS
  <2> HIDE DEF T
  <2> QED
    BY <2>1, MinProperties
<1>2. Place(table, host) = IF T # {} THEN Min(T) ELSE 0
  BY DEF SelectInSeq, Place
<1>3. \A i \in 1 .. Len(table) : i \in T <=> table[i].host = host
  OBVIOUS
<1>4. T \subseteq 1 .. Len(table)
  OBVIOUS
<1> HIDE DEF T
<1>5. CASE T = {}
  <2>1. Place(table, host) = 0 /\ 0 \in 0 .. Len(table)
    BY <1>2, <1>5
  <2> QED
    BY <2>1, <1>3, <1>5
<1>6. CASE T # {}
  <2>1. Place(table, host) \in T
    BY <1>1, <1>2, <1>6
  <2>2. Place(table, host) \in 1 .. Len(table)
    BY <2>1, <1>4
  <2>3. table[Place(table, host)].host = host
    BY <2>1, <2>2, <1>3
  <2>4. Place(table, host) \in 0 .. Len(table) /\ Place(table, host) # 0
    BY <2>2
  <2> QED
    BY <2>3, <2>4
<1> QED
  BY <1>5, <1>6

LEMMA FirstHostProperties ==
    ASSUME NEW table \in Seq(HostEntry), NEW host
    PROVE  /\ FirstHost(table, host) \in 0 .. Len(table)
           /\ FirstHost(table, host) # 0 => host \in table[FirstHost(table, host)].host
           /\ FirstHost(table, host) = 0 => \A i \in 1 .. Len(table) : host \notin table[i].host
<1> DEFINE T == {i \in 1 .. Len(table) : host \in table[i].host}
<1>1. T # {} => Min(T) \in T
  <2>1. T \subseteq Nat
    OBVIOUS
  <2> HIDE DEF T
  <2> QED
    BY <2>1, MinProperties
<1>2. FirstHost(table, host) = IF T # {} THEN Min(T) ELSE 0
  BY DEF SelectInSeq, FirstHost
<1>3. \A i \in 1 .. Len(table) : i \in T <=> host \in table[i].host
  OBVIOUS
<1>4. T \subseteq 1 .. Len(table)
  OBVIOUS
<1> HIDE DEF T
<1>5. CASE T = {}
  <2>1. FirstHost(table, host) = 0 /\ 0 \in 0 .. Len(table)
    BY <1>2, <1>5
  <2> QED
    BY <2>1, <1>3, <1>5
<1>6. CASE T # {}
  <2>1. FirstHost(table, host) \in T
    BY <1>1, <1>2, <1>6
  <2>2. FirstHost(table, host) \in 1 .. Len(table)
    BY <2>1, <1>4
  <2>3. host \in table[FirstHost(table, host)].host
    BY <2>1, <2>2, <1>3
  <2>4. FirstHost(table, host) \in 0 .. Len(table) /\ FirstHost(table, host) # 0
    BY <2>2
  <2> QED
    BY <2>3, <2>4
<1> QED
  BY <1>5, <1>6

Hits(route, method, url) == method \in route.methods /\ Serves(route, url)

(* The first match is before every other. *)
LEMMA FirstMatchProperties ==
    ASSUME NEW list \in Seq(Routes), NEW method, NEW url
    PROVE  LET i == FirstMatch(list, method, url) IN
           /\ i \in 0 .. Len(list)
           /\ i # 0 => /\ Hits(list[i], method, url)
                       /\ \A j \in 1 .. Len(list) : Hits(list[j], method, url) => i <= j
           /\ i = 0 => \A j \in 1 .. Len(list) : ~Hits(list[j], method, url)
<1> DEFINE T == {i \in 1 .. Len(list) : method \in list[i].methods /\ Serves(list[i], url)}
           first == FirstMatch(list, method, url)
<1>1. T # {} => Min(T) \in T /\ \A j \in T : Min(T) <= j
  <2>1. T \subseteq Nat
    OBVIOUS
  <2> HIDE DEF T
  <2> QED
    BY <2>1, MinProperties
<1>2. first = IF T # {} THEN Min(T) ELSE 0
  BY DEF SelectInSeq, FirstMatch
<1>3. \A i \in 1 .. Len(list) : i \in T <=> Hits(list[i], method, url)
  BY DEF Hits
<1>4. T \subseteq 1 .. Len(list) /\ 0 \in 0 .. Len(list)
  OBVIOUS
<1> HIDE DEF T, first
<1>5. CASE T = {}
  BY <1>2, <1>3, <1>4, <1>5 DEF first
<1>6. CASE T # {}
  <2>1. first \in T /\ \A j \in T : first <= j
    BY <1>1, <1>2, <1>6
  <2>2. first \in 1 .. Len(list)
    BY <2>1, <1>4
  <2>3. first \in 0 .. Len(list) /\ first # 0
    BY <2>2
  <2> QED
    BY <1>3, <2>1, <2>2, <2>3 DEF first
<1> QED
  BY <1>5, <1>6

-----------------------------------------------------------------------------
(* The table of the hosts. *)

(* Each host has routes, which claim it. *)
HostsPlaced(table) ==
    /\ table \in Seq(HostEntry)
    /\ \A i \in DOMAIN table :
          /\ table[i].routes # <<>>
          /\ \A j \in DOMAIN table[i].routes :
                table[i].host \in ToSet(table[i].routes[j].hosts)

LEMMA AddToHostSound ==
    ASSUME NEW table, HostsPlaced(table), NEW route \in Routes,
           NEW host \in ToSet(route.hosts), host \in SUBSET Hosts
    PROVE  HostsPlaced(AddToHost(table, host, route))
<1> DEFINE known == Place(table, host)
<1>0. table \in Seq(HostEntry)
  BY DEF HostsPlaced
<1>1. known \in 0 .. Len(table) /\ (known # 0 => table[known].host = host)
  BY <1>0, PlaceProperties
<1>2. AddToHost(table, host, route) =
         IF known = 0 THEN Append(table, [host |-> host, routes |-> <<route>>])
         ELSE [table EXCEPT ![known].routes = Append(@, route)]
  BY DEF AddToHost
<1> HIDE DEF known
<1>3. CASE known = 0
  <2> DEFINE e == [host |-> host, routes |-> <<route>>]
             new == Append(table, e)
  <2>1. e \in HostEntry /\ e.routes # <<>> /\ \A j \in DOMAIN e.routes : e.routes[j] = route
    BY DEF HostEntry
  <2>2. e.host = host
    OBVIOUS
  <2> HIDE DEF e
  <2>3. new \in Seq(HostEntry) /\ \A i \in DOMAIN new : new[i] = e \/ (i \in DOMAIN table /\ new[i] = table[i])
    <3>1. /\ new \in Seq(HostEntry)
          /\ Len(new) = Len(table) + 1
          /\ \A i \in 1 .. Len(table) : new[i] = table[i]
          /\ new[Len(table) + 1] = e
      BY <2>1, <1>0, AppendProperties
    <3>2. DOMAIN table = 1 .. Len(table) /\ Len(table) \in Nat /\ DOMAIN new = 1 .. Len(table) + 1
      BY <3>1, <1>0, LenProperties
    <3> HIDE DEF new
    <3>3. \A i \in DOMAIN new : i = Len(table) + 1 \/ i \in 1 .. Len(table)
      BY <3>2
    <3>4. ASSUME NEW i \in DOMAIN new
          PROVE  new[i] = e \/ (i \in DOMAIN table /\ new[i] = table[i])
      <4>1. CASE i = Len(table) + 1
        BY <3>1, <3>2, <4>1
      <4>2. CASE i \in 1 .. Len(table)
        BY <3>1, <3>2, <4>2, Zenon
      <4> QED
        BY <3>3, <4>1, <4>2
    <3> QED
      BY <3>1, <3>4
  <2> HIDE DEF new
  <2>4. HostsPlaced(new)
    BY <2>1, <2>2, <2>3 DEF HostsPlaced
  <2> QED
    BY <1>2, <1>3, <2>4 DEF new, e
<1>4. CASE known # 0
  <2> DEFINE new == [table EXCEPT ![known].routes = Append(@, route)]
             old == table[known]
             e == [old EXCEPT !.routes = Append(@, route)]
  <2>1. known \in DOMAIN table /\ old \in HostEntry /\ old.host = host
    BY <1>1, <1>4 DEF HostsPlaced
  <2>2. old.routes \in Seq(Routes) /\ old.host \in SUBSET Hosts
    <3> HIDE DEF old
    <3> QED
      BY <2>1 DEF HostEntry
  <2>3. e = [host |-> old.host, routes |-> Append(old.routes, route)]
    <3>1. old = [host |-> old.host, routes |-> old.routes]
      <4> HIDE DEF old
      <4> QED
        BY <2>1 DEF HostEntry
    <3> HIDE DEF old
    <3> QED
      BY <3>1
  <2>4. /\ Append(old.routes, route) \in Seq(Routes) /\ Append(old.routes, route) # <<>>
        /\ \A j \in DOMAIN Append(old.routes, route) :
              \/ Append(old.routes, route)[j] = route
              \/ j \in DOMAIN old.routes /\ Append(old.routes, route)[j] = old.routes[j]
    <3> DEFINE rs == Append(old.routes, route)
    <3>1. /\ rs \in Seq(Routes) /\ rs # <<>> /\ Len(rs) = Len(old.routes) + 1
          /\ \A j \in 1 .. Len(old.routes) : rs[j] = old.routes[j]
          /\ rs[Len(old.routes) + 1] = route
      BY <2>2, AppendProperties
    <3>2. /\ DOMAIN old.routes = 1 .. Len(old.routes) /\ Len(old.routes) \in Nat
          /\ DOMAIN rs = 1 .. Len(old.routes) + 1
      BY <3>1, <2>2, LenProperties
    <3> HIDE DEF rs
    <3>3. \A j \in DOMAIN rs : j = Len(old.routes) + 1 \/ j \in 1 .. Len(old.routes)
      BY <3>2
    <3>4. ASSUME NEW j \in DOMAIN rs
          PROVE  rs[j] = route \/ (j \in DOMAIN old.routes /\ rs[j] = old.routes[j])
      <4>1. CASE j = Len(old.routes) + 1
        BY <3>1, <3>2, <4>1
      <4>2. CASE j \in 1 .. Len(old.routes)
        BY <3>1, <3>2, <4>2, Zenon
      <4> QED
        BY <3>3, <4>1, <4>2
    <3> QED
      BY <3>1, <3>4 DEF rs
  <2>5. new = [table EXCEPT ![known] = e]
    OBVIOUS
  <2>6. e \in HostEntry /\ e.host = host /\ e.routes # <<>>
    BY <2>1, <2>2, <2>3, <2>4 DEF HostEntry
  <2>7. \A j \in DOMAIN e.routes : host \in ToSet(e.routes[j].hosts)
    <3>1. \A j \in DOMAIN old.routes : host \in ToSet(old.routes[j].hosts)
      BY <2>1 DEF HostsPlaced
    <3>2. e.routes = Append(old.routes, route)
      BY <2>3
    <3> HIDE DEF e, old
    <3> QED
      BY <3>1, <3>2, <2>4
  <2> HIDE DEF e, old
  <2>8. new \in Seq(HostEntry) /\ DOMAIN new = DOMAIN table
    <3>1. known \in 1 .. Len(table)
      BY <1>0, <2>1, LenProperties
    <3> QED
      BY <3>1, <1>0, <2>5, <2>6, ExceptSeq, LenProperties
  <2>9. \A i \in DOMAIN table : new[i] = IF i = known THEN e ELSE table[i]
    BY <2>1, <2>5 DEF HostsPlaced
  <2> HIDE DEF new
  <2>10. HostsPlaced(new)
    BY <2>6, <2>7, <2>8, <2>9 DEF HostsPlaced
  <2> QED
    BY <1>2, <1>4, <2>10 DEF new
<1> QED
  BY <1>3, <1>4

(* One host after the other. *)
HostSteps(f, table, route) ==
    /\ f[0] = table /\ AddToHosts(table, route) = f[Len(route.hosts)]
    /\ \A n \in 1 .. Len(route.hosts) : f[n] = AddToHost(f[n - 1], route.hosts[n], route)

LEMMA AddToHostsSteps ==
    ASSUME NEW table, NEW route \in Routes
    PROVE  \E f : HostSteps(f, table, route)
<1> DEFINE N == Len(route.hosts)
           Step(f, n) == IF n = 0 THEN table ELSE AddToHost(f[n - 1], route.hosts[n], route)
           Chain(f, k) == f = [n \in 0 .. k |-> Step(f, n)]
           Exist == {k \in 0 .. N : \E f : Chain(f, k)}
           Added == CHOOSE f : Chain(f, N)
<1>1. route.hosts \in Seq(SUBSET Hosts) /\ N \in Nat
  BY DEF Routes, RouteOf
<1>2. 0 \in Exist
  <2> DEFINE g == [n \in 0 .. 0 |-> table]
  <2>1. g = [n \in 0 .. 0 |-> Step(g, n)]
    OBVIOUS
  <2>2. Chain(g, 0)
    BY <2>1
  <2> HIDE DEF g, Chain
  <2> QED
    BY <1>1, <2>2
<1>3. ASSUME NEW k \in 1 .. N, k - 1 \in Exist
      PROVE  k \in Exist
  <2>1. PICK f : Chain(f, k - 1)
    BY <1>3
  <2>2. k \in Nat /\ k # 0 /\ k \in 0 .. N
    BY <1>1
  <2> DEFINE g == [n \in 0 .. k |-> IF n = k THEN Step(f, k) ELSE f[n]]
  <2>3. ASSUME NEW n \in 0 .. k
        PROVE  g[n] = Step(g, n)
    <3>1. CASE n = k
      <4>1. k - 1 \in 0 .. k /\ k - 1 # k
        BY <2>2
      <4> QED
        BY <2>2, <3>1, <4>1
    <3>2. CASE n # k
      <4>1. n \in 0 .. k - 1 /\ (n # 0 => n - 1 \in 0 .. k /\ n - 1 # k)
        BY <2>2, <3>2
      <4>2. f[n] = Step(f, n)
        BY <2>1, <4>1
      <4> QED
        BY <3>2, <4>1, <4>2
    <3> QED
      BY <3>1, <3>2
  <2>4. Chain(g, k)
    BY <2>3
  <2> HIDE DEF g, Chain
  <2> QED
    BY <2>2, <2>4
<1>4. N \in Exist
  <2> HIDE DEF Exist, N
  <2>1. \A k \in 0 .. N : k \in Exist
    BY <1>1, <1>2, <1>3, UpTo
  <2> QED
    BY <1>1, <2>1
<1>5. Chain(Added, N)
  <2> HIDE DEF Chain
  <2> QED
    BY <1>4
<1>6. AddToHosts(table, route) = Added[N]
  BY DEF AddToHosts
<1> HIDE DEF Added
<1>7. Added[0] = table
  BY <1>1, <1>5
<1>8. ASSUME NEW n \in 1 .. N
      PROVE  Added[n] = AddToHost(Added[n - 1], route.hosts[n], route)
  <2>1. n \in 0 .. N /\ n # 0
    BY <1>1
  <2> QED
    BY <1>5, <2>1
<1>9. HostSteps(Added, table, route)
  BY <1>6, <1>7, <1>8 DEF HostSteps
<1> QED
  BY <1>9

LEMMA AddToHostsSound ==
    ASSUME NEW table, HostsPlaced(table), NEW route \in Routes
    PROVE  HostsPlaced(AddToHosts(table, route))
<1> DEFINE N == Len(route.hosts)
<1>1. route.hosts \in Seq(SUBSET Hosts) /\ N \in Nat
  BY DEF Routes, RouteOf
<1>0. PICK f : HostSteps(f, table, route)
  BY AddToHostsSteps
<1>2. /\ f[0] = table /\ AddToHosts(table, route) = f[N]
      /\ \A n \in 1 .. N : f[n] = AddToHost(f[n - 1], route.hosts[n], route)
  BY <1>0 DEF HostSteps
<1> DEFINE Sound == {n \in 0 .. N : HostsPlaced(f[n])}
<1>3. 0 \in Sound
  BY <1>1, <1>2
<1>4. ASSUME NEW n \in 1 .. N, n - 1 \in Sound
      PROVE  n \in Sound
  <2>1. n \in 0 .. N
    BY <1>1
  <2>2. route.hosts[n] \in ToSet(route.hosts) /\ route.hosts[n] \in SUBSET Hosts
    BY <1>1 DEF ToSet
  <2>3. HostsPlaced(f[n])
    BY <1>2, <1>4, <2>2, AddToHostSound
  <2> QED
    BY <2>1, <2>3
<1>5. N \in Sound
  <2> HIDE DEF Sound, N
  <2>1. \A n \in 0 .. N : n \in Sound
    BY <1>1, <1>3, <1>4, UpTo
  <2> QED
    BY <1>1, <2>1
<1> QED
  BY <1>2, <1>5

-----------------------------------------------------------------------------
(* The tables. *)

(* A record with the four tables, of their types, with each route where it *)
(* belongs.                                                                *)
TablesSound(t) ==
    /\ t = [routes |-> t.routes, dynamic_routes |-> t.dynamic_routes,
            hosts |-> t.hosts, reverse_index |-> t.reverse_index]
    /\ TablesOK(t) /\ Placed(t)

LEMMA AddStaticSound ==
    ASSUME NEW t, TablesSound(t), NEW route \in Routes, route.hosts = <<>>,
           ~route.dynamic
    PROVE  TablesSound([t EXCEPT !.routes = AddStatic(@, route)])
<1> DEFINE keys == {<<m, route.pattern>> : m \in route.methods}
           new == AddStatic(t.routes, route)
           u == [t EXCEPT !.routes = new]
<1>1. route.methods \subseteq Methods /\ route.pattern \in Pattern
  BY DEF Routes, RouteOf
<1>2. \A k \in keys : k \in Methods \X Pattern /\ k[2] = route.pattern
  BY <1>1
<1>3. \A k \in DOMAIN t.routes :
         /\ k \in Methods \X Pattern /\ t.routes[k] \in Routes
         /\ t.routes[k].hosts = <<>> /\ t.routes[k].pattern = k[2] /\ ~t.routes[k].dynamic
  BY DEF TablesSound, TablesOK, Placed
<1>4. new = With(t.routes, keys, route)
  BY DEF AddStatic
<1> HIDE DEF keys, new
<1>5. \A k \in DOMAIN new : k \in keys \/ (k \in DOMAIN t.routes /\ k \notin keys)
  BY <1>4 DEF With
<1>6. ASSUME NEW k \in DOMAIN new
      PROVE  /\ k \in Methods \X Pattern /\ new[k] \in Routes
             /\ new[k].hosts = <<>> /\ new[k].pattern = k[2] /\ ~new[k].dynamic
  <2>1. CASE k \in keys
    <3>1. new[k] = route
      BY <1>4, <2>1 DEF With
    <3> QED
      BY <1>2, <2>1, <3>1
  <2>2. CASE k \in DOMAIN t.routes /\ k \notin keys
    <3>1. new[k] = t.routes[k]
      BY <1>4, <2>2 DEF With
    <3> QED
      BY <1>3, <2>2, <3>1
  <2> QED
    BY <1>5, <2>1, <2>2
<1>7. /\ u.routes = new /\ u.dynamic_routes = t.dynamic_routes
      /\ u.hosts = t.hosts /\ u.reverse_index = t.reverse_index
      /\ u = [routes |-> u.routes, dynamic_routes |-> u.dynamic_routes,
              hosts |-> u.hosts, reverse_index |-> u.reverse_index]
  BY DEF TablesSound
<1> HIDE DEF u
<1>8. TablesOK(u) /\ Placed(u)
  BY <1>6, <1>7 DEF TablesSound, TablesOK, Placed
<1>9. TablesSound(u)
  BY <1>7, <1>8 DEF TablesSound
<1> QED
  BY <1>9 DEF u, new

LEMMA AddDynamicSound ==
    ASSUME NEW t, TablesSound(t), NEW route \in Routes, route.hosts = <<>>,
           route.dynamic
    PROVE  TablesSound([t EXCEPT !.dynamic_routes = Append(@, route)])
<1> DEFINE old == t.dynamic_routes
           new == Append(old, route)
           u == [t EXCEPT !.dynamic_routes = new]
<1>1. old \in Seq(Routes)
  BY DEF TablesSound, TablesOK
<1>2. /\ new \in Seq(Routes) /\ Len(new) = Len(old) + 1
      /\ \A i \in 1 .. Len(old) : new[i] = old[i]
      /\ new[Len(old) + 1] = route
  BY <1>1, AppendProperties
<1>3. /\ DOMAIN old = 1 .. Len(old) /\ Len(old) \in Nat
      /\ DOMAIN new = 1 .. Len(old) + 1
  BY <1>1, <1>2, LenProperties
<1>4. \A i \in DOMAIN old : old[i].hosts = <<>> /\ old[i].dynamic
  BY DEF TablesSound, Placed
<1>5. /\ u.routes = t.routes /\ u.dynamic_routes = new
      /\ u.hosts = t.hosts /\ u.reverse_index = t.reverse_index
      /\ u = [routes |-> u.routes, dynamic_routes |-> u.dynamic_routes,
              hosts |-> u.hosts, reverse_index |-> u.reverse_index]
  BY DEF TablesSound
<1> HIDE DEF new, old, u
<1>6. \A i \in DOMAIN new : i = Len(old) + 1 \/ i \in 1 .. Len(old)
  BY <1>3
<1>7. ASSUME NEW i \in DOMAIN new
      PROVE  new[i].hosts = <<>> /\ new[i].dynamic
  <2>1. CASE i = Len(old) + 1
    BY <1>2, <2>1
  <2>2. CASE i \in 1 .. Len(old)
    BY <1>2, <1>3, <1>4, <2>2
  <2> QED
    BY <1>6, <2>1, <2>2
<1>8. TablesOK(u) /\ Placed(u)
  BY <1>2, <1>5, <1>7 DEF TablesSound, TablesOK, Placed
<1>9. TablesSound(u)
  BY <1>5, <1>8 DEF TablesSound
<1> QED
  BY <1>9 DEF u, new, old

LEMMA AddHostedSound ==
    ASSUME NEW t, TablesSound(t), NEW route \in Routes
    PROVE  TablesSound([t EXCEPT !.hosts = AddToHosts(@, route)])
<1> DEFINE new == AddToHosts(t.hosts, route)
           u == [t EXCEPT !.hosts = new]
<1>1. HostsPlaced(t.hosts)
  BY DEF TablesSound, TablesOK, Placed, HostsPlaced, HostEntry
<1>2. HostsPlaced(new)
  BY <1>1, AddToHostsSound
<1>3. /\ u.routes = t.routes /\ u.dynamic_routes = t.dynamic_routes
      /\ u.hosts = new /\ u.reverse_index = t.reverse_index
      /\ u = [routes |-> u.routes, dynamic_routes |-> u.dynamic_routes,
              hosts |-> u.hosts, reverse_index |-> u.reverse_index]
  BY DEF TablesSound
<1> HIDE DEF new, u
<1>4. TablesOK(u) /\ Placed(u)
  BY <1>2, <1>3 DEF TablesSound, TablesOK, Placed, HostsPlaced, HostEntry
<1>5. TablesSound(u)
  BY <1>3, <1>4 DEF TablesSound
<1> QED
  BY <1>5 DEF u, new

LEMMA AddRouteToCacheSound ==
    ASSUME NEW t, TablesSound(t), NEW route \in Routes
    PROVE  TablesSound(AddRouteToCache(t, route))
<1> DEFINE u == IF route.hosts # <<>> THEN [t EXCEPT !.hosts = AddToHosts(@, route)]
                ELSE IF route.dynamic THEN
                    [t EXCEPT !.dynamic_routes = Append(@, route)]
                ELSE [t EXCEPT !.routes = AddStatic(@, route)]
           new == With(u.reverse_index, {route.name}, route)
           v == [u EXCEPT !.reverse_index = new]
<1>1. TablesSound(u)
  <2>1. CASE route.hosts # <<>>
    BY <2>1, AddHostedSound
  <2>2. CASE route.hosts = <<>> /\ route.dynamic
    BY <2>2, AddDynamicSound
  <2>3. CASE route.hosts = <<>> /\ ~route.dynamic
    BY <2>3, AddStaticSound
  <2> QED
    BY <2>1, <2>2, <2>3
<1>2. AddRouteToCache(t, route) = v
  BY DEF AddRouteToCache
<1> HIDE DEF u
<1>3. \A name \in DOMAIN new : new[name] \in Routes
  <2>1. \A name \in DOMAIN u.reverse_index : u.reverse_index[name] \in Routes
    BY <1>1 DEF TablesSound, TablesOK
  <2> QED
    BY <2>1 DEF With
<1>4. /\ v.routes = u.routes /\ v.dynamic_routes = u.dynamic_routes
      /\ v.hosts = u.hosts /\ v.reverse_index = new
      /\ v = [routes |-> v.routes, dynamic_routes |-> v.dynamic_routes,
              hosts |-> v.hosts, reverse_index |-> v.reverse_index]
  BY <1>1 DEF TablesSound
<1> HIDE DEF new, v
<1>5. TablesOK(v) /\ Placed(v)
  BY <1>1, <1>3, <1>4 DEF TablesSound, TablesOK, Placed
<1>6. TablesSound(v)
  BY <1>4, <1>5 DEF TablesSound
<1> QED
  BY <1>2, <1>6

LEMMA OtherFormType ==
    ASSUME NEW pattern \in Pattern
    PROVE  OtherForm(pattern) \in Pattern
<1>1. (~pattern.slash) \in BOOLEAN
  OBVIOUS
<1> QED
  BY <1>1 DEF OtherForm, Pattern

LEMMA AddCloneSound ==
    ASSUME NEW t, TablesSound(t), NEW route \in Routes, NEW last \in Pattern
    PROVE  TablesSound(AddClone(t, route, last))
<1> DEFINE added == AddRouteToCache(t, route)
           other == OtherForm(route.pattern)
           same == [route EXCEPT !.pattern = other]
           redirect == [Redirected(route, last) EXCEPT !.pattern = other]
<1>1. TablesSound(added)
  BY AddRouteToCacheSound
<1>2. other \in Pattern
  BY OtherFormType DEF Routes, RouteOf
<1>3. <<last>> \in Seq(Pattern) /\ {"GET"} \in SUBSET Methods
  BY DEF Methods
<1>4. same \in Routes /\ redirect \in Routes
  <2> HIDE DEF other
  <2> QED
    BY <1>2, <1>3 DEF Routes, RouteOf, Redirected
<1>5. \/ AddClone(t, route, last) = added
      \/ AddClone(t, route, last) = AddRouteToCache(added, same)
      \/ AddClone(t, route, last) = AddRouteToCache(added, redirect)
  BY DEF AddClone
<1> HIDE DEF added, same, redirect
<1> QED
  BY <1>1, <1>4, <1>5, AddRouteToCacheSound

(* The route under a prefix. *)
Under(route, p) == Prefixed(p, route.pattern)
Clone(route, p) == [route EXCEPT !.pattern = Under(route, p), !.name = <<p, @>>]

(* One prefix after the other. *)
PrefixSteps(f, t, route, prefixes) ==
    /\ f[0] = t /\ AddPrefixes(t, route, prefixes) = f[Len(prefixes)]
    /\ \A n \in 1 .. Len(prefixes) :
          f[n] = AddClone(f[n - 1], Clone(route, prefixes[n]), Under(route, Last(prefixes)))

LEMMA AddPrefixesSteps ==
    ASSUME NEW t, NEW route \in Declared, NEW prefixes \in PrefixLists
    PROVE  \E f : PrefixSteps(f, t, route, prefixes)
<1> DEFINE N == Len(prefixes)
           under(p) == Prefixed(p, route.pattern)
           clone(p) == [route EXCEPT !.pattern = under(p), !.name = <<p, @>>]
           Step(f, n) == IF n = 0 THEN t
                         ELSE AddClone(f[n - 1], clone(prefixes[n]), under(Last(prefixes)))
           Chain(f, k) == f = [n \in 0 .. k |-> Step(f, n)]
           Exist == {k \in 0 .. N : \E f : Chain(f, k)}
           Added == CHOOSE f : Chain(f, N)
<1>1. prefixes \in Seq(Path) /\ N \in Nat
  BY PrefixesAssumption
<1>2. 0 \in Exist
  <2> DEFINE g == [n \in 0 .. 0 |-> t]
  <2>1. g = [n \in 0 .. 0 |-> Step(g, n)]
    OBVIOUS
  <2>2. Chain(g, 0)
    BY <2>1
  <2> HIDE DEF g, Chain
  <2> QED
    BY <1>1, <2>2
<1>3. ASSUME NEW k \in 1 .. N, k - 1 \in Exist
      PROVE  k \in Exist
  <2>1. PICK f : Chain(f, k - 1)
    BY <1>3
  <2>2. k \in Nat /\ k # 0 /\ k \in 0 .. N
    BY <1>1
  <2> DEFINE g == [n \in 0 .. k |-> IF n = k THEN Step(f, k) ELSE f[n]]
  <2>3. ASSUME NEW n \in 0 .. k
        PROVE  g[n] = Step(g, n)
    <3>1. CASE n = k
      <4>1. k - 1 \in 0 .. k /\ k - 1 # k
        BY <2>2
      <4> QED
        BY <2>2, <3>1, <4>1
    <3>2. CASE n # k
      <4>1. n \in 0 .. k - 1 /\ (n # 0 => n - 1 \in 0 .. k /\ n - 1 # k)
        BY <2>2, <3>2
      <4>2. f[n] = Step(f, n)
        BY <2>1, <4>1
      <4> QED
        BY <3>2, <4>1, <4>2
    <3> QED
      BY <3>1, <3>2
  <2>4. Chain(g, k)
    BY <2>3
  <2> HIDE DEF g, Chain
  <2> QED
    BY <2>2, <2>4
<1>4. N \in Exist
  <2> HIDE DEF Exist, N
  <2>1. \A k \in 0 .. N : k \in Exist
    BY <1>1, <1>2, <1>3, UpTo
  <2> QED
    BY <1>1, <2>1
<1>5. Chain(Added, N)
  <2> HIDE DEF Chain
  <2> QED
    BY <1>4
<1>6. AddPrefixes(t, route, prefixes) = Added[N]
  BY DEF AddPrefixes
<1> HIDE DEF Added
<1>7. Added[0] = t
  <2>1. 0 \in 0 .. N
    BY <1>1
  <2> HIDE DEF N, clone, under
  <2> QED
    BY <1>5, <2>1
<1>8. ASSUME NEW n \in 1 .. N
      PROVE  Added[n] = AddClone(Added[n - 1], Clone(route, prefixes[n]), Under(route, Last(prefixes)))
  <2>1. n \in 0 .. N /\ n # 0
    BY <1>1
  <2>2. Added[n] = AddClone(Added[n - 1], clone(prefixes[n]), under(Last(prefixes)))
    BY <1>5, <2>1
  <2>3. \A p : under(p) = Under(route, p) /\ clone(p) = Clone(route, p)
    BY DEF Under, Clone
  <2> HIDE DEF clone, under
  <2> QED
    BY <2>2, <2>3
<1>9. PrefixSteps(Added, t, route, prefixes)
  BY <1>6, <1>7, <1>8 DEF PrefixSteps
<1> QED
  BY <1>9

LEMMA CloneType ==
    ASSUME NEW route \in Declared, NEW p \in Path
    PROVE  /\ Under(route, p) \in Pattern /\ Clone(route, p) \in Routes
           /\ Clone(route, p).pattern = Under(route, p) /\ Clone(route, p).to = <<>>
           /\ Clone(route, p).dynamic = route.dynamic /\ Clone(route, p).hosts = route.hosts
           /\ Clone(route, p).methods = route.methods
<1>1. route \in RouteOf(Names) /\ route.name \in Names /\ route.to = <<>>
  BY DeclaredAssumption DEF Names
<1>2. route.pattern.path \in Path /\ route.pattern \in Pattern
  BY <1>1 DEF RouteOf, Pattern
<1>3. p \o route.pattern.path \in Path
  BY <1>2, ConcatProperties DEF Path
<1>4. Under(route, p) \in Pattern
  BY <1>2, <1>3 DEF Under, Prefixed, Pattern
<1>5. <<p, route.name>> \in Path \X Names
  BY <1>1
<1>6. /\ Clone(route, p) \in Routes /\ Clone(route, p).pattern = Under(route, p)
      /\ Clone(route, p).dynamic = route.dynamic /\ Clone(route, p).hosts = route.hosts
      /\ Clone(route, p).methods = route.methods /\ Clone(route, p).to = route.to
  BY <1>1, <1>4, <1>5 DEF Clone, Routes, RouteOf
<1> QED
  BY <1>1, <1>4, <1>6

LEMMA AddPrefixesSound ==
    ASSUME NEW t, TablesSound(t), NEW route \in Declared, NEW prefixes \in PrefixLists
    PROVE  TablesSound(AddPrefixes(t, route, prefixes))
<1> DEFINE N == Len(prefixes)
<1>1. prefixes \in Seq(Path) /\ N \in Nat
  BY PrefixesAssumption
<1>0. PICK f : PrefixSteps(f, t, route, prefixes)
  BY AddPrefixesSteps
<1>2. /\ f[0] = t /\ AddPrefixes(t, route, prefixes) = f[N]
      /\ \A n \in 1 .. N :
            f[n] = AddClone(f[n - 1], Clone(route, prefixes[n]), Under(route, Last(prefixes)))
  BY <1>0 DEF PrefixSteps
<1> DEFINE Sound == {n \in 0 .. N : TablesSound(f[n])}
<1>3. 0 \in Sound
  BY <1>1, <1>2
<1>4. ASSUME NEW n \in 1 .. N, n - 1 \in Sound
      PROVE  n \in Sound
  <2>1. n \in 0 .. N /\ N \in 1 .. N
    BY <1>1
  <2>2. prefixes[n] \in Path /\ Last(prefixes) \in Path
    BY <1>1, <2>1 DEF Last
  <2>3. Clone(route, prefixes[n]) \in Routes /\ Under(route, Last(prefixes)) \in Pattern
    BY <2>2, CloneType
  <2>4. TablesSound(f[n])
    BY <1>2, <1>4, <2>3, AddCloneSound
  <2> QED
    BY <2>1, <2>4
<1>5. N \in Sound
  <2> HIDE DEF Sound, N
  <2>1. \A n \in 0 .. N : n \in Sound
    BY <1>1, <1>3, <1>4, UpTo
  <2> QED
    BY <1>1, <2>1
<1> QED
  BY <1>2, <1>5

-----------------------------------------------------------------------------
(* Lookups. *)

(* What a lookup may find: a route without hosts, or one that claims the   *)
(* host of the request.                                                    *)
Claims(route, host) ==
    route.hosts = <<>> \/ \E h \in ToSet(route.hosts) : host \in h

LEMMA FindRouteForms ==
    ASSUME TablesOK(Tables), Placed(Tables), NEW method, NEW url
    PROVE  \/ FindRoute(method, url) \in {NotFound, MethodNotAllowed}
           \/ \E route \in Routes :
                 FindRoute(method, url) = Found(route) /\ route.hosts = <<>>
<1> DEFINE dynamic == FirstMatch(dynamic_routes, method, url)
           k == <<method, url>>
<1>1. /\ Tables.routes = routes /\ Tables.dynamic_routes = dynamic_routes
  BY DEF Tables
<1>2. dynamic_routes \in Seq(Routes)
  BY <1>1 DEF TablesOK
<1>3. dynamic \in 0 .. Len(dynamic_routes)
  BY <1>2, FirstMatchProperties
<1>4. CASE k \in DOMAIN routes
  <2>1. routes[k] \in Routes /\ routes[k].hosts = <<>>
    BY <1>1, <1>4 DEF TablesOK, Placed
  <2>2. FindRoute(method, url) = Found(routes[k])
    BY <1>4 DEF FindRoute
  <2> QED
    BY <2>1, <2>2
<1>5. CASE k \notin DOMAIN routes /\ dynamic # 0
  <2>1. dynamic \in DOMAIN dynamic_routes
    BY <1>2, <1>3, <1>5
  <2>2. dynamic_routes[dynamic] \in Routes /\ dynamic_routes[dynamic].hosts = <<>>
    BY <1>1, <1>2, <2>1 DEF Placed
  <2>3. FindRoute(method, url) = Found(dynamic_routes[dynamic])
    BY <1>5 DEF FindRoute
  <2> HIDE DEF dynamic
  <2> QED
    BY <2>2, <2>3
<1>6. CASE k \notin DOMAIN routes /\ dynamic = 0
  BY <1>6 DEF FindRoute
<1> QED
  BY <1>4, <1>5, <1>6

LEMMA ResolveForms ==
    ASSUME TablesOK(Tables), Placed(Tables), NEW r
    PROVE  \/ Resolve(r) \in {NotFound, MethodNotAllowed, Raised}
           \/ \E route \in Routes : Resolve(r) = Found(route) /\ Claims(route, r.host)
<1> DEFINE first == FirstHost(hosts, r.host)
           here == FirstMatch(hosts[first].routes, r.method, r.url)
<1>1. Tables.hosts = hosts
  BY DEF Tables
<1>2. hosts \in Seq(HostEntry)
  BY <1>1 DEF TablesOK, HostEntry
<1>3. CASE Resolve(r) = FindRoute(r.method, r.url)
  BY <1>3, FindRouteForms DEF Claims
<1>4. CASE Resolve(r) # FindRoute(r.method, r.url)
  <2>1. Resolve(r) = IF r.host = NoHost \/ here = 0 THEN Raised
                     ELSE Found(hosts[first].routes[here])
    BY <1>4 DEF Resolve, FindRouteByHost
  <2>2. r.host # NoHost => first # 0
    BY <1>4 DEF Resolve, FindRouteByHost
  <2>3. first \in 0 .. Len(hosts) /\ (first # 0 => r.host \in hosts[first].host)
    BY <1>2, FirstHostProperties
  <2> HIDE DEF first
  <2>4. CASE r.host # NoHost /\ here # 0
    <3>1. first \in DOMAIN hosts /\ hosts[first] \in HostEntry
      BY <1>2, <2>2, <2>3, <2>4
    <3>2. hosts[first].routes \in Seq(Routes)
      BY <3>1 DEF HostEntry
    <3>3. here \in 0 .. Len(hosts[first].routes)
      BY <3>2, FirstMatchProperties
    <3> DEFINE found == hosts[first].routes[here]
    <3> HIDE DEF here
    <3>4. here \in DOMAIN hosts[first].routes /\ found \in Routes
      BY <2>4, <3>2, <3>3
    <3>5. hosts[first].host \in ToSet(found.hosts)
      BY <1>1, <3>1, <3>4 DEF Placed
    <3>6. Claims(found, r.host)
      BY <2>2, <2>3, <2>4, <3>5 DEF Claims
    <3>7. Resolve(r) = Found(found)
      BY <2>1, <2>4
    <3> HIDE DEF found
    <3> QED
      BY <3>4, <3>6, <3>7
  <2> QED
    BY <2>1, <2>4
<1> QED
  BY <1>3, <1>4

(* Requests with one key get one answer from the tables. *)
LEMMA KeyDetermines ==
    ASSUME hosts \in Seq(HostEntry), NEW r, NEW q, Key(r) = Key(q)
    PROVE  Resolve(r) = Resolve(q)
<1> DEFINE Own(x) == hosts # <<>> /\ (x.host = NoHost \/ \E i \in DOMAIN hosts : x.host \in hosts[i].host)
<1>1. \A x : Key(x) = IF Own(x) THEN <<x.url, x.method, x.host>> ELSE <<x.url, x.method>>
  BY DEF Key
<1>2. ASSUME NEW x, ~Own(x)
      PROVE  Resolve(x) = FindRoute(x.method, x.url)
  <2>1. hosts = <<>> \/ (x.host # NoHost /\ \A i \in 1 .. Len(hosts) : x.host \notin hosts[i].host)
    BY <1>2
  <2>2. CASE hosts = <<>>
    BY <2>2 DEF Resolve
  <2>3. CASE hosts # <<>>
    <3>1. /\ FirstHost(hosts, x.host) \in 0 .. Len(hosts)
          /\ FirstHost(hosts, x.host) # 0 => x.host \in hosts[FirstHost(hosts, x.host)].host
      BY FirstHostProperties
    <3>2. FirstHost(hosts, x.host) = 0
      BY <2>1, <2>3, <3>1
    <3> QED
      BY <2>1, <2>3, <3>2 DEF Resolve, FindRouteByHost
  <2> QED
    BY <2>2, <2>3
<1> HIDE DEF Own
<1>3. Own(r) <=> Own(q)
  <2>1. \A a, b, c, d, e : <<a, b, c>> # <<d, e>>
    OBVIOUS
  <2> QED
    BY <1>1, <2>1
<1>4. r.url = q.url /\ r.method = q.method
  BY <1>1, <1>3
<1>5. CASE Own(r)
  <2>1. r.host = q.host
    BY <1>1, <1>3, <1>5
  <2> QED
    BY <1>4, <2>1 DEF Resolve, FindRouteByHost
<1>6. CASE ~Own(r)
  BY <1>2, <1>3, <1>4, <1>6
<1> QED
  BY <1>5, <1>6

-----------------------------------------------------------------------------
(* The cache. *)

CacheOK ==
    /\ current_size \in 0 .. MaxSize + 1 /\ Len(queue) = current_size
    /\ queue \in Seq(DOMAIN values) /\ ToSet(queue) = DOMAIN values
    /\ \A k \in DOMAIN values : values[k] \in Routes

(* The queue after a route was set: its elements are the old ones and the  *)
(* key that was set.                                                       *)
LEMMA ConsProperties ==
    ASSUME NEW S, NEW s \in Seq(S), NEW e
    PROVE  /\ <<e>> \o s \in Seq(S \cup {e})
           /\ Len(<<e>> \o s) = Len(s) + 1
           /\ ToSet(<<e>> \o s) = ToSet(s) \cup {e}
<1> DEFINE t == <<e>> \o s
<1>1. s \in Seq(S \cup {e}) /\ <<e>> \in Seq(S \cup {e}) /\ Len(<<e>>) = 1
  BY SeqMonotonic
<1>2. /\ t \in Seq(S \cup {e}) /\ Len(t) = Len(s) + 1
      /\ \A i \in 1 .. Len(s) + 1 : t[i] = IF i <= 1 THEN <<e>>[i] ELSE s[i - 1]
  <2>1. Len(<<e>>) + Len(s) = Len(s) + 1
    BY <1>1
  <2> QED
    BY <1>1, <2>1, ConcatProperties
<1>3. DOMAIN t = 1 .. Len(s) + 1 /\ DOMAIN s = 1 .. Len(s) /\ Len(s) \in Nat
  BY <1>2, LenProperties
<1> HIDE DEF t
<1>4. ASSUME NEW x \in ToSet(t)
      PROVE  x \in ToSet(s) \cup {e}
  <2>1. PICK i \in DOMAIN t : x = t[i]
    BY DEF ToSet
  <2>2. CASE i = 1
    BY <1>2, <1>3, <2>1, <2>2
  <2>3. CASE i # 1
    <3>1. i - 1 \in DOMAIN s /\ t[i] = s[i - 1]
      BY <1>2, <1>3, <2>1, <2>3
    <3> QED
      BY <2>1, <3>1 DEF ToSet
  <2> QED
    BY <2>2, <2>3
<1>5. e \in ToSet(t)
  <2>1. 1 \in DOMAIN t /\ t[1] = e
    BY <1>2, <1>3
  <2> QED
    BY <2>1 DEF ToSet
<1>6. ASSUME NEW x \in ToSet(s)
      PROVE  x \in ToSet(t)
  <2>1. PICK i \in DOMAIN s : x = s[i]
    BY DEF ToSet
  <2>2. i + 1 \in DOMAIN t /\ t[i + 1] = s[i]
    BY <1>2, <1>3, <2>1
  <2> QED
    BY <2>1, <2>2 DEF ToSet
<1>7. ToSet(t) = ToSet(s) \cup {e}
  BY <1>4, <1>5, <1>6
<1> QED
  BY <1>2, <1>7 DEF t

LEMMA FrontProperties ==
    ASSUME NEW S, NEW s \in Seq(S), Len(s) # 0
    PROVE  /\ Front(s) \in Seq(S) /\ Last(s) \in S
           /\ Len(Front(s)) = Len(s) - 1
           /\ ToSet(Front(s)) \cup {Last(s)} = ToSet(s)
<1> DEFINE n == Len(s)
           t == Front(s)
<1>1. n \in Nat \ {0} /\ DOMAIN s = 1 .. n
  BY LenProperties
<1>2. /\ t \in Seq(S) /\ Len(t) = n - 1
      /\ \A i \in 1 .. n - 1 : t[i] = s[i]
  BY <1>1 DEF Front
<1>3. DOMAIN t = 1 .. n - 1
  BY <1>2, LenProperties
<1>4. Last(s) = s[n]
  BY DEF Last
<1> HIDE DEF n, t
<1>5. \A i \in 1 .. n : i = n \/ i \in 1 .. n - 1
  BY <1>1
<1>6. \A i \in 1 .. n - 1 : i \in 1 .. n
  BY <1>1
<1>7. n \in 1 .. n
  BY <1>1
<1>8. ToSet(t) \cup {Last(s)} = ToSet(s)
  BY <1>1, <1>2, <1>3, <1>4, <1>5, <1>6, <1>7 DEF ToSet
<1>9. Last(s) \in S
  BY <1>1, <1>4, <1>7, ElementOfSeq DEF n
<1> QED
  BY <1>2, <1>8, <1>9 DEF n, t

LEMMA SetCacheSound ==
    ASSUME CacheOK, NEW key, NEW route \in Routes, SetCache(key, route)
    PROVE  /\ CacheOK'
           /\ current_size' <= MaxSize =>
                 current_size <= MaxSize /\ values' = With(values, {key}, route)
<1> DEFINE evicts == current_size > MaxSize
           set == IF evicts THEN Last(queue) ELSE key
           rest == IF evicts THEN Front(queue) ELSE queue
<1>1. /\ queue' = <<set>> \o rest
      /\ values' = With(values, {set}, route)
      /\ current_size' = IF evicts THEN current_size ELSE current_size + 1
  BY DEF SetCache
<1>2. current_size \in Nat /\ MaxSize \in Nat /\ current_size <= MaxSize + 1
  BY MaxSizeAssumption DEF CacheOK
<1>3. queue \in Seq(DOMAIN values) /\ ToSet(queue) = DOMAIN values /\ Len(queue) = current_size
  BY DEF CacheOK
<1>4. /\ rest \in Seq(DOMAIN values) /\ ToSet(rest) \cup {set} = DOMAIN values \cup {set}
      /\ Len(rest) + 1 = current_size'
  <2>1. CASE evicts
    <3>1. Len(queue) # 0
      BY <1>2, <1>3, <2>1
    <3>2. /\ Front(queue) \in Seq(DOMAIN values) /\ Last(queue) \in DOMAIN values
          /\ Len(Front(queue)) = Len(queue) - 1
          /\ ToSet(Front(queue)) \cup {Last(queue)} = ToSet(queue)
      BY <1>3, <3>1, FrontProperties
    <3>3. rest = Front(queue) /\ set = Last(queue) /\ current_size' = current_size
      BY <1>1, <2>1
    <3>4. Len(rest) + 1 = current_size'
      BY <1>2, <1>3, <3>2, <3>3
    <3> HIDE DEF rest, set
    <3> QED
      BY <1>3, <3>2, <3>3, <3>4
  <2>2. CASE ~evicts
    BY <1>1, <1>2, <1>3, <2>2
  <2> QED
    BY <2>1, <2>2
<1>5. current_size' \in 0 .. MaxSize + 1
  BY <1>1, <1>2
<1>6. current_size' <= MaxSize => current_size <= MaxSize /\ set = key
  BY <1>1, <1>2
<1> HIDE DEF set, rest
<1>7. DOMAIN values' = DOMAIN values \cup {set} /\ \A k \in DOMAIN values' : values'[k] \in Routes
  BY <1>1 DEF With, CacheOK
<1>8. /\ queue' \in Seq(DOMAIN values') /\ ToSet(queue') = DOMAIN values'
      /\ Len(queue') = current_size'
  <2>1. /\ <<set>> \o rest \in Seq(DOMAIN values \cup {set})
        /\ Len(<<set>> \o rest) = Len(rest) + 1
        /\ ToSet(<<set>> \o rest) = ToSet(rest) \cup {set}
    BY <1>4, ConsProperties
  <2> QED
    BY <1>1, <1>4, <1>7, <2>1
<1> QED
  BY <1>1, <1>5, <1>6, <1>7, <1>8 DEF CacheOK

-----------------------------------------------------------------------------
(* The invariant. *)

LEMMA InitHolds == Init => IInv
<1> SUFFICES ASSUME Init PROVE IInv
  OBVIOUS
<1>1. /\ Tables.routes = <<>> /\ Tables.dynamic_routes = <<>>
      /\ Tables.hosts = <<>> /\ Tables.reverse_index = <<>>
  BY DEF Init, Tables
<1>2. DOMAIN <<>> = {} /\ ToSet(<<>>) = {} /\ Len(<<>>) = 0
  BY DEF ToSet
<1>3. TablesOK(Tables) /\ Placed(Tables)
  <2> HIDE DEF Tables
  <2> QED
    BY <1>1, <1>2 DEF TablesOK, Placed
<1>4. TypeOK
  BY <1>2, <1>3, StrategiesAssumption, MaxSizeAssumption DEF Init, TypeOK
<1>5. Fresh
  BY DEF Init, Fresh
<1>6. CacheAgrees
  BY <1>2 DEF Init, CacheAgrees, Answered
<1> QED
  BY <1>3, <1>4, <1>5, <1>6 DEF IInv

(* Before the first lookup there is nothing in the cache to disagree with. *)
LEMMA AddRouteHolds ==
    ASSUME IInv, NEW route \in Declared, NEW prefixes \in PrefixLists,
           AddRoute(route, prefixes)
    PROVE  IInv'
<1> DEFINE t == AddPrefixes(Tables, route, prefixes)
<1>1. TablesSound(Tables)
  BY DEF IInv, TypeOK, TablesSound, Tables
<1>2. TablesSound(t)
  BY <1>1, AddPrefixesSound
<1>3. /\ routes' = t.routes /\ dynamic_routes' = t.dynamic_routes
      /\ hosts' = t.hosts /\ reverse_index' = t.reverse_index
  BY DEF AddRoute
<1> HIDE DEF t
<1>4. Tables' = t
  BY <1>2, <1>3 DEF Tables, TablesSound
<1>5. TablesOK(Tables') /\ Placed(Tables')
  BY <1>2, <1>4 DEF TablesSound
<1>6. /\ values' = values /\ queue' = queue /\ current_size' = current_size
      /\ strategy' = strategy /\ lookups' = lookups /\ answer' = answer
      /\ declared' = declared + 1 /\ lookups = 0
  BY DEF AddRoute, cache
<1>7. TypeOK'
  BY <1>5, <1>6 DEF IInv, TypeOK
<1>8. values = <<>> /\ answer = <<>> /\ DOMAIN values = {}
  BY <1>6 DEF IInv, Fresh
<1>9. Fresh' /\ CacheAgrees'
  BY <1>6, <1>8 DEF Fresh, CacheAgrees, Answered
<1> QED
  BY <1>5, <1>7, <1>9 DEF IInv

LEMMA GetRouteHolds ==
    ASSUME IInv, NEW r \in Requests, GetRoute(r)
    PROVE  IInv'
<1> DEFINE key == Key(r)
           found == Resolve(r)
<1>1. /\ strategy' = strategy /\ declared' = declared /\ lookups' = lookups + 1
      /\ routes' = routes /\ dynamic_routes' = dynamic_routes
      /\ hosts' = hosts /\ reverse_index' = reverse_index
  BY DEF GetRoute, tables
<1>2. Tables' = Tables
  BY <1>1 DEF Tables
<1>3. TablesOK(Tables) /\ Placed(Tables) /\ hosts \in Seq(HostEntry)
  <2>1. TablesOK(Tables) /\ Placed(Tables)
    BY DEF IInv, TypeOK
  <2> QED
    BY <2>1 DEF TablesOK, Tables, HostEntry
<1>4. CacheOK
  BY DEF IInv, TypeOK, CacheOK
<1>5. ASSUME NEW q
      PROVE  Resolve(q)' = Resolve(q) /\ Key(q)' = Key(q)
  BY <1>1 DEF Resolve, Key, FindRoute, FindRouteByHost
<1>6. \/ found \in {NotFound, MethodNotAllowed, Raised}
      \/ \E route \in Routes : found = Found(route) /\ Claims(route, r.host)
  BY <1>3, ResolveForms
<1>7. ASSUME NEW route, found = Found(route)
      PROVE  found.outcome = "route" /\ found.route = route
  BY <1>7 DEF Found
<1>8. found \in {NotFound, MethodNotAllowed, Raised} => found.outcome # "route"
  BY DEF NotFound, MethodNotAllowed, Raised
<1>9. lookups' # 0 /\ lookups' \in Nat
  BY <1>1 DEF IInv, TypeOK
<1>10. ASSUME CacheOK', answer' # <<>>, answer'.request = r,
              current_size' <= MaxSize => answer'.result = found,
              current_size' <= MaxSize =>
                 \A q \in Requests : Key(q) \in DOMAIN values' => Found(values'[Key(q)]) = Resolve(q)
       PROVE  IInv'
  <2>1. TypeOK'
    BY <1>1, <1>2, <1>3, <1>9, <1>10 DEF TypeOK, IInv, CacheOK
  <2>2. Fresh'
    BY <1>9 DEF Fresh
  <2>3. Placed(Tables)'
    BY <1>2, <1>3
  <2>4. CacheAgrees'
    <3> SUFFICES ASSUME current_size' <= MaxSize
                 PROVE  /\ answer'.result = Resolve(answer.request)'
                        /\ \A q \in Requests :
                              Key(q)' \in DOMAIN values' => Found(values'[Key(q)']) = Resolve(q)'
                        /\ answer'.result.outcome = "route" =>
                              Claims(answer'.result.route, r.host)
      BY <1>10 DEF CacheAgrees, Answered, Claims
    <3>1. Resolve(answer.request)' = found
      BY <1>1, <1>10 DEF Resolve, FindRoute, FindRouteByHost
    <3>2. found.outcome = "route" => Claims(found.route, r.host)
      BY <1>6, <1>7, <1>8
    <3> QED
      BY <1>5, <1>10, <3>1, <3>2
  <2> QED
    BY <2>1, <2>2, <2>3, <2>4 DEF IInv
<1>11. CASE key \in DOMAIN values
  <2>1. /\ answer' = [request |-> r, result |-> Found(values[key])]
        /\ values' = values /\ queue' = queue /\ current_size' = current_size
    BY <1>11 DEF GetRoute, cache
  <2>2. CacheOK'
    BY <1>4, <2>1 DEF CacheOK
  <2>3. current_size <= MaxSize =>
           \A q \in Requests : Key(q) \in DOMAIN values => Found(values[Key(q)]) = Resolve(q)
    BY DEF IInv, CacheAgrees
  <2>4. answer' # <<>> /\ answer'.request = r /\ answer'.result = Found(values[key])
    BY <2>1
  <2> QED
    BY <1>10, <1>11, <2>1, <2>2, <2>3, <2>4
<1>12. CASE key \notin DOMAIN values /\ found.outcome = "route"
  <2>1. answer' = [request |-> r, result |-> found] /\ SetCache(key, found.route)
    BY <1>12 DEF GetRoute
  <2>2. found.route \in Routes /\ found = Found(found.route)
    BY <1>6, <1>7, <1>8, <1>12
  <2>3. answer' # <<>> /\ answer'.request = r /\ answer'.result = found
    BY <2>1
  <2> HIDE DEF found
  <2>4. /\ CacheOK'
        /\ current_size' <= MaxSize =>
              current_size <= MaxSize /\ values' = With(values, {key}, found.route)
    BY <1>4, <2>1, <2>2, SetCacheSound
  <2>5. ASSUME current_size' <= MaxSize, NEW q \in Requests, Key(q) \in DOMAIN values'
        PROVE  Found(values'[Key(q)]) = Resolve(q)
    <3>1. CASE Key(q) = key
      <4>1. values'[key] = found.route
        BY <2>4, <2>5, <3>1 DEF With
      <4>2. Resolve(q) = found
        BY <1>3, <3>1, KeyDetermines DEF found
      <4> QED
        BY <2>2, <3>1, <4>1, <4>2
    <3>2. CASE Key(q) # key
      <4>1. Key(q) \in DOMAIN values /\ values'[Key(q)] = values[Key(q)]
        BY <2>4, <2>5, <3>2 DEF With
      <4> QED
        BY <2>4, <2>5, <4>1 DEF IInv, CacheAgrees
    <3> QED
      BY <3>1, <3>2
  <2> QED
    BY <1>10, <2>3, <2>4, <2>5
<1>13. CASE key \notin DOMAIN values /\ found.outcome # "route"
  <2>1. /\ answer' = [request |-> r, result |-> found]
        /\ values' = values /\ queue' = queue /\ current_size' = current_size
    BY <1>13 DEF GetRoute, cache
  <2>2. CacheOK'
    BY <1>4, <2>1 DEF CacheOK
  <2>3. current_size <= MaxSize =>
           \A q \in Requests : Key(q) \in DOMAIN values => Found(values[Key(q)]) = Resolve(q)
    BY DEF IInv, CacheAgrees
  <2>4. answer' # <<>> /\ answer'.request = r /\ answer'.result = found
    BY <2>1
  <2> QED
    BY <1>10, <2>1, <2>2, <2>3, <2>4
<1> QED
  BY <1>11, <1>12, <1>13

LEMMA StepHolds == IInv /\ [Next]_vars => IInv'
<1> SUFFICES ASSUME IInv, [Next]_vars PROVE IInv'
  OBVIOUS
<1>1. ASSUME NEW route \in Declared, NEW prefixes \in PrefixLists, AddRoute(route, prefixes)
      PROVE  IInv'
  BY <1>1, AddRouteHolds
<1>2. ASSUME NEW r \in Requests, GetRoute(r)
      PROVE  IInv'
  BY <1>2, GetRouteHolds
<1>3. CASE UNCHANGED vars
  <2>1. /\ strategy' = strategy /\ declared' = declared /\ lookups' = lookups
        /\ routes' = routes /\ dynamic_routes' = dynamic_routes
        /\ hosts' = hosts /\ reverse_index' = reverse_index
        /\ values' = values /\ queue' = queue /\ current_size' = current_size
        /\ answer' = answer
    BY <1>3 DEF vars, tables, cache
  <2>2. Tables' = Tables
    BY <2>1 DEF Tables
  <2>3. ASSUME NEW q
        PROVE  Resolve(q)' = Resolve(q) /\ Key(q)' = Key(q)
    BY <2>1 DEF Resolve, Key, FindRoute, FindRouteByHost
  <2>4. TypeOK' /\ Fresh' /\ Placed(Tables)'
    BY <2>1, <2>2 DEF IInv, TypeOK, Fresh
  <2>5. Resolve(answer.request)' = Resolve(answer.request)
    BY <2>1 DEF Resolve, FindRoute, FindRouteByHost
  <2>6. CacheAgrees'
    BY <2>1, <2>3, <2>5 DEF IInv, CacheAgrees, Answered
  <2> QED
    BY <2>4, <2>6 DEF IInv
<1> QED
  BY <1>1, <1>2, <1>3 DEF Next

(* The invariant holds of every router, whatever its strategy and the      *)
(* routes it is given (router.py:27-197).                                  *)
THEOREM Invariance == Spec => []IInv
<1>1. Init => IInv
  BY InitHolds
<1>2. IInv /\ [Next]_vars => IInv'
  BY StepHolds
<1> QED
  BY <1>1, <1>2, PTL DEF Spec

(* The tables and the cache keep their types, and the cache holds at most  *)
(* one entry more than its limit (LRUCache.set, router.py:31-37).          *)
THEOREM TypeCorrect == Spec => []TypeOK
<1>1. IInv => TypeOK
  BY DEF IInv
<1> QED
  BY <1>1, Invariance, PTL

(* Until the cache is full every lookup is answered by what the tables     *)
(* have for the request, and no request gets a route of other hosts        *)
(* (get_route and LRUCache, router.py:31-37, 145-197).                     *)
THEOREM LookupsAgree == Spec => []CacheAgrees
<1>1. IInv => CacheAgrees
  BY DEF IInv
<1> QED
  BY <1>1, Invariance, PTL

-----------------------------------------------------------------------------
(* The two forms of a URL among the routes of one virtual host. *)

(* A static route for pattern that serves GET. *)
Static(route, pattern) ==
    ~route.dynamic /\ route.pattern = pattern /\ "GET" \in route.methods

(* The redirect at place j of a list has its original before it, and leads *)
(* to a route of the list, or to a pattern of A, which is still to come.   *)
Redirects(list, A, j) ==
    /\ strategy = "REDIRECT" /\ ~list[j].dynamic /\ list[j].methods = {"GET"}
    /\ \E p \in 1 .. Len(list) : p < j /\ Static(list[p], OtherForm(list[j].pattern))
    /\ \E v : /\ list[j].to = <<v>>
              /\ v \in A \/ \E p \in 1 .. Len(list) : Static(list[p], v)

(* The route at place j has a twin for the other form, and whatever stands *)
(* between them is of the same route.                                      *)
Twin(list, j) ==
    \E p \in 1 .. Len(list) :
        /\ ~list[p].dynamic /\ list[p].pattern = OtherForm(list[j].pattern)
        /\ list[p].methods = list[j].methods /\ list[p].name = list[j].name
        /\ \A q \in 1 .. Len(list) : j < q /\ q < p => list[q].name = list[j].name

Twofold(route) == strategy = "CLONE" /\ ~route.dynamic /\ "GET" \in route.methods

Formed(list, A, j) ==
    /\ list[j].to # <<>> => Redirects(list, A, j)
    /\ Twofold(list[j]) => Twin(list, j)

ListForms(list, A) == \A j \in 1 .. Len(list) : Formed(list, A, j)

(* Of old to new a route is appended any number of times, and at least     *)
(* once if it claims the host.                                             *)
Grown(old, new, route, host, claimed) ==
    /\ old \in Seq(Routes) /\ new \in Seq(Routes) /\ Len(old) <= Len(new)
    /\ \A j \in 1 .. Len(old) : new[j] = old[j]
    /\ \A j \in 1 .. Len(new) : Len(old) < j => new[j] = route
    /\ host \in claimed <=> Len(old) < Len(new)

LEMMA OtherTwice ==
    ASSUME NEW pattern \in Pattern
    PROVE  /\ OtherForm(pattern) \in Pattern /\ OtherForm(OtherForm(pattern)) = pattern
           /\ OtherForm(pattern).path = pattern.path
           /\ pattern.path # <<>> => OtherForm(pattern) # pattern
<1>1. OtherForm(pattern) \in Pattern
  BY OtherFormType
<1>2. pattern = [path |-> pattern.path, slash |-> pattern.slash] /\ pattern.slash \in BOOLEAN
  BY DEF Pattern
<1>3. CASE pattern.path = <<>>
  BY <1>1, <1>3 DEF OtherForm
<1>4. CASE pattern.path # <<>>
  <2>1. OtherForm(pattern) = [path |-> pattern.path, slash |-> ~pattern.slash]
    BY <1>2, <1>4 DEF OtherForm
  <2>2. OtherForm(OtherForm(pattern)) = [path |-> pattern.path, slash |-> ~(~pattern.slash)]
    BY <2>1, <1>4 DEF OtherForm
  <2>3. (~(~pattern.slash)) = pattern.slash /\ (~pattern.slash) # pattern.slash
    BY <1>2
  <2>4. OtherForm(pattern).slash # pattern.slash
    BY <2>1, <2>3
  <2> QED
    BY <1>1, <1>2, <2>1, <2>2, <2>3, <2>4
<1> QED
  BY <1>3, <1>4

(* What holds for a route of a list holds when others are appended. *)
LEMMA GrownKeeps ==
    ASSUME NEW old, NEW new, NEW route, NEW host, NEW claimed,
           Grown(old, new, route, host, claimed), NEW A,
           NEW j \in 1 .. Len(old), Formed(old, A, j)
    PROVE  j \in 1 .. Len(new) /\ Formed(new, A, j)
<1>1. /\ Len(old) \in Nat /\ Len(new) \in Nat /\ Len(old) <= Len(new)
      /\ \A p \in 1 .. Len(old) : new[p] = old[p]
  BY DEF Grown
<1>2. \A p \in 1 .. Len(old) : p \in 1 .. Len(new)
  BY <1>1
<1>3. ASSUME new[j].to # <<>>
      PROVE  Redirects(new, A, j)
  BY <1>1, <1>2, <1>3 DEF Redirects, Formed
<1>4. ASSUME Twofold(new[j])
      PROVE  Twin(new, j)
  <2>1. Twin(old, j)
    BY <1>1, <1>4 DEF Formed
  <2>2. PICK p \in 1 .. Len(old) :
           /\ ~old[p].dynamic /\ old[p].pattern = OtherForm(old[j].pattern)
           /\ old[p].methods = old[j].methods /\ old[p].name = old[j].name
           /\ \A q \in 1 .. Len(old) : j < q /\ q < p => old[q].name = old[j].name
    BY <2>1 DEF Twin
  <2>3. ASSUME NEW q \in 1 .. Len(new), j < q, q < p
        PROVE  new[q].name = new[j].name
    <3>1. q \in 1 .. Len(old)
      BY <1>1, <2>3
    <3> QED
      BY <1>1, <2>2, <2>3, <3>1
  <2> QED
    BY <1>1, <1>2, <2>2, <2>3 DEF Twin
<1> QED
  BY <1>2, <1>3, <1>4 DEF Formed

(* A route of which no other form is made. *)
LEMMA ListPlain ==
    ASSUME NEW old, NEW new, NEW route, NEW host, NEW claimed,
           Grown(old, new, route, host, claimed), NEW A, ListForms(old, A),
           route.to = <<>>, ~Twofold(route)
    PROVE  ListForms(new, A)
<1> SUFFICES ASSUME NEW j \in 1 .. Len(new)
             PROVE  Formed(new, A, j)
  BY DEF ListForms
<1>1. Len(old) \in Nat /\ Len(new) \in Nat
  BY DEF Grown
<1>2. CASE Len(old) < j
  BY <1>2 DEF Grown, Formed
<1>3. CASE ~(Len(old) < j)
  <2>1. j \in 1 .. Len(old)
    BY <1>1, <1>3
  <2> QED
    BY <2>1, GrownKeeps DEF ListForms
<1> QED
  BY <1>2, <1>3

(* A route and its clone with the other form. *)
LEMMA ListCloned ==
    ASSUME NEW old, NEW mid, NEW new, NEW route \in Routes, NEW clone \in Routes,
           NEW host, NEW claimed,
           Grown(old, mid, route, host, claimed), Grown(mid, new, clone, host, claimed),
           NEW A, ListForms(old, A), route.to = <<>>,
           clone = [route EXCEPT !.pattern = OtherForm(@)]
    PROVE  ListForms(new, A)
<1>0. /\ clone.pattern = OtherForm(route.pattern) /\ route.pattern = OtherForm(clone.pattern)
      /\ clone.methods = route.methods /\ clone.name = route.name
      /\ clone.dynamic = route.dynamic /\ clone.to = <<>>
  BY OtherTwice DEF Routes, RouteOf
<1> SUFFICES ASSUME NEW j \in 1 .. Len(new)
             PROVE  Formed(new, A, j)
  BY DEF ListForms
<1>1. /\ Len(old) \in Nat /\ Len(mid) \in Nat /\ Len(new) \in Nat
      /\ Len(old) <= Len(mid) /\ Len(mid) <= Len(new)
      /\ Len(old) < Len(mid) <=> Len(mid) < Len(new)
  BY DEF Grown
<1>2. \A q \in 1 .. Len(new) : Len(old) < q /\ ~(Len(mid) < q) => new[q] = route
  BY <1>1 DEF Grown
<1>3. \A q \in 1 .. Len(new) : Len(mid) < q => new[q] = clone
  BY DEF Grown
<1>4. \A q \in 1 .. Len(new) : Len(old) < q => new[q].name = route.name
  BY <1>0, <1>1, <1>2, <1>3
<1>5. CASE Len(old) < j /\ ~(Len(mid) < j)
  <2>1. Len(mid) + 1 \in 1 .. Len(new) /\ Len(mid) < Len(mid) + 1
    BY <1>1, <1>5
  <2>2. new[j] = route /\ new[Len(mid) + 1] = clone
    BY <1>2, <1>3, <1>5, <2>1
  <2>3. ASSUME NEW q \in 1 .. Len(new), j < q
        PROVE  new[q].name = new[j].name
    BY <1>1, <1>4, <1>5, <2>2, <2>3
  <2>4. Twofold(route) => Twin(new, j)
    BY <1>0, <2>1, <2>2, <2>3 DEF Twin, Twofold
  <2> QED
    BY <2>2, <2>4 DEF Formed
<1>6. CASE Len(mid) < j
  <2>1. Len(old) + 1 \in 1 .. Len(new) /\ Len(old) < Len(old) + 1 /\ ~(Len(mid) < Len(old) + 1)
    BY <1>1, <1>6
  <2>2. new[j] = clone /\ new[Len(old) + 1] = route
    BY <1>2, <1>3, <1>6, <2>1
  <2>3. ~(j < Len(old) + 1)
    BY <1>1, <1>6
  <2>4. ASSUME NEW q \in 1 .. Len(new), j < q
        PROVE  new[q].name = new[j].name
    BY <1>1, <1>4, <1>6, <2>2, <2>4
  <2>5. Twofold(clone) => Twin(new, j)
    BY <1>0, <2>1, <2>2, <2>4 DEF Twin, Twofold
  <2> QED
    BY <1>0, <2>2, <2>5 DEF Formed
<1>7. CASE ~(Len(old) < j)
  <2>1. j \in 1 .. Len(old)
    BY <1>1, <1>7
  <2>2. j \in 1 .. Len(mid) /\ Formed(mid, A, j)
    BY <2>1, GrownKeeps DEF ListForms
  <2> QED
    BY <2>2, GrownKeeps
<1> QED
  BY <1>5, <1>6, <1>7

(* A route and the redirect to last for its other form. *)
LEMMA ListRedirected ==
    ASSUME NEW old, NEW mid, NEW new, NEW route \in Routes, NEW redirect \in Routes,
           NEW host, NEW claimed, strategy = "REDIRECT",
           Grown(old, mid, route, host, claimed), Grown(mid, new, redirect, host, claimed),
           NEW A, ListForms(old, A), NEW last \in A, Static(route, route.pattern), route.to = <<>>,
           redirect = [Redirected(route, last) EXCEPT !.pattern = OtherForm(route.pattern)]
    PROVE  ListForms(new, A)
<1>0. /\ route.pattern = OtherForm(redirect.pattern)
      /\ redirect.methods = {"GET"} /\ redirect.to = <<last>> /\ ~redirect.dynamic
  BY OtherTwice DEF Routes, RouteOf, Redirected, Static
<1> SUFFICES ASSUME NEW j \in 1 .. Len(new)
             PROVE  Formed(new, A, j)
  BY DEF ListForms
<1>1. /\ Len(old) \in Nat /\ Len(mid) \in Nat /\ Len(new) \in Nat
      /\ Len(old) <= Len(mid) /\ Len(mid) <= Len(new)
      /\ Len(old) < Len(mid) <=> Len(mid) < Len(new)
  BY DEF Grown
<1>2. \A q \in 1 .. Len(new) : Len(old) < q /\ ~(Len(mid) < q) => new[q] = route
  BY <1>1 DEF Grown
<1>3. \A q \in 1 .. Len(new) : Len(mid) < q => new[q] = redirect
  BY DEF Grown
<1>4. ~Twofold(route) /\ ~Twofold(redirect)
  BY DEF Twofold
<1>5. CASE Len(old) < j /\ ~(Len(mid) < j)
  BY <1>2, <1>4, <1>5 DEF Formed
<1>6. CASE Len(mid) < j
  <2>1. /\ Len(old) + 1 \in 1 .. Len(new) /\ Len(old) < Len(old) + 1
        /\ ~(Len(mid) < Len(old) + 1) /\ Len(old) + 1 < j
    BY <1>1, <1>6
  <2>2. new[j] = redirect /\ new[Len(old) + 1] = route
    BY <1>2, <1>3, <1>6, <2>1
  <2>3. Static(new[Len(old) + 1], OtherForm(new[j].pattern))
    BY <1>0, <2>2 DEF Static
  <2>4. Redirects(new, A, j)
    BY <1>0, <2>1, <2>2, <2>3 DEF Redirects
  <2> QED
    BY <1>4, <2>2, <2>4 DEF Formed
<1>7. CASE ~(Len(old) < j)
  <2>1. j \in 1 .. Len(old)
    BY <1>1, <1>7
  <2>2. j \in 1 .. Len(mid) /\ Formed(mid, A, j)
    BY <2>1, GrownKeeps DEF ListForms
  <2> QED
    BY <2>2, GrownKeeps
<1> QED
  BY <1>5, <1>6, <1>7

-----------------------------------------------------------------------------
(* The table of the hosts, each of which has one entry. *)

HostTable(table) ==
    /\ HostsPlaced(table)
    /\ \A i, j \in 1 .. Len(table) : table[i].host = table[j].host => i = j

RoutesAt(table, i) == IF i \in 1 .. Len(table) THEN table[i].routes ELSE <<>>

(* Of old to new a route is added under the hosts of claimed. *)
HostsGrown(old, new, route, claimed) ==
    /\ old \in Seq(HostEntry) /\ HostTable(new) /\ Len(old) <= Len(new)
    /\ \A i \in 1 .. Len(old) : new[i].host = old[i].host
    /\ \A i \in 1 .. Len(new) :
          Grown(RoutesAt(old, i), new[i].routes, route, new[i].host, claimed)
    /\ \A host \in claimed : \E i \in 1 .. Len(new) : new[i].host = host

LEMMA AppendedRoutes ==
    ASSUME NEW list \in Seq(Routes), NEW route \in Routes
    PROVE  /\ Append(list, route) \in Seq(Routes) /\ Len(Append(list, route)) = Len(list) + 1
           /\ \A j \in 1 .. Len(list) : Append(list, route)[j] = list[j]
           /\ Append(list, route)[Len(list) + 1] = route
BY AppendProperties

(* Once more the same route. *)
LEMMA GrownMore ==
    ASSUME NEW old, NEW new, NEW route \in Routes, NEW host, NEW claimed,
           Grown(old, new, route, host, claimed)
    PROVE  Grown(old, Append(new, route), route, host, claimed \cup {host})
<1> DEFINE more == Append(new, route)
<1>1. /\ old \in Seq(Routes) /\ new \in Seq(Routes) /\ Len(old) <= Len(new)
      /\ Len(old) \in Nat /\ Len(new) \in Nat
      /\ \A j \in 1 .. Len(old) : new[j] = old[j]
      /\ \A j \in 1 .. Len(new) : Len(old) < j => new[j] = route
  BY DEF Grown
<1>2. /\ more \in Seq(Routes) /\ Len(more) = Len(new) + 1
      /\ \A j \in 1 .. Len(new) : more[j] = new[j]
      /\ more[Len(new) + 1] = route
  BY <1>1, AppendedRoutes
<1> HIDE DEF more
<1>3. ASSUME NEW j \in 1 .. Len(old)
      PROVE  more[j] = old[j]
  BY <1>1, <1>2
<1>4. ASSUME NEW j \in 1 .. Len(more), Len(old) < j
      PROVE  more[j] = route
  <2>1. j \in 1 .. Len(new) \/ j = Len(new) + 1
    BY <1>1, <1>2
  <2> QED
    BY <1>1, <1>2, <1>4, <2>1
<1>5. Len(old) < Len(more) /\ Len(old) <= Len(more) /\ host \in claimed \cup {host}
  BY <1>1, <1>2
<1>6. Grown(old, more, route, host, claimed \cup {host})
  BY <1>1, <1>2, <1>3, <1>4, <1>5 DEF Grown
<1> QED
  BY <1>6 DEF more

LEMMA AddToHostGrown ==
    ASSUME NEW old, NEW new, NEW route \in Routes, NEW claimed,
           HostsGrown(old, new, route, claimed),
           NEW host \in ToSet(route.hosts), host \in SUBSET Hosts
    PROVE  HostsGrown(old, AddToHost(new, host, route), route, claimed \cup {host})
<1> DEFINE known == Place(new, host)
           added == AddToHost(new, host, route)
           wide == claimed \cup {host}
<1>0. /\ old \in Seq(HostEntry) /\ new \in Seq(HostEntry) /\ Len(old) <= Len(new)
      /\ Len(old) \in Nat /\ Len(new) \in Nat /\ HostsPlaced(new)
      /\ \A i, j \in 1 .. Len(new) : new[i].host = new[j].host => i = j
      /\ \A i \in 1 .. Len(old) : new[i].host = old[i].host
      /\ \A i \in 1 .. Len(new) : Grown(RoutesAt(old, i), new[i].routes, route, new[i].host, claimed)
      /\ \A h \in claimed : \E i \in 1 .. Len(new) : new[i].host = h
  BY DEF HostsGrown, HostTable, HostsPlaced
<1>1. /\ known \in 0 .. Len(new) /\ (known # 0 => new[known].host = host)
      /\ known = 0 => \A i \in 1 .. Len(new) : new[i].host # host
  BY <1>0, PlaceProperties
<1>2. added = IF known = 0 THEN Append(new, [host |-> host, routes |-> <<route>>])
              ELSE [new EXCEPT ![known].routes = Append(@, route)]
  BY DEF AddToHost
<1>3. HostsPlaced(added)
  BY <1>0, AddToHostSound
<1>4. ASSUME NEW i \in 1 .. Len(new), new[i].host # host
      PROVE  Grown(RoutesAt(old, i), new[i].routes, route, new[i].host, wide)
  <2>1. Grown(RoutesAt(old, i), new[i].routes, route, new[i].host, claimed)
    BY <1>0
  <2>2. new[i].host \in claimed <=> new[i].host \in wide
    BY <1>4
  <2> HIDE DEF wide
  <2> QED
    BY <2>1, <2>2 DEF Grown
<1> HIDE DEF known
<1>5. CASE known = 0
  <2> DEFINE e == [host |-> host, routes |-> <<route>>]
  <2>1. e.host = host /\ e.routes = <<route>> /\ e \in HostEntry
    BY DEF HostEntry
  <2>2. added = Append(new, e)
    BY <1>2, <1>5
  <2> HIDE DEF e, added
  <2>3. /\ Len(added) = Len(new) + 1 /\ added[Len(new) + 1] = e
        /\ \A i \in 1 .. Len(new) : added[i] = new[i]
    BY <1>0, <2>1, <2>2, AppendProperties
  <2>4. \A i \in 1 .. Len(added) : i \in 1 .. Len(new) \/ i = Len(new) + 1
    BY <1>0, <2>3
  <2>5. \A i \in 1 .. Len(new) : i \in 1 .. Len(added)
    BY <1>0, <2>3
  <2>6. Grown(RoutesAt(old, Len(new) + 1), added[Len(new) + 1].routes, route,
              added[Len(new) + 1].host, wide)
    <3>1. RoutesAt(old, Len(new) + 1) = <<>>
      BY <1>0 DEF RoutesAt
    <3>2. /\ <<>> \in Seq(Routes) /\ <<route>> \in Seq(Routes)
          /\ Len(<<>>) = 0 /\ Len(<<route>>) = 1 /\ <<route>>[1] = route
      OBVIOUS
    <3>3. Grown(<<>>, <<route>>, route, host, wide)
      BY <3>2 DEF Grown
    <3> QED
      BY <2>1, <2>3, <3>1, <3>3
  <2>7. ASSUME NEW i \in 1 .. Len(added)
        PROVE  Grown(RoutesAt(old, i), added[i].routes, route, added[i].host, wide)
    <3>1. CASE i \in 1 .. Len(new)
      <4>1. new[i].host # host /\ added[i] = new[i]
        BY <1>1, <1>5, <2>3, <3>1
      <4> QED
        BY <1>4, <3>1, <4>1
    <3> QED
      BY <2>4, <2>6, <3>1
  <2>8. ASSUME NEW i \in 1 .. Len(added), NEW j \in 1 .. Len(added), added[i].host = added[j].host
        PROVE  i = j
    <3>1. CASE i \in 1 .. Len(new) /\ j \in 1 .. Len(new)
      BY <1>0, <2>3, <2>8, <3>1
    <3>2. CASE i \in 1 .. Len(new) /\ j = Len(new) + 1
      BY <1>1, <1>5, <2>1, <2>3, <2>8, <3>2
    <3>3. CASE i = Len(new) + 1 /\ j \in 1 .. Len(new)
      BY <1>1, <1>5, <2>1, <2>3, <2>8, <3>3
    <3> QED
      BY <2>4, <3>1, <3>2, <3>3
  <2>9. ASSUME NEW h \in wide
        PROVE  \E i \in 1 .. Len(added) : added[i].host = h
    <3>1. CASE h = host
      <4>1. Len(new) + 1 \in 1 .. Len(added)
        BY <1>0, <2>3
      <4> QED
        BY <2>1, <2>3, <3>1, <4>1
    <3>2. CASE h \in claimed
      <4>1. PICK i \in 1 .. Len(new) : new[i].host = h
        BY <1>0, <3>2
      <4> QED
        BY <2>3, <2>5, <4>1
    <3> QED
      BY <3>1, <3>2
  <2>10. Len(old) <= Len(added) /\ \A i \in 1 .. Len(old) : added[i].host = old[i].host
    BY <1>0, <2>3
  <2> HIDE DEF wide
  <2>11. HostsGrown(old, added, route, wide)
    BY <1>0, <1>3, <2>7, <2>8, <2>9, <2>10 DEF HostsGrown, HostTable
  <2> QED
    BY <2>11 DEF added, wide
<1>6. CASE known # 0
  <2>1. known \in 1 .. Len(new) /\ new[known].host = host
    BY <1>0, <1>1, <1>6
  <2> DEFINE e == [new[known] EXCEPT !.routes = Append(@, route)]
  <2>2. new[known] \in HostEntry
    BY <1>0, <2>1
  <2>3. e.host = host /\ e.routes = Append(new[known].routes, route)
    BY <2>1, <2>2 DEF HostEntry
  <2>4. added = [new EXCEPT ![known] = e]
    BY <1>2, <1>6
  <2> HIDE DEF e, added
  <2>5. /\ Len(added) = Len(new) /\ added[known] = e
        /\ \A i \in 1 .. Len(new) : i # known => added[i] = new[i]
    <3>1. DOMAIN added = 1 .. Len(new) /\ added \in Seq(HostEntry)
      BY <1>0, <1>3, <2>4, LenProperties DEF HostsPlaced
    <3>2. Len(added) = Len(new)
      BY <1>0, <3>1, LenProperties
    <3>3. DOMAIN new = 1 .. Len(new)
      BY <1>0, LenProperties
    <3> QED
      BY <2>1, <2>4, <3>2, <3>3
  <2>6. \A i \in 1 .. Len(new) : added[i].host = new[i].host
    BY <2>1, <2>3, <2>5
  <2>7. ASSUME NEW i \in 1 .. Len(new)
        PROVE  Grown(RoutesAt(old, i), added[i].routes, route, added[i].host, wide)
    <3>1. CASE i = known
      <4>1. Grown(RoutesAt(old, i), new[i].routes, route, host, claimed)
        BY <1>0, <2>1, <3>1
      <4>2. Grown(RoutesAt(old, i), Append(new[i].routes, route), route, host, wide)
        BY <4>1, GrownMore
      <4> QED
        BY <2>3, <2>5, <3>1, <4>2
    <3>2. CASE i # known
      <4>1. new[i].host # host /\ added[i] = new[i]
        BY <1>0, <2>1, <2>5, <3>2
      <4> QED
        BY <1>4, <4>1
    <3> QED
      BY <3>1, <3>2
  <2>8. \A i, j \in 1 .. Len(added) : added[i].host = added[j].host => i = j
    BY <1>0, <2>5, <2>6
  <2>9. ASSUME NEW h \in wide
        PROVE  \E i \in 1 .. Len(added) : added[i].host = h
    <3>1. CASE h = host
      BY <2>1, <2>5, <2>6, <3>1
    <3>2. CASE h \in claimed
      BY <1>0, <2>5, <2>6, <3>2
    <3> QED
      BY <3>1, <3>2
  <2>10. Len(old) <= Len(added) /\ \A i \in 1 .. Len(old) : added[i].host = old[i].host
    <3>1. \A i \in 1 .. Len(old) : i \in 1 .. Len(new)
      BY <1>0
    <3> QED
      BY <1>0, <2>5, <2>6, <3>1
  <2> HIDE DEF wide
  <2>11. HostsGrown(old, added, route, wide)
    BY <1>0, <1>3, <2>5, <2>7, <2>8, <2>9, <2>10 DEF HostsGrown, HostTable
  <2> QED
    BY <2>11 DEF added, wide
<1> QED
  BY <1>5, <1>6

LEMMA AddToHostsGrown ==
    ASSUME NEW table, HostTable(table), NEW route \in Routes
    PROVE  HostsGrown(table, AddToHosts(table, route), route, ToSet(route.hosts))
<1> DEFINE N == Len(route.hosts)
           Upon(n) == {route.hosts[m] : m \in 1 .. n}
<1>1. route.hosts \in Seq(SUBSET Hosts) /\ N \in Nat /\ ToSet(route.hosts) = Upon(N)
  BY DEF Routes, RouteOf, ToSet
<1>0. PICK f : HostSteps(f, table, route)
  BY AddToHostsSteps
<1>2. /\ f[0] = table /\ AddToHosts(table, route) = f[N]
      /\ \A n \in 1 .. N : f[n] = AddToHost(f[n - 1], route.hosts[n], route)
  BY <1>0 DEF HostSteps
<1> DEFINE Sound == {n \in 0 .. N : HostsGrown(table, f[n], route, Upon(n))}
<1>3. 0 \in Sound
  <2>1. table \in Seq(HostEntry) /\ Len(table) \in Nat
    BY DEF HostTable, HostsPlaced
  <2>2. ASSUME NEW i \in 1 .. Len(table)
        PROVE  Grown(RoutesAt(table, i), table[i].routes, route, table[i].host, {})
    <3>1. table[i] \in HostEntry
      BY <2>1
    <3>2. table[i].routes \in Seq(Routes) /\ RoutesAt(table, i) = table[i].routes
      BY <3>1 DEF HostEntry, RoutesAt
    <3>3. Len(table[i].routes) \in Nat
      BY <3>2
    <3> QED
      BY <3>2, <3>3 DEF Grown
  <2>3. HostsGrown(table, table, route, {})
    BY <2>1, <2>2 DEF HostsGrown
  <2>4. Upon(0) = {}
    OBVIOUS
  <2> HIDE DEF Upon
  <2>5. HostsGrown(table, f[0], route, Upon(0))
    BY <1>2, <2>3, <2>4
  <2>6. 0 \in 0 .. N
    BY <1>1
  <2> QED
    BY <2>5, <2>6
<1>4. ASSUME NEW n \in 1 .. N, n - 1 \in Sound
      PROVE  n \in Sound
  <2>1. n \in 0 .. N
    BY <1>1
  <2>2. route.hosts[n] \in ToSet(route.hosts) /\ route.hosts[n] \in SUBSET Hosts
    BY <1>1 DEF ToSet
  <2>3. Upon(n) = Upon(n - 1) \cup {route.hosts[n]}
    <3>1. \A m \in 1 .. n : m = n \/ m \in 1 .. n - 1
      BY <1>1
    <3>2. n \in 1 .. n /\ \A m \in 1 .. n - 1 : m \in 1 .. n
      BY <1>1
    <3> QED
      BY <3>1, <3>2
  <2> HIDE DEF Upon
  <2>4. HostsGrown(table, f[n - 1], route, Upon(n - 1))
    BY <1>4
  <2>5. HostsGrown(table, f[n], route, Upon(n))
    BY <1>2, <2>2, <2>3, <2>4, AddToHostGrown
  <2> QED
    BY <2>1, <2>5
<1>5. N \in Sound
  <2> HIDE DEF Sound, N
  <2>1. \A n \in 0 .. N : n \in Sound
    BY <1>1, <1>3, <1>4, UpTo
  <2> QED
    BY <1>1, <2>1
<1> HIDE DEF Upon
<1> QED
  BY <1>1, <1>2, <1>5

(* A route and its other form are added to the same lists. *)
LEMMA GrownTwice ==
    ASSUME NEW old, NEW mid, NEW new, NEW route, NEW other, NEW claimed,
           HostsGrown(old, mid, route, claimed), HostsGrown(mid, new, other, claimed),
           NEW i \in 1 .. Len(new)
    PROVE  /\ Grown(RoutesAt(old, i), mid[i].routes, route, new[i].host, claimed)
           /\ Grown(mid[i].routes, new[i].routes, other, new[i].host, claimed)
           /\ i \in 1 .. Len(old) => new[i].host = old[i].host
<1>0. /\ Len(old) \in Nat /\ Len(mid) \in Nat /\ Len(new) \in Nat
      /\ Len(old) <= Len(mid) /\ Len(mid) <= Len(new)
  BY DEF HostsGrown, HostTable, HostsPlaced
<1>1. i \in 1 .. Len(mid)
  <2> SUFFICES ASSUME i \notin 1 .. Len(mid) PROVE FALSE
    OBVIOUS
  <2>1. Grown(<<>>, new[i].routes, other, new[i].host, claimed)
    BY DEF HostsGrown, RoutesAt
  <2>2. new[i].routes # <<>>
    BY DEF HostsGrown, HostTable, HostsPlaced
  <2>3. new[i].host \in claimed
    <3>1. new[i].routes \in Seq(Routes) /\ Len(<<>>) = 0
      BY <2>1 DEF Grown
    <3>2. Len(new[i].routes) \in Nat /\ Len(new[i].routes) # 0
      BY <2>2, <3>1, EmptySeq
    <3> QED
      BY <2>1, <3>1, <3>2 DEF Grown
  <2>4. PICK j \in 1 .. Len(mid) : mid[j].host = new[i].host
    BY <2>3 DEF HostsGrown
  <2>5. new[j].host = new[i].host /\ j \in 1 .. Len(new)
    BY <1>0, <2>4 DEF HostsGrown
  <2>6. j = i
    BY <2>5 DEF HostsGrown, HostTable
  <2> QED
    BY <2>4, <2>6
<1>2. mid[i].host = new[i].host /\ RoutesAt(mid, i) = mid[i].routes
  BY <1>1 DEF HostsGrown, RoutesAt
<1>3. Grown(RoutesAt(old, i), mid[i].routes, route, mid[i].host, claimed)
  BY <1>1 DEF HostsGrown
<1>4. Grown(RoutesAt(mid, i), new[i].routes, other, new[i].host, claimed)
  BY DEF HostsGrown
<1>5. i \in 1 .. Len(old) => mid[i].host = old[i].host
  BY DEF HostsGrown
<1> QED
  BY <1>2, <1>3, <1>4, <1>5

-----------------------------------------------------------------------------
(* The two forms of a URL in the static table. *)

(* The route for a method and a pattern: under CLONE the other form has an *)
(* entry, and the same route for GET; a redirect is for GET, leads to an   *)
(* entry or to a pattern of A, and the other form has no redirect.         *)
Entry(table, A, m, u) ==
    /\ m \in table[<<m, u>>].methods
    /\ strategy = "CLONE" /\ "GET" \in table[<<m, u>>].methods =>
          /\ <<m, OtherForm(u)>> \in DOMAIN table
          /\ m = "GET" => table[<<m, OtherForm(u)>>].name = table[<<m, u>>].name
    /\ table[<<m, u>>].to # <<>> =>
          /\ strategy = "REDIRECT" /\ m = "GET"
          /\ \E v : /\ table[<<m, u>>].to = <<v>>
                    /\ v \in A \/ <<"GET", v>> \in DOMAIN table
          /\ u.path # <<>> => /\ <<"GET", OtherForm(u)>> \in DOMAIN table
                              /\ table[<<"GET", OtherForm(u)>>].to = <<>>

StaticForms(table, A) ==
    \A m \in Methods, u \in Pattern : <<m, u>> \in DOMAIN table => Entry(table, A, m, u)

(* Of old to new a route is added for some methods and a pattern. *)
Entered(old, new, route, methods, pattern) ==
    \A m, u :
        /\ <<m, u>> \in DOMAIN new <=> <<m, u>> \in DOMAIN old \/ (m \in methods /\ u = pattern)
        /\ m \in methods /\ u = pattern => new[<<m, u>>] = route
        /\ <<m, u>> \in DOMAIN old /\ ~(m \in methods /\ u = pattern) =>
              new[<<m, u>>] = old[<<m, u>>]

LEMMA AddedStatic ==
    ASSUME NEW table, NEW route
    PROVE  Entered(table, AddStatic(table, route), route, route.methods, route.pattern)
<1> DEFINE keys == {<<m, route.pattern>> : m \in route.methods}
<1>1. \A m, u : <<m, u>> \in keys <=> m \in route.methods /\ u = route.pattern
  OBVIOUS
<1>2. AddStatic(table, route) = [k \in DOMAIN table \cup keys |-> IF k \in keys THEN route ELSE table[k]]
  BY DEF AddStatic, With
<1> HIDE DEF keys
<1> QED
  BY <1>1, <1>2 DEF Entered

(* A route of which no other form is made. *)
LEMMA StaticPlain ==
    ASSUME NEW table, NEW A, StaticForms(table, A), NEW route \in Routes, route.to = <<>>,
           strategy = "STRICT" \/ "GET" \notin route.methods
    PROVE  StaticForms(AddStatic(table, route), A)
<1> DEFINE new == AddStatic(table, route)
           p == route.pattern
<1>0. Entered(table, new, route, route.methods, p)
  BY AddedStatic
<1>1. \A m, u :
         /\ <<m, u>> \in DOMAIN new <=> <<m, u>> \in DOMAIN table \/ (m \in route.methods /\ u = p)
         /\ m \in route.methods /\ u = p => new[<<m, u>>] = route
         /\ <<m, u>> \in DOMAIN table /\ ~(m \in route.methods /\ u = p) =>
               new[<<m, u>>] = table[<<m, u>>]
  BY <1>0 DEF Entered
<1> HIDE DEF new
<1> SUFFICES ASSUME NEW m \in Methods, NEW u \in Pattern, <<m, u>> \in DOMAIN new
             PROVE  Entry(new, A, m, u)
  BY DEF StaticForms, new
<1>2. CASE m \in route.methods /\ u = p
  <2>1. new[<<m, u>>] = route
    BY <1>1, <1>2
  <2> QED
    BY <1>2, <2>1 DEF Entry
<1>3. CASE ~(m \in route.methods /\ u = p)
  <2>1. <<m, u>> \in DOMAIN table /\ new[<<m, u>>] = table[<<m, u>>]
    BY <1>1, <1>3
  <2>2. Entry(table, A, m, u)
    BY <2>1 DEF StaticForms
  <2>3. ASSUME strategy # "STRICT"
        PROVE  \A v : <<"GET", v>> \in DOMAIN table => new[<<"GET", v>>] = table[<<"GET", v>>]
    BY <1>1, <2>3
  <2>4. \A l, v : <<l, v>> \in DOMAIN table => <<l, v>> \in DOMAIN new
    BY <1>1
  <2>5. m \in new[<<m, u>>].methods
    BY <2>1, <2>2 DEF Entry
  <2>6. ASSUME strategy = "CLONE", "GET" \in new[<<m, u>>].methods
        PROVE  /\ <<m, OtherForm(u)>> \in DOMAIN new
               /\ m = "GET" => new[<<m, OtherForm(u)>>].name = new[<<m, u>>].name
    BY <2>1, <2>2, <2>3, <2>4, <2>6 DEF Entry
  <2>7. ASSUME new[<<m, u>>].to # <<>>
        PROVE  /\ strategy = "REDIRECT" /\ m = "GET"
               /\ \E v : /\ new[<<m, u>>].to = <<v>>
                         /\ v \in A \/ <<"GET", v>> \in DOMAIN new
               /\ u.path # <<>> => /\ <<"GET", OtherForm(u)>> \in DOMAIN new
                                   /\ new[<<"GET", OtherForm(u)>>].to = <<>>
    BY <2>1, <2>2, <2>3, <2>4, <2>7 DEF Entry
  <2> QED
    BY <2>5, <2>6, <2>7 DEF Entry
<1> QED
  BY <1>2, <1>3

(* A route and its clone with the other form. *)
LEMMA StaticCloned ==
    ASSUME NEW table, NEW A, StaticForms(table, A), NEW route \in Routes, route.to = <<>>,
           strategy = "CLONE", "GET" \in route.methods, NEW clone,
           clone = [route EXCEPT !.pattern = OtherForm(@)]
    PROVE  StaticForms(AddStatic(AddStatic(table, route), clone), A)
<1> DEFINE mid == AddStatic(table, route)
           new == AddStatic(mid, clone)
           p == route.pattern
           o == OtherForm(p)
           M == route.methods
<1>0. /\ clone.pattern = o /\ clone.methods = M /\ clone.name = route.name /\ clone.to = <<>>
      /\ p \in Pattern /\ o \in Pattern /\ OtherForm(o) = p
  BY OtherTwice DEF Routes, RouteOf
<1>1. \A m, u :
         /\ <<m, u>> \in DOMAIN mid <=> <<m, u>> \in DOMAIN table \/ (m \in M /\ u = p)
         /\ m \in M /\ u = p => mid[<<m, u>>] = route
         /\ <<m, u>> \in DOMAIN table /\ ~(m \in M /\ u = p) => mid[<<m, u>>] = table[<<m, u>>]
  <2>1. Entered(table, mid, route, M, p)
    BY AddedStatic
  <2> QED
    BY <2>1 DEF Entered
<1> HIDE DEF mid, o
<1>2. \A m, u :
         /\ <<m, u>> \in DOMAIN new <=> <<m, u>> \in DOMAIN mid \/ (m \in M /\ u = o)
         /\ m \in M /\ u = o => new[<<m, u>>] = clone
         /\ <<m, u>> \in DOMAIN mid /\ ~(m \in M /\ u = o) => new[<<m, u>>] = mid[<<m, u>>]
  <2>1. Entered(mid, new, clone, M, o)
    BY <1>0, AddedStatic
  <2> QED
    BY <2>1 DEF Entered
<1> HIDE DEF new, p, M
<1> SUFFICES ASSUME NEW m \in Methods, NEW u \in Pattern, <<m, u>> \in DOMAIN new
             PROVE  Entry(new, A, m, u)
  BY DEF StaticForms, new, mid
<1>3. ASSUME NEW l, l \in M
      PROVE  /\ <<l, p>> \in DOMAIN new /\ <<l, o>> \in DOMAIN new
             /\ new[<<l, p>>].name = route.name /\ new[<<l, o>>].name = route.name
  <2>1. <<l, p>> \in DOMAIN mid /\ mid[<<l, p>>] = route
    BY <1>1, <1>3
  <2>2. <<l, o>> \in DOMAIN new /\ new[<<l, o>>] = clone
    BY <1>2, <1>3
  <2>3. <<l, p>> \in DOMAIN new /\ new[<<l, p>>] \in {route, clone}
    <3>1. CASE p = o
      BY <2>2, <3>1
    <3>2. CASE p # o
      BY <1>2, <2>1, <3>2
    <3> QED
      BY <3>1, <3>2
  <2> QED
    BY <1>0, <2>2, <2>3
<1>4. CASE m \in M /\ (u = p \/ u = o)
  <2>1. new[<<m, u>>] \in {route, clone}
    BY <1>0, <1>1, <1>2, <1>4
  <2>2. new[<<m, u>>].methods = M /\ new[<<m, u>>].to = <<>> /\ new[<<m, u>>].name = route.name
    BY <1>0, <2>1 DEF M
  <2>3. OtherForm(u) = o \/ OtherForm(u) = p
    BY <1>0, <1>4 DEF o
  <2>4. <<m, OtherForm(u)>> \in DOMAIN new /\ new[<<m, OtherForm(u)>>].name = route.name
    BY <1>3, <1>4, <2>3
  <2> QED
    BY <1>4, <2>2, <2>4 DEF Entry
<1>5. CASE ~(m \in M /\ (u = p \/ u = o))
  <2>1. <<m, u>> \in DOMAIN table /\ new[<<m, u>>] = table[<<m, u>>]
    BY <1>1, <1>2, <1>5
  <2>2. Entry(table, A, m, u)
    BY <2>1 DEF StaticForms
  <2>3. \A l, v : <<l, v>> \in DOMAIN table => <<l, v>> \in DOMAIN new
    BY <1>1, <1>2
  <2>4. ASSUME "GET" \in new[<<m, u>>].methods
        PROVE  <<m, OtherForm(u)>> \in DOMAIN new
    BY <2>1, <2>2, <2>3, <2>4 DEF Entry
  <2>5. ASSUME "GET" \in new[<<m, u>>].methods, m = "GET"
        PROVE  new[<<m, OtherForm(u)>>].name = new[<<m, u>>].name
    <3>1. u # p /\ u # o
      BY <1>5, <2>5 DEF M
    <3>2. OtherForm(u) # p /\ OtherForm(u) # o
      <4>1. OtherForm(OtherForm(u)) = u
        BY OtherTwice
      <4> QED
        BY <1>0, <3>1, <4>1 DEF o
    <3>3. <<m, OtherForm(u)>> \in DOMAIN table
      BY <2>1, <2>2, <2>5 DEF Entry
    <3>4. new[<<m, OtherForm(u)>>] = table[<<m, OtherForm(u)>>]
      BY <1>1, <1>2, <3>2, <3>3
    <3> QED
      BY <2>1, <2>2, <2>5, <3>4 DEF Entry
  <2>6. new[<<m, u>>].to = <<>> /\ m \in new[<<m, u>>].methods
    BY <2>1, <2>2 DEF Entry
  <2> QED
    BY <2>4, <2>5, <2>6 DEF Entry
<1> QED
  BY <1>4, <1>5

(* A route and the redirect to last for its other form. *)
LEMMA StaticRedirected ==
    ASSUME NEW table, NEW A, StaticForms(table, A), NEW route \in Routes, route.to = <<>>,
           strategy = "REDIRECT", "GET" \in route.methods, NEW last \in A, NEW redirect,
           redirect = [Redirected(route, last) EXCEPT !.pattern = OtherForm(route.pattern)]
    PROVE  StaticForms(AddStatic(AddStatic(table, route), redirect), A)
<1> DEFINE mid == AddStatic(table, route)
           new == AddStatic(mid, redirect)
           p == route.pattern
           o == OtherForm(p)
           M == route.methods
<1>0. /\ redirect.pattern = o /\ redirect.methods = {"GET"} /\ redirect.to = <<last>>
      /\ p \in Pattern /\ o \in Pattern /\ OtherForm(o) = p /\ o.path = p.path
      /\ p.path # <<>> => o # p
  BY OtherTwice DEF Routes, RouteOf, Redirected
<1>1. \A m, u :
         /\ <<m, u>> \in DOMAIN mid <=> <<m, u>> \in DOMAIN table \/ (m \in M /\ u = p)
         /\ m \in M /\ u = p => mid[<<m, u>>] = route
         /\ <<m, u>> \in DOMAIN table /\ ~(m \in M /\ u = p) => mid[<<m, u>>] = table[<<m, u>>]
  <2>1. Entered(table, mid, route, M, p)
    BY AddedStatic
  <2> QED
    BY <2>1 DEF Entered
<1> HIDE DEF mid, o
<1>2. \A m, u :
         /\ <<m, u>> \in DOMAIN new <=> <<m, u>> \in DOMAIN mid \/ (m = "GET" /\ u = o)
         /\ m = "GET" /\ u = o => new[<<m, u>>] = redirect
         /\ <<m, u>> \in DOMAIN mid /\ ~(m = "GET" /\ u = o) => new[<<m, u>>] = mid[<<m, u>>]
  <2> DEFINE G == {"GET"}
  <2>1. Entered(mid, new, redirect, G, o)
    BY <1>0, AddedStatic
  <2>2. \A m : m \in G <=> m = "GET"
    OBVIOUS
  <2>3. \A m, u :
         /\ <<m, u>> \in DOMAIN new <=> <<m, u>> \in DOMAIN mid \/ (m \in G /\ u = o)
         /\ m \in G /\ u = o => new[<<m, u>>] = redirect
         /\ <<m, u>> \in DOMAIN mid /\ ~(m \in G /\ u = o) => new[<<m, u>>] = mid[<<m, u>>]
    BY <2>1 DEF Entered
  <2> HIDE DEF G, new
  <2>4. ASSUME NEW m, NEW u
        PROVE  /\ <<m, u>> \in DOMAIN new <=> <<m, u>> \in DOMAIN mid \/ (m = "GET" /\ u = o)
               /\ m = "GET" /\ u = o => new[<<m, u>>] = redirect
               /\ <<m, u>> \in DOMAIN mid /\ ~(m = "GET" /\ u = o) => new[<<m, u>>] = mid[<<m, u>>]
    <3>1. m \in G <=> m = "GET"
      BY <2>2
    <3> QED
      BY <2>3, <3>1
  <2> QED
    BY <2>4
<1> HIDE DEF new, p, M
<1> SUFFICES ASSUME NEW m \in Methods, NEW u \in Pattern, <<m, u>> \in DOMAIN new
             PROVE  Entry(new, A, m, u)
  BY DEF StaticForms, new, mid
<1>3. CASE m = "GET" /\ u = o
  <2>1. new[<<m, u>>] = redirect
    BY <1>2, <1>3
  <2>2. ASSUME u.path # <<>>
        PROVE  /\ <<"GET", OtherForm(u)>> \in DOMAIN new
               /\ new[<<"GET", OtherForm(u)>>].to = <<>>
    <3>1. OtherForm(u) = p /\ p # o
      BY <1>0, <1>3, <2>2
    <3>2. <<"GET", p>> \in DOMAIN mid /\ mid[<<"GET", p>>] = route
      BY <1>1 DEF M
    <3> QED
      BY <1>2, <3>1, <3>2
  <2> QED
    BY <1>0, <1>3, <2>1, <2>2 DEF Entry
<1>4. CASE m \in M /\ u = p /\ ~(m = "GET" /\ u = o)
  <2>1. new[<<m, u>>] = route
    BY <1>1, <1>2, <1>4
  <2> QED
    BY <1>4, <2>1 DEF Entry, M
<1>5. CASE ~(m \in M /\ u = p) /\ ~(m = "GET" /\ u = o)
  <2>1. <<m, u>> \in DOMAIN table /\ new[<<m, u>>] = table[<<m, u>>]
    BY <1>1, <1>2, <1>5
  <2>2. Entry(table, A, m, u)
    BY <2>1 DEF StaticForms
  <2>3. \A l, v : <<l, v>> \in DOMAIN table => <<l, v>> \in DOMAIN new
    BY <1>1, <1>2
  <2>4. ASSUME new[<<m, u>>].to # <<>>, u.path # <<>>
        PROVE  /\ <<"GET", OtherForm(u)>> \in DOMAIN new
               /\ new[<<"GET", OtherForm(u)>>].to = <<>>
    <3>1. /\ m = "GET" /\ <<"GET", OtherForm(u)>> \in DOMAIN table
          /\ table[<<"GET", OtherForm(u)>>].to = <<>>
      BY <2>1, <2>2, <2>4 DEF Entry
    <3>2. u # p /\ u # o
      BY <1>5, <3>1 DEF M
    <3>3. OtherForm(u) # p /\ OtherForm(u) # o
      <4>1. OtherForm(OtherForm(u)) = u
        BY OtherTwice
      <4> QED
        BY <1>0, <3>2, <4>1 DEF o
    <3>4. new[<<"GET", OtherForm(u)>>] = table[<<"GET", OtherForm(u)>>]
      BY <1>1, <1>2, <3>1, <3>3
    <3> QED
      BY <2>3, <3>1, <3>4
  <2>5. ASSUME new[<<m, u>>].to # <<>>
        PROVE  /\ m = "GET"
               /\ \E v : /\ new[<<m, u>>].to = <<v>>
                         /\ v \in A \/ <<"GET", v>> \in DOMAIN new
    BY <2>1, <2>2, <2>3, <2>5 DEF Entry
  <2>6. m \in new[<<m, u>>].methods
    BY <2>1, <2>2 DEF Entry
  <2> QED
    BY <2>4, <2>5, <2>6 DEF Entry
<1> QED
  BY <1>3, <1>4, <1>5

-----------------------------------------------------------------------------
(* The two forms of a URL in all tables. *)

(* While a route is added, redirects under the hosts it claims may lead to *)
(* its last prefix, which is still to come.                                *)
Ahead(A, host, claimed) == IF host \in claimed THEN A ELSE {}

HostForms(table, A, claimed) ==
    \A i \in 1 .. Len(table) : ListForms(table[i].routes, Ahead(A, table[i].host, claimed))

LEMMA RoutesAtForms ==
    ASSUME NEW table, NEW A, NEW claimed, HostForms(table, A, claimed),
           NEW i, NEW host, i \in 1 .. Len(table) => host = table[i].host
    PROVE  ListForms(RoutesAt(table, i), Ahead(A, host, claimed))
<1>1. CASE i \in 1 .. Len(table)
  BY <1>1 DEF RoutesAt, HostForms
<1>2. CASE i \notin 1 .. Len(table)
  <2>1. RoutesAt(table, i) = <<>>
    BY <1>2 DEF RoutesAt
  <2>2. Len(<<>>) = 0 /\ 1 .. 0 = {}
    OBVIOUS
  <2> QED
    BY <2>1, <2>2 DEF ListForms
<1> QED
  BY <1>1, <1>2

(* Under hosts that are not claimed nothing changes. *)
LEMMA ListSame ==
    ASSUME NEW old, NEW new, NEW route, NEW host, NEW claimed,
           Grown(old, new, route, host, claimed), host \notin claimed,
           NEW A, ListForms(old, A)
    PROVE  ListForms(new, A)
<1>1. Len(old) \in Nat /\ Len(new) \in Nat /\ Len(old) <= Len(new) /\ ~(Len(old) < Len(new))
  BY DEF Grown
<1>2. Len(new) = Len(old)
  BY <1>1
<1> QED
  BY <1>2, GrownKeeps DEF ListForms

LEMMA HostsPlain ==
    ASSUME NEW table, HostTable(table), NEW A, NEW claimed, HostForms(table, A, claimed),
           NEW route \in Routes, route.to = <<>>, ~Twofold(route)
    PROVE  /\ HostTable(AddToHosts(table, route))
           /\ HostForms(AddToHosts(table, route), A, claimed)
<1> DEFINE new == AddToHosts(table, route)
<1>1. HostsGrown(table, new, route, ToSet(route.hosts))
  BY AddToHostsGrown
<1> HIDE DEF new
<1>2. ASSUME NEW i \in 1 .. Len(new)
      PROVE  ListForms(new[i].routes, Ahead(A, new[i].host, claimed))
  <2>1. Grown(RoutesAt(table, i), new[i].routes, route, new[i].host, ToSet(route.hosts))
    BY <1>1 DEF HostsGrown
  <2>2. i \in 1 .. Len(table) => new[i].host = table[i].host
    BY <1>1 DEF HostsGrown
  <2>3. ListForms(RoutesAt(table, i), Ahead(A, new[i].host, claimed))
    BY <2>2, RoutesAtForms
  <2> QED
    BY <2>1, <2>3, ListPlain
<1>3. HostTable(new) /\ HostForms(new, A, claimed)
  BY <1>1, <1>2 DEF HostsGrown, HostForms
<1> QED
  BY <1>3 DEF new

LEMMA HostsCloned ==
    ASSUME NEW table, HostTable(table), NEW A, NEW claimed, HostForms(table, A, claimed),
           NEW route \in Routes, route.to = <<>>, NEW clone \in Routes,
           clone = [route EXCEPT !.pattern = OtherForm(@)]
    PROVE  /\ HostTable(AddToHosts(AddToHosts(table, route), clone))
           /\ HostForms(AddToHosts(AddToHosts(table, route), clone), A, claimed)
<1> DEFINE mid == AddToHosts(table, route)
           new == AddToHosts(mid, clone)
           own == ToSet(route.hosts)
<1>0. clone.hosts = route.hosts
  BY DEF Routes, RouteOf
<1>1. HostsGrown(table, mid, route, own)
  BY AddToHostsGrown
<1> HIDE DEF mid, own
<1>2. HostTable(mid)
  BY <1>1 DEF HostsGrown
<1>3. HostsGrown(mid, new, clone, own)
  BY <1>0, <1>2, AddToHostsGrown DEF own
<1> HIDE DEF new
<1>4. ASSUME NEW i \in 1 .. Len(new)
      PROVE  ListForms(new[i].routes, Ahead(A, new[i].host, claimed))
  <2>1. /\ Grown(RoutesAt(table, i), mid[i].routes, route, new[i].host, own)
        /\ Grown(mid[i].routes, new[i].routes, clone, new[i].host, own)
        /\ i \in 1 .. Len(table) => new[i].host = table[i].host
    BY <1>1, <1>3, GrownTwice
  <2>2. ListForms(RoutesAt(table, i), Ahead(A, new[i].host, claimed))
    BY <2>1, RoutesAtForms
  <2> QED
    BY <2>1, <2>2, ListCloned
<1>5. HostTable(new) /\ HostForms(new, A, claimed)
  BY <1>3, <1>4 DEF HostsGrown, HostForms
<1> QED
  BY <1>5 DEF new, mid

(* Each host of own has the route. *)
Held(table, route, own) ==
    \A i \in 1 .. Len(table) : table[i].host \in own =>
        \E p \in 1 .. Len(table[i].routes) : table[i].routes[p] = route

LEMMA HostsRedirected ==
    ASSUME NEW table, HostTable(table), NEW A, NEW route \in Routes,
           HostForms(table, A, ToSet(route.hosts)), route.to = <<>>,
           strategy = "REDIRECT", Static(route, route.pattern),
           NEW last \in A, NEW redirect \in Routes,
           redirect = [Redirected(route, last) EXCEPT !.pattern = OtherForm(route.pattern)]
    PROVE  /\ HostTable(AddToHosts(AddToHosts(table, route), redirect))
           /\ HostForms(AddToHosts(AddToHosts(table, route), redirect), A, ToSet(route.hosts))
           /\ Held(AddToHosts(AddToHosts(table, route), redirect), route, ToSet(route.hosts))
<1> DEFINE mid == AddToHosts(table, route)
           new == AddToHosts(mid, redirect)
           own == ToSet(route.hosts)
<1>0. redirect.hosts = route.hosts
  BY DEF Routes, RouteOf, Redirected
<1>1. HostsGrown(table, mid, route, own)
  BY AddToHostsGrown
<1>a. HostForms(table, A, own)
  OBVIOUS
<1> HIDE DEF mid, own
<1>2. HostTable(mid)
  BY <1>1 DEF HostsGrown
<1>3. HostsGrown(mid, new, redirect, own)
  BY <1>0, <1>2, AddToHostsGrown DEF own
<1> HIDE DEF new
<1>4. ASSUME NEW i \in 1 .. Len(new)
      PROVE  /\ ListForms(new[i].routes, Ahead(A, new[i].host, own))
             /\ new[i].host \in own => \E p \in 1 .. Len(new[i].routes) : new[i].routes[p] = route
  <2>1. /\ Grown(RoutesAt(table, i), mid[i].routes, route, new[i].host, own)
        /\ Grown(mid[i].routes, new[i].routes, redirect, new[i].host, own)
        /\ i \in 1 .. Len(table) => new[i].host = table[i].host
    BY <1>1, <1>3, GrownTwice
  <2>2. ListForms(RoutesAt(table, i), Ahead(A, new[i].host, own))
    BY <2>1, <1>a, RoutesAtForms
  <2>3. CASE new[i].host \in own
    <3>1. Ahead(A, new[i].host, own) = A
      BY <2>3 DEF Ahead
    <3>2. ListForms(new[i].routes, A)
      BY <2>1, <2>2, <3>1, ListRedirected
    <3>3. /\ Len(RoutesAt(table, i)) < Len(mid[i].routes)
          /\ Len(RoutesAt(table, i)) \in Nat /\ Len(mid[i].routes) \in Nat
          /\ Len(new[i].routes) \in Nat /\ Len(mid[i].routes) <= Len(new[i].routes)
      BY <2>1, <2>3 DEF Grown
    <3> DEFINE p == Len(mid[i].routes)
    <3>4. p \in 1 .. Len(mid[i].routes) /\ p \in 1 .. Len(new[i].routes) /\ Len(RoutesAt(table, i)) < p
      BY <3>3
    <3>5. mid[i].routes[p] = route /\ new[i].routes[p] = mid[i].routes[p]
      <4> HIDE DEF p
      <4> QED
        BY <2>1, <3>4 DEF Grown
    <3> HIDE DEF p
    <3> QED
      BY <3>1, <3>2, <3>4, <3>5
  <2>4. CASE new[i].host \notin own
    <3>1. ListForms(mid[i].routes, Ahead(A, new[i].host, own))
      BY <2>1, <2>2, <2>4, ListSame
    <3>2. ListForms(new[i].routes, Ahead(A, new[i].host, own))
      BY <2>1, <2>4, <3>1, ListSame
    <3> QED
      BY <2>4, <3>2
  <2> QED
    BY <2>3, <2>4
<1>5. HostTable(new) /\ HostForms(new, A, own) /\ Held(new, route, own)
  BY <1>3, <1>4 DEF HostsGrown, HostForms, Held
<1> QED
  BY <1>5 DEF new, mid, own

(* Both forms in the tables t, where redirects may lead to a pattern of A, *)
(* or of B under the hosts that are claimed.                               *)
Forms(t, A, B, claimed) ==
    /\ StaticForms(t.routes, A)
    /\ HostTable(t.hosts) /\ HostForms(t.hosts, B, claimed)
    /\ \A i \in 1 .. Len(t.dynamic_routes) : t.dynamic_routes[i].to = <<>>

(* What _add_route_to_cache does to each table. *)
LEMMA CacheEffect ==
    ASSUME NEW t, TablesSound(t), NEW route \in Routes
    PROVE  LET u == AddRouteToCache(t, route) IN
           /\ u.hosts = IF route.hosts # <<>> THEN AddToHosts(t.hosts, route) ELSE t.hosts
           /\ u.routes = IF route.hosts = <<>> /\ ~route.dynamic THEN AddStatic(t.routes, route)
                         ELSE t.routes
           /\ u.dynamic_routes = IF route.hosts = <<>> /\ route.dynamic
                                 THEN Append(t.dynamic_routes, route) ELSE t.dynamic_routes
<1>1. t = [routes |-> t.routes, dynamic_routes |-> t.dynamic_routes,
           hosts |-> t.hosts, reverse_index |-> t.reverse_index]
  BY DEF TablesSound
<1>2. CASE route.hosts # <<>>
  BY <1>1, <1>2 DEF AddRouteToCache
<1>3. CASE route.hosts = <<>> /\ route.dynamic
  BY <1>1, <1>3 DEF AddRouteToCache
<1>4. CASE route.hosts = <<>> /\ ~route.dynamic
  BY <1>1, <1>4 DEF AddRouteToCache
<1> QED
  BY <1>2, <1>3, <1>4

(* What a route of one or the other form changes of the tables. *)
LEMMA FormsType ==
    ASSUME NEW route \in Routes, NEW last \in Pattern
    PROVE  /\ [route EXCEPT !.pattern = OtherForm(@)] \in Routes
           /\ [Redirected(route, last) EXCEPT !.pattern = OtherForm(route.pattern)] \in Routes
<1> DEFINE other == OtherForm(route.pattern)
<1>1. other \in Pattern
  BY OtherFormType DEF Routes, RouteOf
<1>2. <<last>> \in Seq(Pattern) /\ {"GET"} \in SUBSET Methods
  BY DEF Methods
<1> HIDE DEF other
<1>3. [route EXCEPT !.pattern = other] \in Routes
  BY <1>1 DEF Routes, RouteOf
<1>4. [Redirected(route, last) EXCEPT !.pattern = other] \in Routes
  BY <1>1, <1>2 DEF Routes, RouteOf, Redirected
<1> QED
  BY <1>3, <1>4 DEF other

LEMMA HostTableOf ==
    ASSUME NEW t, TablesSound(t)
    PROVE  t.dynamic_routes \in Seq(Routes)
BY DEF TablesSound, TablesOK

(* A route of which no other form is made. *)
LEMMA AddedPlain ==
    ASSUME NEW t, TablesSound(t), NEW A, NEW B, NEW claimed, Forms(t, A, B, claimed),
           NEW route \in Routes, route.to = <<>>,
           route.dynamic \/ "GET" \notin route.methods \/ strategy = "STRICT"
    PROVE  Forms(AddRouteToCache(t, route), A, B, claimed)
<1> DEFINE u == AddRouteToCache(t, route)
<1>1. /\ u.hosts = IF route.hosts # <<>> THEN AddToHosts(t.hosts, route) ELSE t.hosts
      /\ u.routes = IF route.hosts = <<>> /\ ~route.dynamic THEN AddStatic(t.routes, route)
                    ELSE t.routes
      /\ u.dynamic_routes = IF route.hosts = <<>> /\ route.dynamic
                            THEN Append(t.dynamic_routes, route) ELSE t.dynamic_routes
  BY CacheEffect
<1> SUFFICES Forms(u, A, B, claimed)
  OBVIOUS
<1> HIDE DEF u
<1>2. /\ StaticForms(t.routes, A) /\ HostTable(t.hosts) /\ HostForms(t.hosts, B, claimed)
      /\ \A i \in 1 .. Len(t.dynamic_routes) : t.dynamic_routes[i].to = <<>>
  BY DEF Forms
<1>3. CASE route.hosts # <<>>
  <2>1. ~Twofold(route)
    BY DEF Twofold
  <2>2. HostTable(u.hosts) /\ HostForms(u.hosts, B, claimed)
    BY <1>1, <1>2, <1>3, <2>1, HostsPlain
  <2> QED
    BY <1>1, <1>2, <1>3, <2>2 DEF Forms
<1>4. CASE route.hosts = <<>> /\ route.dynamic
  <2> DEFINE old == t.dynamic_routes
             new == u.dynamic_routes
  <2>1. /\ new \in Seq(Routes) /\ Len(new) = Len(old) + 1 /\ Len(old) \in Nat
        /\ \A j \in 1 .. Len(old) : new[j] = old[j]
        /\ new[Len(old) + 1] = route
    BY <1>1, <1>4, HostTableOf, AppendedRoutes
  <2>2. \A i \in 1 .. Len(old) : old[i].to = <<>>
    BY <1>2
  <2> HIDE DEF old, new
  <2>3. \A i \in 1 .. Len(new) : i \in 1 .. Len(old) \/ i = Len(old) + 1
    BY <2>1
  <2>4. ASSUME NEW i \in 1 .. Len(new) PROVE new[i].to = <<>>
    BY <2>1, <2>2, <2>3
  <2> QED
    BY <1>1, <1>2, <1>4, <2>4 DEF Forms, new
<1>5. CASE route.hosts = <<>> /\ ~route.dynamic
  <2>1. StaticForms(u.routes, A)
    BY <1>1, <1>2, <1>5, StaticPlain
  <2> QED
    BY <1>1, <1>2, <1>5, <2>1 DEF Forms
<1> QED
  BY <1>3, <1>4, <1>5

LEMMA AddedCloned ==
    ASSUME NEW t, TablesSound(t), NEW A, NEW B, NEW claimed, Forms(t, A, B, claimed),
           NEW route \in Routes, route.to = <<>>,
           ~route.dynamic, "GET" \in route.methods, strategy = "CLONE",
           NEW clone, clone = [route EXCEPT !.pattern = OtherForm(@)], clone \in Routes
    PROVE  Forms(AddRouteToCache(AddRouteToCache(t, route), clone), A, B, claimed)
<1> DEFINE u == AddRouteToCache(t, route)
           v == AddRouteToCache(u, clone)
<1>0. clone.hosts = route.hosts /\ clone.dynamic = route.dynamic
  BY DEF Routes, RouteOf
<1>1. /\ u.hosts = IF route.hosts # <<>> THEN AddToHosts(t.hosts, route) ELSE t.hosts
      /\ u.routes = IF route.hosts = <<>> /\ ~route.dynamic THEN AddStatic(t.routes, route)
                    ELSE t.routes
      /\ u.dynamic_routes = IF route.hosts = <<>> /\ route.dynamic
                            THEN Append(t.dynamic_routes, route) ELSE t.dynamic_routes
  BY CacheEffect
<1>2. TablesSound(u)
  BY AddRouteToCacheSound
<1> SUFFICES Forms(v, A, B, claimed)
  OBVIOUS
<1> HIDE DEF u
<1>3. /\ v.hosts = IF clone.hosts # <<>> THEN AddToHosts(u.hosts, clone) ELSE u.hosts
      /\ v.routes = IF clone.hosts = <<>> /\ ~clone.dynamic THEN AddStatic(u.routes, clone)
                    ELSE u.routes
      /\ v.dynamic_routes = IF clone.hosts = <<>> /\ clone.dynamic
                            THEN Append(u.dynamic_routes, clone) ELSE u.dynamic_routes
  <2>1. ASSUME NEW r \in Routes
        PROVE  LET w == AddRouteToCache(u, r) IN
               /\ w.hosts = IF r.hosts # <<>> THEN AddToHosts(u.hosts, r) ELSE u.hosts
               /\ w.routes = IF r.hosts = <<>> /\ ~r.dynamic THEN AddStatic(u.routes, r)
                             ELSE u.routes
               /\ w.dynamic_routes = IF r.hosts = <<>> /\ r.dynamic
                                     THEN Append(u.dynamic_routes, r) ELSE u.dynamic_routes
    BY <1>2, CacheEffect
  <2> QED
    BY ONLY <2>1, clone \in Routes
<1> HIDE DEF v
<1>4. /\ StaticForms(t.routes, A) /\ HostTable(t.hosts) /\ HostForms(t.hosts, B, claimed)
      /\ \A i \in 1 .. Len(t.dynamic_routes) : t.dynamic_routes[i].to = <<>>
  BY DEF Forms
<1>5. CASE route.hosts # <<>>
  <2>1. /\ v.hosts = AddToHosts(AddToHosts(t.hosts, route), clone)
        /\ v.routes = t.routes /\ v.dynamic_routes = t.dynamic_routes
    BY <1>0, <1>1, <1>3, <1>5
  <2>2. HostTable(v.hosts) /\ HostForms(v.hosts, B, claimed)
    BY <1>4, <2>1, HostsCloned
  <2> QED
    BY <1>4, <2>1, <2>2 DEF Forms
<1>6. CASE route.hosts = <<>>
  <2>1. /\ v.routes = AddStatic(AddStatic(t.routes, route), clone)
        /\ v.hosts = t.hosts /\ v.dynamic_routes = t.dynamic_routes
    BY <1>0, <1>1, <1>3, <1>6
  <2>2. StaticForms(v.routes, A)
    BY <1>4, <2>1, StaticCloned
  <2> QED
    BY <1>4, <2>1, <2>2 DEF Forms
<1> QED
  BY <1>5, <1>6

(* There is a route of GET for a pattern in the table, or under each of the *)
(* hosts.                                                                   *)
Present(t, pattern, own) ==
    /\ own = {} => <<"GET", pattern>> \in DOMAIN t.routes
    /\ \A i \in 1 .. Len(t.hosts) : t.hosts[i].host \in own =>
          \E p \in 1 .. Len(t.hosts[i].routes) : Static(t.hosts[i].routes[p], pattern)

(* Where redirects of a route may lead before its last prefix is added. *)
Pending(route, last) == IF route.hosts = <<>> THEN {last} ELSE {}

LEMMA AddedRedirected ==
    ASSUME NEW t, TablesSound(t), NEW route \in Routes, route.to = <<>>,
           NEW last \in Pattern,
           Forms(t, Pending(route, last), {last}, ToSet(route.hosts)),
           ~route.dynamic, "GET" \in route.methods, strategy = "REDIRECT",
           NEW redirect \in Routes,
           redirect = [Redirected(route, last) EXCEPT !.pattern = OtherForm(route.pattern)]
    PROVE  LET v == AddRouteToCache(AddRouteToCache(t, route), redirect) IN
           /\ Forms(v, Pending(route, last), {last}, ToSet(route.hosts))
           /\ route.pattern = last => Present(v, last, ToSet(route.hosts))
<1> DEFINE u == AddRouteToCache(t, route)
           v == AddRouteToCache(u, redirect)
           A == Pending(route, last)
           own == ToSet(route.hosts)
<1>0. redirect.hosts = route.hosts /\ redirect.dynamic = route.dynamic
  BY DEF Routes, RouteOf, Redirected
<1>1. /\ u.hosts = IF route.hosts # <<>> THEN AddToHosts(t.hosts, route) ELSE t.hosts
      /\ u.routes = IF route.hosts = <<>> /\ ~route.dynamic THEN AddStatic(t.routes, route)
                    ELSE t.routes
      /\ u.dynamic_routes = IF route.hosts = <<>> /\ route.dynamic
                            THEN Append(t.dynamic_routes, route) ELSE t.dynamic_routes
  BY CacheEffect
<1>2. TablesSound(u)
  BY AddRouteToCacheSound
<1> SUFFICES /\ Forms(v, A, {last}, own)
             /\ route.pattern = last => Present(v, last, own)
  OBVIOUS
<1> HIDE DEF u
<1>3. /\ v.hosts = IF redirect.hosts # <<>> THEN AddToHosts(u.hosts, redirect) ELSE u.hosts
      /\ v.routes = IF redirect.hosts = <<>> /\ ~redirect.dynamic
                    THEN AddStatic(u.routes, redirect) ELSE u.routes
      /\ v.dynamic_routes = IF redirect.hosts = <<>> /\ redirect.dynamic
                            THEN Append(u.dynamic_routes, redirect) ELSE u.dynamic_routes
  <2>1. ASSUME NEW r \in Routes
        PROVE  LET w == AddRouteToCache(u, r) IN
               /\ w.hosts = IF r.hosts # <<>> THEN AddToHosts(u.hosts, r) ELSE u.hosts
               /\ w.routes = IF r.hosts = <<>> /\ ~r.dynamic THEN AddStatic(u.routes, r)
                             ELSE u.routes
               /\ w.dynamic_routes = IF r.hosts = <<>> /\ r.dynamic
                                     THEN Append(u.dynamic_routes, r) ELSE u.dynamic_routes
    BY <1>2, CacheEffect
  <2> QED
    BY ONLY <2>1, redirect \in Routes
<1> HIDE DEF v
<1>4. /\ StaticForms(t.routes, A) /\ HostTable(t.hosts) /\ HostForms(t.hosts, {last}, own)
      /\ \A i \in 1 .. Len(t.dynamic_routes) : t.dynamic_routes[i].to = <<>>
  BY DEF Forms
<1>5. own = {} <=> route.hosts = <<>>
  <2>1. route.hosts \in Seq(SUBSET Hosts) /\ own = {route.hosts[i] : i \in DOMAIN route.hosts}
    BY DEF Routes, RouteOf, ToSet
  <2>2. route.hosts = <<>> <=> Len(route.hosts) = 0
    BY <2>1, EmptySeq
  <2>3. Len(route.hosts) \in Nat /\ DOMAIN route.hosts = 1 .. Len(route.hosts)
    BY <2>1
  <2>4. Len(route.hosts) # 0 => 1 \in DOMAIN route.hosts
    BY <2>3
  <2>5. Len(route.hosts) = 0 => DOMAIN route.hosts = {}
    BY <2>3
  <2> HIDE DEF own
  <2> QED
    BY <2>1, <2>2, <2>4, <2>5
<1>6. CASE route.hosts # <<>>
  <2>1. /\ v.hosts = AddToHosts(AddToHosts(t.hosts, route), redirect)
        /\ v.routes = t.routes /\ v.dynamic_routes = t.dynamic_routes
    BY <1>0, <1>1, <1>3, <1>6
  <2>2. Static(route, route.pattern) /\ last \in {last}
    BY DEF Static
  <2>3. HostTable(v.hosts) /\ HostForms(v.hosts, {last}, own) /\ Held(v.hosts, route, own)
    <3> DEFINE table == t.hosts
               B == {last}
               new == AddToHosts(AddToHosts(table, route), redirect)
    <3>1. HostTable(table) /\ HostForms(table, B, own) /\ last \in B
      BY <1>4
    <3> HIDE DEF table, B
    <3>2. HostTable(new) /\ HostForms(new, B, own) /\ Held(new, route, own)
      BY <2>2, <3>1, HostsRedirected
    <3>3. new = v.hosts
      BY <2>1 DEF table
    <3> HIDE DEF new
    <3> QED
      BY <3>2, <3>3 DEF B
  <2>4. Forms(v, A, {last}, own)
    BY <1>4, <2>1, <2>3 DEF Forms
  <2>5. route.pattern = last => Present(v, last, own)
    <3> HIDE DEF own
    <3> QED
      BY <1>5, <1>6, <2>2, <2>3 DEF Present, Held
  <2> QED
    BY <2>4, <2>5
<1>7. CASE route.hosts = <<>>
  <2>1. /\ v.routes = AddStatic(AddStatic(t.routes, route), redirect)
        /\ v.hosts = t.hosts /\ v.dynamic_routes = t.dynamic_routes
    BY <1>0, <1>1, <1>3, <1>7
  <2>2. last \in A
    BY <1>7 DEF Pending
  <2>3. StaticForms(v.routes, A)
    <3> HIDE DEF A
    <3> QED
      BY <1>4, <2>1, <2>2, StaticRedirected
  <2>4. Forms(v, A, {last}, own)
    BY <1>4, <2>1, <2>3 DEF Forms
  <2>5. <<"GET", route.pattern>> \in DOMAIN v.routes
    <3>1. Entered(t.routes, AddStatic(t.routes, route), route, route.methods, route.pattern)
      BY AddedStatic
    <3>2. Entered(AddStatic(t.routes, route), v.routes, redirect, redirect.methods, redirect.pattern)
      BY <2>1, AddedStatic
    <3> QED
      BY <3>1, <3>2 DEF Entered
  <2>6. own = {}
    BY <1>5, <1>7
  <2>7. route.pattern = last => Present(v, last, own)
    <3> HIDE DEF own
    <3> QED
      BY <2>5, <2>6 DEF Present
  <2> QED
    BY <2>4, <2>7
<1> QED
  BY <1>6, <1>7

(* One prefix, by the three ways of add_route. *)
LEMMA CloneForms ==
    ASSUME NEW t, TablesSound(t), Forms(t, {}, {}, {}), NEW route \in Routes, route.to = <<>>,
           NEW last, strategy \in {"STRICT", "REDIRECT", "CLONE"},
           route.dynamic \/ "GET" \notin route.methods \/ strategy # "REDIRECT"
    PROVE  Forms(AddClone(t, route, last), {}, {}, {})
<1> DEFINE clone == [route EXCEPT !.pattern = OtherForm(@)]
           added == AddRouteToCache(t, route)
<1>1. CASE route.dynamic \/ "GET" \notin route.methods \/ strategy = "STRICT"
  <2>1. AddClone(t, route, last) = added
    BY <1>1 DEF AddClone
  <2>2. Forms(added, {}, {}, {})
    BY <1>1, AddedPlain
  <2> QED
    BY <2>1, <2>2
<1>2. CASE ~route.dynamic /\ "GET" \in route.methods /\ strategy = "CLONE"
  <2>1. AddClone(t, route, last) = AddRouteToCache(added, clone)
    BY <1>2 DEF AddClone
  <2>2. clone \in Routes
    <3>1. OtherForm(route.pattern) \in Pattern
      BY OtherFormType DEF Routes, RouteOf
    <3> QED
      BY <3>1 DEF Routes, RouteOf
  <2> HIDE DEF clone
  <2>3. Forms(AddRouteToCache(added, clone), {}, {}, {})
    BY <1>2, <2>2, AddedCloned DEF clone
  <2> QED
    BY <2>1, <2>3
<1> QED
  BY <1>1, <1>2

LEMMA RedirectForms ==
    ASSUME NEW t, TablesSound(t), NEW route \in Routes, route.to = <<>>, NEW last \in Pattern,
           Forms(t, Pending(route, last), {last}, ToSet(route.hosts)),
           ~route.dynamic, "GET" \in route.methods, strategy = "REDIRECT"
    PROVE  /\ Forms(AddClone(t, route, last), Pending(route, last), {last}, ToSet(route.hosts))
           /\ route.pattern = last => Present(AddClone(t, route, last), last, ToSet(route.hosts))
<1> DEFINE redirect == [Redirected(route, last) EXCEPT !.pattern = OtherForm(route.pattern)]
           v == AddRouteToCache(AddRouteToCache(t, route), redirect)
<1>1. AddClone(t, route, last) = v
  BY DEF AddClone
<1>2. redirect \in Routes
  BY FormsType
<1> HIDE DEF redirect
<1>3. /\ Forms(v, Pending(route, last), {last}, ToSet(route.hosts))
      /\ route.pattern = last => Present(v, last, ToSet(route.hosts))
  BY <1>2, AddedRedirected DEF redirect
<1> HIDE DEF v
<1> QED
  BY <1>1, <1>3

(* What redirects may lead to before it is there. *)
LEMMA FormsExpect ==
    ASSUME NEW t, Forms(t, {}, {}, {}), NEW A, NEW B, NEW claimed
    PROVE  Forms(t, A, B, claimed)
<1>1. StaticForms(t.routes, A)
  BY DEF Forms, StaticForms, Entry
<1>2. ASSUME NEW list, NEW C, ListForms(list, {})
      PROVE  ListForms(list, C)
  BY <1>2 DEF ListForms, Formed, Redirects
<1>3. \A host : Ahead({}, host, {}) = {}
  BY DEF Ahead
<1>4. HostForms(t.hosts, B, claimed)
  BY <1>2, <1>3 DEF Forms, HostForms
<1> QED
  BY <1>1, <1>4 DEF Forms

(* Once the route of the last prefix is there, nothing is to come. *)
LEMMA FormsMet ==
    ASSUME NEW t, NEW route \in Routes, NEW last,
           Forms(t, Pending(route, last), {last}, ToSet(route.hosts)),
           Present(t, last, ToSet(route.hosts))
    PROVE  Forms(t, {}, {}, {})
<1> DEFINE own == ToSet(route.hosts)
           A == Pending(route, last)
<1>1. route.hosts = <<>> => own = {}
  BY DEF ToSet
<1>2. A # {} => own = {} /\ A = {last}
  BY <1>1 DEF Pending
<1>0. /\ StaticForms(t.routes, A) /\ HostForms(t.hosts, {last}, own) /\ Present(t, last, own)
      /\ HostTable(t.hosts) /\ \A i \in 1 .. Len(t.dynamic_routes) : t.dynamic_routes[i].to = <<>>
  BY DEF Forms
<1> HIDE DEF own, A
<1>3. StaticForms(t.routes, {})
  <2>1. \A v \in A : <<"GET", v>> \in DOMAIN t.routes
    BY <1>0, <1>2 DEF Present
  <2> QED
    BY <1>0, <2>1 DEF StaticForms, Entry
<1>4. ASSUME NEW i \in 1 .. Len(t.hosts)
      PROVE  ListForms(t.hosts[i].routes, Ahead({}, t.hosts[i].host, {}))
  <2> DEFINE list == t.hosts[i].routes
  <2>1. ListForms(list, Ahead({last}, t.hosts[i].host, own))
    BY <1>0 DEF HostForms
  <2>2. Ahead({}, t.hosts[i].host, {}) = {}
    BY DEF Ahead
  <2>3. \A v \in Ahead({last}, t.hosts[i].host, own) : \E p \in 1 .. Len(list) : Static(list[p], v)
    BY <1>0 DEF Present, Ahead
  <2> HIDE DEF list
  <2>4. ListForms(list, {})
    BY <2>1, <2>3 DEF ListForms, Formed, Redirects
  <2> QED
    BY <2>2, <2>4 DEF list
<1>5. HostForms(t.hosts, {}, {})
  BY <1>4 DEF HostForms
<1> QED
  BY <1>0, <1>3, <1>5 DEF Forms

LEMMA AddPrefixesForms ==
    ASSUME NEW t, TablesSound(t), Forms(t, {}, {}, {}),
           strategy \in {"STRICT", "REDIRECT", "CLONE"},
           NEW route \in Declared, NEW prefixes \in PrefixLists
    PROVE  Forms(AddPrefixes(t, route, prefixes), {}, {}, {})
<1> DEFINE N == Len(prefixes)
           last == Under(route, Last(prefixes))
           clone(n) == Clone(route, prefixes[n])
<1>1. prefixes \in Seq(Path) /\ N \in Nat
  BY PrefixesAssumption
<1>0. PICK f : PrefixSteps(f, t, route, prefixes)
  BY AddPrefixesSteps
<1>2. /\ f[0] = t /\ AddPrefixes(t, route, prefixes) = f[N]
      /\ \A n \in 1 .. N : f[n] = AddClone(f[n - 1], clone(n), last)
  BY <1>0 DEF PrefixSteps
<1>3. ASSUME NEW n \in 1 .. N
      PROVE  /\ clone(n) \in Routes /\ last \in Pattern /\ clone(n).to = <<>>
             /\ clone(n).dynamic = route.dynamic /\ clone(n).hosts = route.hosts
             /\ clone(n).methods = route.methods
             /\ n = N => clone(n).pattern = last
  <2>1. N \in 1 .. N /\ Last(prefixes) = prefixes[N]
    BY <1>1 DEF Last
  <2>2. prefixes[n] \in Path /\ prefixes[N] \in Path
    BY <1>1, <2>1
  <2> QED
    BY <2>1, <2>2, CloneType
<1> HIDE DEF clone, last
<1>4. CASE route.dynamic \/ "GET" \notin route.methods \/ strategy # "REDIRECT"
  <2> DEFINE T == {n \in 0 .. N : TablesSound(f[n]) /\ Forms(f[n], {}, {}, {})}
  <2>1. 0 \in T
    BY <1>1, <1>2
  <2>2. ASSUME NEW n \in 1 .. N, n - 1 \in T
        PROVE  n \in T
    <3>1. n \in 0 .. N
      BY <1>1
    <3>2. TablesSound(f[n])
      BY <1>2, <1>3, <2>2, AddCloneSound
    <3>3. Forms(f[n], {}, {}, {})
      <4> DEFINE u == f[n - 1]
      <4>1. TablesSound(u) /\ Forms(u, {}, {}, {}) /\ f[n] = AddClone(u, clone(n), last)
        BY <1>2, <2>2
      <4> HIDE DEF u
      <4>2. /\ clone(n) \in Routes /\ clone(n).to = <<>>
            /\ clone(n).dynamic \/ "GET" \notin clone(n).methods \/ strategy # "REDIRECT"
        BY <1>3, <1>4
      <4>3. Forms(AddClone(u, clone(n), last), {}, {}, {})
        BY <4>1, <4>2, CloneForms
      <4> QED
        BY <4>1, <4>3
    <3> QED
      BY <3>1, <3>2, <3>3
  <2>3. N \in T
    <3> HIDE DEF T, N
    <3>1. \A n \in 0 .. N : n \in T
      BY <1>1, <2>1, <2>2, UpTo
    <3> QED
      BY <1>1, <3>1
  <2> QED
    BY <1>2, <2>3
<1>5. CASE ~route.dynamic /\ "GET" \in route.methods /\ strategy = "REDIRECT"
  <2> DEFINE A == Pending(route, last)
             own == ToSet(route.hosts)
             Good(u) == TablesSound(u) /\ Forms(u, A, {last}, own)
             T == {n \in 0 .. N : Good(f[n]) /\ (n = N /\ N # 0 => Present(f[n], last, own))}
  <2>1. 0 \in T
    <3>1. 0 \in 0 .. N /\ ~(0 = N /\ N # 0)
      BY <1>1
    <3>2. Good(t)
      BY FormsExpect
    <3> HIDE DEF Good
    <3> QED
      BY <1>2, <3>1, <3>2
  <2>2. ASSUME NEW n \in 1 .. N, n - 1 \in T
        PROVE  n \in T
    <3> DEFINE u == f[n - 1]
    <3>1. n \in 0 .. N
      BY <1>1
    <3>2. TablesSound(u) /\ Forms(u, A, {last}, own) /\ f[n] = AddClone(u, clone(n), last)
      BY <1>2, <2>2
    <3> HIDE DEF u
    <3>3. /\ clone(n) \in Routes /\ clone(n).to = <<>> /\ last \in Pattern
          /\ ~clone(n).dynamic /\ "GET" \in clone(n).methods
          /\ A = Pending(clone(n), last) /\ own = ToSet(clone(n).hosts)
          /\ n = N => clone(n).pattern = last
      BY <1>3, <1>5 DEF Pending
    <3> HIDE DEF A, own
    <3>4. TablesSound(f[n])
      BY <3>2, <3>3, AddCloneSound
    <3>5. /\ Forms(AddClone(u, clone(n), last), A, {last}, own)
          /\ clone(n).pattern = last => Present(AddClone(u, clone(n), last), last, own)
      BY <1>5, <3>2, <3>3, RedirectForms
    <3> QED
      BY <3>1, <3>2, <3>3, <3>4, <3>5
  <2>3. N \in T
    <3> HIDE DEF T, N
    <3>1. \A n \in 0 .. N : n \in T
      BY <1>1, <2>1, <2>2, UpTo
    <3> QED
      BY <1>1, <3>1
  <2>4. CASE N = 0
    BY <1>2, <2>4
  <2>5. CASE N # 0
    <3>1. Forms(f[N], A, {last}, own) /\ Present(f[N], last, own)
      BY <2>3, <2>5
    <3>2. N \in 1 .. N
      BY <1>1, <2>5
    <3>3. clone(N) \in Routes /\ A = Pending(clone(N), last) /\ own = ToSet(clone(N).hosts)
      BY <1>3, <3>2 DEF Pending
    <3> HIDE DEF A, own
    <3>4. Forms(f[N], {}, {}, {})
      BY <3>1, <3>3, FormsMet
    <3> QED
      BY <1>2, <3>4
  <2> QED
    BY <2>4, <2>5
<1> QED
  BY <1>4, <1>5

-----------------------------------------------------------------------------
(* Lookups of the two forms. *)

(* Where the redirect of a virtual host leads. *)
LEMMA ListLands ==
    ASSUME NEW list \in Seq(Routes), ListForms(list, {}), NEW m, NEW u \in Pattern,
           FirstMatch(list, m, u) # 0, list[FirstMatch(list, m, u)].to # <<>>
    PROVE  \E v : LET j == FirstMatch(list, m, v) IN
                  /\ list[FirstMatch(list, m, u)].to = <<v>>
                  /\ j # 0 /\ (v = OtherForm(u) => list[j].to = <<>>)
<1> DEFINE i == FirstMatch(list, m, u)
<1>1. /\ i \in 1 .. Len(list) /\ Hits(list[i], m, u)
      /\ \A k \in 1 .. Len(list) : Hits(list[k], m, u) => i <= k
  BY FirstMatchProperties
<1> HIDE DEF i
<1>2. Redirects(list, {}, i)
  BY <1>1 DEF ListForms, Formed, i
<1>3. list[i].pattern = u /\ m = "GET"
  BY <1>1, <1>2 DEF Redirects, Hits, Serves
<1>4. \A k \in 1 .. Len(list) : \A w : Static(list[k], w) => Hits(list[k], m, w)
  BY <1>3 DEF Static, Hits, Serves
<1>5. PICK v : list[i].to = <<v>> /\ \E p \in 1 .. Len(list) : Static(list[p], v)
  BY <1>2 DEF Redirects
<1> DEFINE j == FirstMatch(list, m, v)
<1>6. j \in 0 .. Len(list) /\ j # 0
  BY <1>4, <1>5, FirstMatchProperties
<1>7. /\ j \in 1 .. Len(list) /\ Hits(list[j], m, v)
      /\ \A k \in 1 .. Len(list) : Hits(list[k], m, v) => j <= k
  BY <1>6, FirstMatchProperties
<1> HIDE DEF j
<1>8. ASSUME v = OtherForm(u), list[j].to # <<>>
      PROVE  FALSE
  <2>1. PICK p \in 1 .. Len(list) : p < i /\ Static(list[p], OtherForm(u))
    BY <1>2, <1>3 DEF Redirects
  <2>2. Redirects(list, {}, j)
    BY <1>7, <1>8 DEF ListForms, Formed
  <2>3. list[j].pattern = v
    BY <1>7, <2>2 DEF Redirects, Hits, Serves
  <2>4. PICK q \in 1 .. Len(list) : q < j /\ Static(list[q], OtherForm(v))
    BY <2>2, <2>3 DEF Redirects
  <2>5. OtherForm(v) = u
    BY <1>8, OtherTwice
  <2>6. j <= p
    BY <1>4, <1>7, <1>8, <2>1
  <2>7. i <= q
    BY <1>1, <1>4, <2>4, <2>5
  <2>8. i \in Int /\ j \in Int /\ p \in Int /\ q \in Int
    BY <1>1, <1>7
  <2> QED
    BY <2>1, <2>4, <2>6, <2>7, <2>8
<1> QED
  BY <1>5, <1>6, <1>8 DEF i, j

(* A GET of the other form under a virtual host. *)
LEMMA ListMeets ==
    ASSUME NEW list \in Seq(Routes), ListForms(list, {}), strategy = "CLONE",
           NEW m, NEW u \in Pattern, FirstMatch(list, m, u) # 0,
           ~list[FirstMatch(list, m, u)].dynamic,
           "GET" \in list[FirstMatch(list, m, u)].methods
    PROVE  LET j == FirstMatch(list, m, OtherForm(u)) IN
           /\ j # 0
           /\ m = "GET" => \/ list[j].name = list[FirstMatch(list, m, u)].name
                           \/ list[j].dynamic
<1> DEFINE i == FirstMatch(list, m, u)
           v == OtherForm(u)
           j == FirstMatch(list, m, v)
<1>1. /\ i \in 1 .. Len(list) /\ Hits(list[i], m, u)
      /\ \A k \in 1 .. Len(list) : Hits(list[k], m, u) => i <= k
  BY FirstMatchProperties
<1>0. ~list[i].dynamic /\ "GET" \in list[i].methods
  OBVIOUS
<1> SUFFICES j # 0 /\ (m = "GET" => list[j].name = list[i].name \/ list[j].dynamic)
  OBVIOUS
<1> HIDE DEF i, v
<1>2. Twin(list, i)
  BY <1>0, <1>1 DEF ListForms, Formed, Twofold
<1>3. list[i].pattern = u
  BY <1>0, <1>1 DEF Hits, Serves
<1>4. PICK a \in 1 .. Len(list) :
         /\ ~list[a].dynamic /\ list[a].pattern = v
         /\ list[a].methods = list[i].methods /\ list[a].name = list[i].name
         /\ \A q \in 1 .. Len(list) : i < q /\ q < a => list[q].name = list[i].name
  BY <1>2, <1>3 DEF Twin, v
<1>5. Hits(list[a], m, v)
  BY <1>1, <1>4 DEF Hits, Serves
<1>6. j \in 0 .. Len(list) /\ j # 0
  BY <1>5, FirstMatchProperties
<1>7. /\ j \in 1 .. Len(list) /\ Hits(list[j], m, v)
      /\ \A k \in 1 .. Len(list) : Hits(list[k], m, v) => j <= k
  BY <1>6, FirstMatchProperties
<1> HIDE DEF j
<1>8. ASSUME m = "GET", ~list[j].dynamic
      PROVE  list[j].name = list[i].name
  <2>1. list[j].pattern = v /\ "GET" \in list[j].methods
    BY <1>7, <1>8 DEF Hits, Serves
  <2>2. Twin(list, j)
    BY <1>7, <1>8, <2>1 DEF ListForms, Formed, Twofold
  <2>3. OtherForm(v) = u
    BY OtherTwice DEF v
  <2>4. PICK b \in 1 .. Len(list) :
           /\ ~list[b].dynamic /\ list[b].pattern = u
           /\ list[b].methods = list[j].methods /\ list[b].name = list[j].name
           /\ \A q \in 1 .. Len(list) : j < q /\ q < b => list[q].name = list[j].name
    BY <2>1, <2>2, <2>3 DEF Twin
  <2>5. Hits(list[b], m, u)
    BY <1>8, <2>1, <2>4 DEF Hits, Serves
  <2>6. j <= a /\ i <= b
    BY <1>1, <1>4, <1>5, <1>7, <2>4, <2>5
  <2>7. i \in Int /\ j \in Int /\ a \in Int /\ b \in Int
    BY <1>1, <1>7
  <2>8. CASE i < j /\ j < a
    BY <1>4, <1>7, <2>8
  <2>9. CASE j < i /\ i < b
    BY <1>1, <2>4, <2>9
  <2>10. CASE i = j \/ j = a \/ i = b
    BY <1>4, <2>4, <2>10
  <2>11. (i < j /\ j < a) \/ (j < i /\ i < b) \/ i = j \/ j = a \/ i = b
    BY <2>6, <2>7
  <2> QED
    BY <2>8, <2>9, <2>10, <2>11
<1> QED
  BY <1>6, <1>8

(* The lookups of one request with other URLs go the same way: to the      *)
(* tables without hosts, nowhere, or to the routes of one host.            *)
AtUrl(r, url) == [r EXCEPT !.url = url]

InList(list, method, url) ==
    LET i == FirstMatch(list, method, url) IN IF i = 0 THEN Raised ELSE Found(list[i])

LEMMA Ways ==
    ASSUME hosts \in Seq(HostEntry), NEW r \in Requests
    PROVE  \/ \A u : Resolve(AtUrl(r, u)) = FindRoute(r.method, u)
           \/ \A u : Resolve(AtUrl(r, u)) = Raised
           \/ \E f \in 1 .. Len(hosts) : \A u :
                 Resolve(AtUrl(r, u)) = InList(hosts[f].routes, r.method, u)
<1> DEFINE first == FirstHost(hosts, r.host)
<1>1. \A u : /\ AtUrl(r, u).method = r.method /\ AtUrl(r, u).host = r.host
             /\ AtUrl(r, u).url = u
  BY RequestsAssumption DEF AtUrl
<1>2. first \in 0 .. Len(hosts)
  BY FirstHostProperties
<1>3. CASE hosts = <<>>
  BY <1>1, <1>3 DEF Resolve
<1>4. CASE hosts # <<>> /\ r.host = NoHost
  BY <1>1, <1>4 DEF Resolve, FindRouteByHost
<1>5. CASE hosts # <<>> /\ r.host # NoHost /\ first = 0
  BY <1>1, <1>5 DEF Resolve, FindRouteByHost
<1>6. CASE hosts # <<>> /\ r.host # NoHost /\ first # 0
  <2>1. ASSUME NEW u
        PROVE  Resolve(AtUrl(r, u)) = InList(hosts[first].routes, r.method, u)
    <3>1. Resolve(AtUrl(r, u)) = FindRouteByHost(r.method, u, r.host)
      BY <1>1, <1>6 DEF Resolve
    <3> QED
      BY <1>6, <3>1 DEF FindRouteByHost, InList
  <2>2. first \in 1 .. Len(hosts)
    BY <1>2, <1>6
  <2> HIDE DEF first
  <2> QED
    BY <2>1, <2>2
<1> QED
  BY <1>3, <1>4, <1>5, <1>6

LEMMA AtOwnUrl ==
    ASSUME NEW r \in Requests
    PROVE  /\ AtUrl(r, r.url) = r /\ r.url \in Pattern /\ r.method \in Methods
           /\ \A u : AtUrl(r, u) = [r EXCEPT !.url = u]
<1>1. r \in [method : Methods, url : [path : Seq(Segments), slash : BOOLEAN],
             host : Hosts \cup {NoHost}]
  BY RequestsAssumption
<1>2. AtUrl(r, r.url) = r /\ r.method \in Methods
  BY <1>1 DEF AtUrl
<1>3. r.url \in [path : Seq(Segments), slash : BOOLEAN]
  BY <1>1
<1>4. r.url.path \in Path
  BY <1>3, SeqMonotonic DEF Path
<1>5. r.url \in Pattern
  BY <1>3, <1>4 DEF Pattern
<1> QED
  BY <1>2, <1>5 DEF AtUrl

(* A route that is found without hosts is that of the static table, or a   *)
(* dynamic one.                                                            *)
LEMMA Finds ==
    ASSUME TablesOK(Tables), Placed(Tables), Forms(Tables, {}, {}, {}),
           NEW m, NEW u, FindRoute(m, u).outcome = "route"
    PROVE  \/ <<m, u>> \in DOMAIN routes /\ FindRoute(m, u) = Found(routes[<<m, u>>])
           \/ FindRoute(m, u).route.dynamic /\ FindRoute(m, u).route.to = <<>>
<1> DEFINE i == FirstMatch(dynamic_routes, m, u)
<1>1. /\ Tables.routes = routes /\ Tables.dynamic_routes = dynamic_routes
  BY DEF Tables
<1>2. dynamic_routes \in Seq(Routes)
  BY <1>1 DEF TablesOK
<1>3. i \in 0 .. Len(dynamic_routes)
  BY <1>2, FirstMatchProperties
<1>4. CASE <<m, u>> \in DOMAIN routes
  BY <1>4 DEF FindRoute
<1>5. CASE <<m, u>> \notin DOMAIN routes /\ i # 0
  <2>1. FindRoute(m, u).route = dynamic_routes[i]
    BY <1>5 DEF FindRoute, Found
  <2> HIDE DEF i
  <2>2. i \in 1 .. Len(dynamic_routes) /\ i \in DOMAIN dynamic_routes
    BY <1>2, <1>3, <1>5
  <2>3. dynamic_routes[i].dynamic /\ dynamic_routes[i].to = <<>>
    BY <1>1, <2>2 DEF Placed, Forms
  <2> QED
    BY <2>1, <2>3
<1>6. CASE <<m, u>> \notin DOMAIN routes /\ i = 0
  BY <1>6 DEF FindRoute, NotFound, MethodNotAllowed
<1> QED
  BY <1>4, <1>5, <1>6

LEMMA TableLands ==
    ASSUME TablesOK(Tables), Placed(Tables), Forms(Tables, {}, {}, {}),
           NEW m \in Methods, NEW u \in Pattern,
           FindRoute(m, u).outcome = "route", FindRoute(m, u).route.to # <<>>
    PROVE  \E v : /\ FindRoute(m, u).route.to = <<v>>
                  /\ FindRoute(m, v).outcome = "route"
                  /\ u.path # <<>> /\ v = OtherForm(u) => FindRoute(m, v).route.to = <<>>
<1>1. <<m, u>> \in DOMAIN routes /\ FindRoute(m, u).route = routes[<<m, u>>]
  BY Finds DEF Found
<1>2. Entry(routes, {}, m, u)
  BY <1>1 DEF Forms, StaticForms, Tables
<1>3. m = "GET"
  BY <1>1, <1>2 DEF Entry
<1>4. PICK v : routes[<<m, u>>].to = <<v>> /\ <<"GET", v>> \in DOMAIN routes
  BY <1>1, <1>2 DEF Entry
<1>5. FindRoute(m, v).outcome = "route" /\ FindRoute(m, v).route = routes[<<"GET", v>>]
  BY <1>3, <1>4 DEF FindRoute, Found
<1>6. u.path # <<>> /\ v = OtherForm(u) => routes[<<"GET", v>>].to = <<>>
  BY <1>1, <1>2 DEF Entry
<1> QED
  BY <1>1, <1>4, <1>5, <1>6

LEMMA TableMeets ==
    ASSUME TablesOK(Tables), Placed(Tables), Forms(Tables, {}, {}, {}), strategy = "CLONE",
           NEW m \in Methods, NEW u \in Pattern,
           FindRoute(m, u).outcome = "route", ~FindRoute(m, u).route.dynamic,
           "GET" \in FindRoute(m, u).route.methods
    PROVE  /\ FindRoute(m, OtherForm(u)).outcome = "route"
           /\ m = "GET" => FindRoute(m, OtherForm(u)).route.name = FindRoute(m, u).route.name
<1>1. <<m, u>> \in DOMAIN routes /\ FindRoute(m, u).route = routes[<<m, u>>]
  BY Finds DEF Found
<1>2. Entry(routes, {}, m, u)
  BY <1>1 DEF Forms, StaticForms, Tables
<1> DEFINE v == OtherForm(u)
<1>3. /\ <<m, v>> \in DOMAIN routes
      /\ m = "GET" => routes[<<m, v>>].name = routes[<<m, u>>].name
  BY <1>1, <1>2 DEF Entry
<1> HIDE DEF v
<1>4. FindRoute(m, v).outcome = "route" /\ FindRoute(m, v).route = routes[<<m, v>>]
  BY <1>3 DEF FindRoute, Found
<1> QED
  BY <1>1, <1>3, <1>4 DEF v

LEMMA HostRoutes ==
    ASSUME TablesOK(Tables), Placed(Tables), Forms(Tables, {}, {}, {}),
           NEW f \in 1 .. Len(hosts)
    PROVE  /\ hosts[f].routes \in Seq(Routes) /\ ListForms(hosts[f].routes, {})
           /\ \A j \in 1 .. Len(hosts[f].routes) : hosts[f].routes[j].hosts # <<>>
<1>1. Tables.hosts = hosts
  BY DEF Tables
<1>2. hosts \in Seq(HostEntry) /\ f \in DOMAIN hosts
  BY <1>1 DEF TablesOK, HostEntry
<1>3. hosts[f] \in HostEntry
  BY <1>2
<1>4. hosts[f].routes \in Seq(Routes)
  BY <1>3 DEF HostEntry
<1>5. ListForms(hosts[f].routes, {})
  BY <1>1 DEF Forms, HostForms, Ahead
<1>6. ASSUME NEW j \in 1 .. Len(hosts[f].routes)
      PROVE  hosts[f].routes[j].hosts # <<>>
  <2>1. j \in DOMAIN hosts[f].routes
    BY <1>4
  <2>2. hosts[f].host \in ToSet(hosts[f].routes[j].hosts)
    BY <1>1, <1>2, <2>1 DEF Placed
  <2>3. ToSet(<<>>) = {}
    BY DEF ToSet
  <2> QED
    BY <2>2, <2>3
<1> QED
  BY <1>4, <1>5, <1>6

LEMMA FormsLand ==
    ASSUME TablesOK(Tables), Placed(Tables), Forms(Tables, {}, {}, {})
    PROVE  Landed
<1> SUFFICES ASSUME NEW r \in Requests,
                    Resolve(r).outcome = "route", Resolve(r).route.to # <<>>
             PROVE  \E v : /\ Resolve(r).route.to = <<v>>
                           /\ Resolve(AtUrl(r, v)).outcome = "route"
                           /\ r.url.path # <<>> /\ v = OtherForm(r.url)
                                 => Resolve(AtUrl(r, v)).route.to = <<>>
  <2>1. \A v : <<v>>[1] = v
    OBVIOUS
  <2> QED
    BY <2>1, AtOwnUrl DEF Landed
<1>1. AtUrl(r, r.url) = r /\ r.url \in Pattern /\ r.method \in Methods
  BY AtOwnUrl
<1>2. hosts \in Seq(HostEntry)
  BY DEF TablesOK, Tables, HostEntry
<1>3. CASE \A u : Resolve(AtUrl(r, u)) = FindRoute(r.method, u)
  <2>1. Resolve(r) = FindRoute(r.method, r.url)
    BY <1>1, <1>3
  <2>2. PICK v : /\ FindRoute(r.method, r.url).route.to = <<v>>
                 /\ FindRoute(r.method, v).outcome = "route"
                 /\ r.url.path # <<>> /\ v = OtherForm(r.url) => FindRoute(r.method, v).route.to = <<>>
    BY <1>1, <2>1, TableLands
  <2>3. Resolve(AtUrl(r, v)) = FindRoute(r.method, v)
    BY <1>3
  <2> QED
    BY <2>1, <2>2, <2>3
<1>4. CASE \A u : Resolve(AtUrl(r, u)) = Raised
  <2>1. Resolve(r) = Raised
    BY <1>1, <1>4
  <2> QED
    BY <2>1 DEF Raised
<1>5. CASE \E f \in 1 .. Len(hosts) : \A u :
              Resolve(AtUrl(r, u)) = InList(hosts[f].routes, r.method, u)
  <2>1. PICK f \in 1 .. Len(hosts) : \A u :
              Resolve(AtUrl(r, u)) = InList(hosts[f].routes, r.method, u)
    BY <1>5
  <2> DEFINE list == hosts[f].routes
  <2>2. list \in Seq(Routes) /\ ListForms(list, {})
    BY HostRoutes
  <2>3. Resolve(r) = InList(list, r.method, r.url)
    BY <1>1, <2>1
  <2>4. ASSUME NEW u
        PROVE  Resolve(AtUrl(r, u)) = InList(list, r.method, u)
    BY <2>1
  <2> HIDE DEF list
  <2>5. FirstMatch(list, r.method, r.url) # 0
    BY <2>3 DEF InList, Raised
  <2>6. Resolve(r).route = list[FirstMatch(list, r.method, r.url)]
    BY <2>3, <2>5 DEF InList, Found
  <2>7. PICK v : LET j == FirstMatch(list, r.method, v) IN
                 /\ list[FirstMatch(list, r.method, r.url)].to = <<v>>
                 /\ j # 0 /\ (v = OtherForm(r.url) => list[j].to = <<>>)
    BY <1>1, <2>2, <2>5, <2>6, ListLands
  <2>8. Resolve(AtUrl(r, v)) = Found(list[FirstMatch(list, r.method, v)])
    BY <2>4, <2>7 DEF InList
  <2> QED
    BY <2>6, <2>7, <2>8 DEF Found
<1> QED
  BY <1>2, <1>3, <1>4, <1>5, Ways

LEMMA FormsAlike ==
    ASSUME TablesOK(Tables), Placed(Tables), Forms(Tables, {}, {}, {})
    PROVE  SameForms
<1> SUFFICES ASSUME strategy = "CLONE", NEW r \in Requests,
                    Resolve(r).outcome = "route", ~Resolve(r).route.dynamic,
                    "GET" \in Resolve(r).route.methods
             PROVE  LET other == Resolve(AtUrl(r, OtherForm(r.url))) IN
                    /\ other.outcome = "route"
                    /\ r.method = "GET" => \/ other.route.name = Resolve(r).route.name
                                           \/ other.route.dynamic /\ other.route.hosts # <<>>
  BY DEF SameForms, AtUrl
<1> DEFINE o == OtherForm(r.url)
<1>1. AtUrl(r, r.url) = r /\ r.url \in Pattern /\ r.method \in Methods
  BY AtOwnUrl
<1>2. hosts \in Seq(HostEntry)
  BY DEF TablesOK, Tables, HostEntry
<1>3. CASE \A u : Resolve(AtUrl(r, u)) = FindRoute(r.method, u)
  <2>1. Resolve(r) = FindRoute(r.method, r.url) /\ Resolve(AtUrl(r, o)) = FindRoute(r.method, o)
    BY <1>1, <1>3
  <2>2. /\ FindRoute(r.method, o).outcome = "route"
        /\ r.method = "GET" => FindRoute(r.method, o).route.name = FindRoute(r.method, r.url).route.name
    BY <1>1, <2>1, TableMeets
  <2> QED
    BY <2>1, <2>2
<1>4. CASE \A u : Resolve(AtUrl(r, u)) = Raised
  <2>1. Resolve(r) = Raised
    BY <1>1, <1>4
  <2> QED
    BY <2>1 DEF Raised
<1>5. CASE \E f \in 1 .. Len(hosts) : \A u :
              Resolve(AtUrl(r, u)) = InList(hosts[f].routes, r.method, u)
  <2>1. PICK f \in 1 .. Len(hosts) : \A u :
              Resolve(AtUrl(r, u)) = InList(hosts[f].routes, r.method, u)
    BY <1>5
  <2> DEFINE list == hosts[f].routes
             j == FirstMatch(list, r.method, o)
  <2>2. /\ list \in Seq(Routes) /\ ListForms(list, {})
        /\ \A k \in 1 .. Len(list) : list[k].hosts # <<>>
    BY HostRoutes
  <2>3. /\ Resolve(r) = InList(list, r.method, r.url)
        /\ Resolve(AtUrl(r, o)) = InList(list, r.method, o)
    BY <1>1, <2>1
  <2> HIDE DEF list
  <2>4. FirstMatch(list, r.method, r.url) # 0
    BY <2>3 DEF InList, Raised
  <2>5. Resolve(r).route = list[FirstMatch(list, r.method, r.url)]
    BY <2>3, <2>4 DEF InList, Found
  <2>6. /\ j # 0
        /\ r.method = "GET" => \/ list[j].name = list[FirstMatch(list, r.method, r.url)].name
                               \/ list[j].dynamic
    BY <1>1, <2>2, <2>4, <2>5, ListMeets
  <2>7. j \in 1 .. Len(list)
    <3>1. j \in 0 .. Len(list)
      BY <2>2, FirstMatchProperties
    <3> QED
      BY <2>6, <3>1
  <2>8. Resolve(AtUrl(r, o)) = Found(list[j])
    BY <2>3, <2>6 DEF InList
  <2>9. Resolve(AtUrl(r, o)).outcome = "route" /\ Resolve(AtUrl(r, o)).route = list[j]
    BY <2>8 DEF Found
  <2>10. list[j].hosts # <<>>
    BY <2>2, <2>7
  <2> HIDE DEF j
  <2> QED
    BY <2>5, <2>6, <2>9, <2>10
<1> QED
  BY <1>2, <1>3, <1>4, <1>5, Ways

-----------------------------------------------------------------------------
(* The invariant of the two forms. *)

BothForms == Forms(Tables, {}, {}, {})

LEMMA InitForms == Init => BothForms
<1> SUFFICES ASSUME Init PROVE BothForms
  OBVIOUS
<1>1. /\ Tables.routes = <<>> /\ Tables.dynamic_routes = <<>> /\ Tables.hosts = <<>>
  BY DEF Init, Tables
<1>2. DOMAIN <<>> = {} /\ Len(<<>>) = 0 /\ 1 .. 0 = {}
  OBVIOUS
<1>3. <<>> \in Seq(HostEntry)
  BY EmptySeq
<1> HIDE DEF Tables
<1>4. StaticForms(Tables.routes, {})
  BY <1>1, <1>2 DEF StaticForms
<1>5. HostTable(Tables.hosts) /\ HostForms(Tables.hosts, {}, {})
  BY <1>1, <1>2, <1>3 DEF HostTable, HostsPlaced, HostForms
<1> QED
  BY <1>1, <1>2, <1>4, <1>5 DEF BothForms, Forms

LEMMA FormsStay ==
    ASSUME strategy' = strategy, NEW t, Forms(t, {}, {}, {}), Tables' = t
    PROVE  BothForms'
<1> DEFINE static == t.routes
           table == t.hosts
<1>0. /\ StaticForms(static, {}) /\ HostTable(table) /\ HostForms(table, {}, {})
      /\ \A i \in 1 .. Len(t.dynamic_routes) : t.dynamic_routes[i].to = <<>>
  BY DEF Forms
<1> HIDE DEF static, table
<1>1. StaticForms(static, {})'
  BY <1>0 DEF StaticForms, Entry
<1>2. \A list : ListForms(list, {}) => ListForms(list, {})'
  BY DEF ListForms, Formed, Redirects, Twin, Twofold
<1>3. HostForms(table, {}, {})'
  BY <1>0, <1>2 DEF HostForms, Ahead
<1>4. HostTable(table)'
  BY <1>0
<1>5. Forms(t, {}, {}, {})'
  BY <1>0, <1>1, <1>3, <1>4 DEF Forms, static, table
<1> HIDE DEF Tables
<1> QED
  BY <1>5 DEF BothForms

LEMMA AddRouteForms ==
    ASSUME IInv, BothForms, NEW route \in Declared, NEW prefixes \in PrefixLists,
           AddRoute(route, prefixes)
    PROVE  BothForms'
<1> DEFINE t == AddPrefixes(Tables, route, prefixes)
<1>1. TablesSound(Tables) /\ strategy \in {"STRICT", "REDIRECT", "CLONE"}
  BY DEF IInv, TypeOK, TablesSound, Tables
<1>2. TablesSound(t)
  BY <1>1, AddPrefixesSound
<1>3. Forms(t, {}, {}, {})
  BY <1>1, AddPrefixesForms DEF BothForms
<1>4. /\ routes' = t.routes /\ dynamic_routes' = t.dynamic_routes
      /\ hosts' = t.hosts /\ reverse_index' = t.reverse_index /\ strategy' = strategy
  BY DEF AddRoute
<1> HIDE DEF t
<1>5. Tables' = t
  BY <1>2, <1>4 DEF Tables, TablesSound
<1> QED
  BY <1>3, <1>4, <1>5, FormsStay

LEMMA StepForms == IInv /\ BothForms /\ [Next]_vars => BothForms'
<1> SUFFICES ASSUME IInv, BothForms, [Next]_vars PROVE BothForms'
  OBVIOUS
<1>1. ASSUME NEW route \in Declared, NEW prefixes \in PrefixLists, AddRoute(route, prefixes)
      PROVE  BothForms'
  BY <1>1, AddRouteForms
<1>2. ASSUME strategy' = strategy, tables' = tables
      PROVE  BothForms'
  <2>1. Tables' = Tables
    BY <1>2 DEF Tables, tables
  <2> QED
    BY <1>2, <2>1, FormsStay DEF BothForms
<1>3. ASSUME NEW r \in Requests, GetRoute(r)
      PROVE  BothForms'
  BY <1>2, <1>3 DEF GetRoute
<1>4. CASE UNCHANGED vars
  BY <1>2, <1>4 DEF vars
<1> QED
  BY <1>1, <1>3, <1>4 DEF Next

(* Whatever routes are declared, in whichever order and under whichever    *)
(* prefixes and hosts, a redirect leads to a route, which is no redirect   *)
(* back, and under CLONE both forms of a URL get the same route, but for   *)
(* the exceptions that the properties name (add_route, router.py:71-109).  *)
THEOREM FormsMeet == Spec => []SlashForms
<1>1. Init => BothForms
  BY InitForms
<1>2. IInv /\ BothForms /\ [Next]_vars => BothForms'
  BY StepForms
<1>3. IInv /\ BothForms => SlashForms
  BY FormsLand, FormsAlike DEF IInv, TypeOK, BothForms, SlashForms
<1> QED
  BY <1>1, <1>2, <1>3, Invariance, PTL DEF Spec
=============================================================================
