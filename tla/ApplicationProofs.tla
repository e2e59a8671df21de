-------------------------- MODULE ApplicationProofs --------------------------
(* Whatever is declared and in whatever order blueprints are added, no hook *)
(* is lost or doubled, hooks run before the endpoints in their scope, a     *)
(* session engine flushes the session of every request, and the router has  *)
(* every route that the application reaches and no other; an exception is   *)
(* answered by the nearest handler.                                         *)
EXTENDS Application, FiniteSetTheorems, SequenceTheorems, WellFoundedInduction, TLAPS

(* What makes HooksKept, Guarded and SessionFlushed inductive. *)

AnyHook == (UNION {s.hooks : s \in Settings}) \cup {SessionStart, FlushSession}

(* Lists of hooks by kind and event, for some of the events. *)
IsTable(lists) ==
    /\ lists = [k \in Kinds |-> lists[k]]
    /\ \A k \in Kinds : \E E \in SUBSET Events : lists[k] \in [E -> Seq(AnyHook)]

(* Each is a hook of that kind and event. *)
IsFiled(lists, known) ==
    \A k \in Kinds : \A e \in DOMAIN lists[k] : \A i \in DOMAIN lists[k][e] :
        LET h == lists[k][e][i] IN Kind(h) = k /\ h.event = e /\ h \in known

Single(list, h) ==
    \E i \in DOMAIN list : list[i] = h /\ \A j \in DOMAIN list : list[j] = h => j = i

Absent(list, h) == \A i \in DOMAIN list : list[i] # h

Has(lists, h) ==
    h.event \in DOMAIN lists[Kind(h)] /\ Single(lists[Kind(h)][h.event], h)

Lacks(lists, h) ==
    h.event \in DOMAIN lists[Kind(h)] => Absent(lists[Kind(h)][h.event], h)

(* The types that the hooks and the tree of blueprints depend on. *)
Structure ==
    /\ setting \in Settings
    /\ parent \in [All -> All \cup {None}] /\ parent[App] = None
    /\ nested \in [All -> Seq(Blueprints \X PrefixSets)]
    /\ hooks = [b \in All |-> hooks[b]] /\ \A b \in All : IsTable(hooks[b])
    /\ declared \subseteq [at : All, hook : setting.hooks, late : BOOLEAN]

(* A hook that is held was declared, or is one of the server's; a hook is   *)
(* declared once.                                                           *)
Filed ==
    /\ \A b \in All :
          IsFiled(hooks[b], {SessionStart, FlushSession} \cup {d.hook : d \in declared})
    /\ \A d, o \in declared : d.hook = o.hook => d = o

(* HooksKept, list by list. *)
Once ==
    \A d \in declared, b \in All :
        IF b = Home(d) THEN Has(hooks[b], d.hook) ELSE Lacks(hooks[b], d.hook)

(* What the application has not taken over has all its events, and what was *)
(* declared before it was nested is not late.                               *)
Untouched ==
    /\ \A b \in All, k \in Kinds : parent[b] # App => DOMAIN hooks[b][k] = Events
    /\ \A d \in declared : d.late => parent[d.at] # None

(* The application knows the blueprints that were added to it, and the      *)
(* router only routes of blueprints.                                        *)
Known ==
    /\ routes = [b \in All |-> routes[b]]
    /\ \A b \in All : parent[b] = App <=> \E d \in Range(nested[App]) : d[1] = b
    /\ \A p \in table : \E b \in All : p[1] \in routes[b]

(* A connection has the flags of the hooks that it knows. *)
Accepted ==
    IF conn = None THEN ~last.returned
    ELSE /\ phase = "serving" /\ conn.known \subseteq declared
         /\ \A d \in conn.known :
               Home(d) = App \/ parent[Home(d)] = App => d.hook.event \in conn.flags
         /\ Contains(Held(App, "after"), FlushSession) => "after" \in conn.flags
         /\ last.returned => \E b \in All : last.route \in routes[b]

IInv == /\ Structure /\ Filed /\ Once /\ Untouched /\ Known /\ Accepted
        /\ Guarded /\ SessionFlushed

-----------------------------------------------------------------------------
(* A set of numbers that is not empty has a least element. *)
LEMMA Least ==
    ASSUME NEW T, T \subseteq Nat, T # {}
    PROVE  \E n \in T : \A m \in T : ~(m < n)
<1>1. \E x \in T : \A y \in T : ~(<<y, x>> \in OpToRel(<, Nat))
  BY WFMin, NatLessThanWellFounded
<1>2. \A m, n \in Nat : m < n => <<m, n>> \in OpToRel(<, Nat)
  BY DEF OpToRel
<1> QED
  BY <1>1, <1>2

(* Induction up to N, over a set instead of a predicate. *)
LEMMA UpTo ==
    ASSUME NEW N \in Nat, NEW T, 0 \in T,
           \A n \in 1 .. N : n - 1 \in T => n \in T
    PROVE  \A n \in 0 .. N : n \in T
<1> DEFINE Bad == {n \in 0 .. N : n \notin T}
<1> SUFFICES ASSUME Bad # {} PROVE FALSE
  OBVIOUS
<1>1. Bad \subseteq Nat
  OBVIOUS
<1>2. PICK n \in Bad : \A m \in Bad : ~(m < n)
  <2> HIDE DEF Bad
  <2> QED
    BY <1>1, Least
<1>3. n \in 1 .. N /\ n - 1 \in 0 .. N /\ n - 1 < n
  BY <1>2
<1>4. n - 1 \in T
  BY <1>2, <1>3
<1> QED
  BY <1>2, <1>3, <1>4

(* A start and steps from it, each from the one before. *)
Iterates(f, zero, step, N) == f[0] = zero /\ \A n \in 1 .. N : f[n] = step[f[n - 1]]

LEMMA Iterated ==
    ASSUME NEW N \in Nat, NEW S, NEW zero \in S, NEW step \in [S -> S]
    PROVE  \E f \in [0 .. N -> S] : Iterates(f, zero, step, N)
<1> USE DEF Iterates
<1> DEFINE Runs(f, k) == Iterates(f, zero, step, k)
           Exist == {k \in 0 .. N : \E f \in [0 .. k -> S] : Runs(f, k)}
<1>1. 0 \in Exist
  <2> DEFINE g == [n \in 0 .. 0 |-> zero]
  <2>1. g \in [0 .. 0 -> S] /\ g[0] = zero /\ 1 .. 0 = {}
    OBVIOUS
  <2>2. Runs(g, 0)
    BY <2>1
  <2> HIDE DEF g, Runs
  <2> QED
    BY <2>1, <2>2
<1>2. ASSUME NEW k \in 1 .. N, k - 1 \in Exist
      PROVE  k \in Exist
  <2> DEFINE m == k - 1
  <2>1. m \in Nat /\ k = m + 1 /\ k \in 0 .. N /\ m \in 0 .. m /\ 0 \in 0 .. m
    OBVIOUS
  <2>2. PICK f \in [0 .. m -> S] : Runs(f, m)
    <3> HIDE DEF Runs, m
    <3> QED
      BY <1>2 DEF m
  <2> HIDE DEF m
  <2> DEFINE g == [n \in 0 .. k |-> IF n = k THEN step[f[m]] ELSE f[n]]
  <2>3. \A n \in 0 .. k : n = k \/ n \in 0 .. m
    BY <2>1
  <2>4. step[f[m]] \in S
    BY <2>1
  <2>5. g \in [0 .. k -> S]
    BY <2>3, <2>4
  <2>6. \A n \in 0 .. m : n \in 0 .. k /\ n # k
    BY <2>1
  <2>7. (\A n \in 0 .. m : g[n] = f[n]) /\ g[k] = step[f[m]]
    BY <2>1, <2>6
  <2> HIDE DEF g
  <2>8. g[0] = zero
    BY <2>1, <2>2, <2>7
  <2>9. ASSUME NEW n \in 1 .. k
        PROVE  g[n] = step[g[n - 1]]
    <3>1. CASE n = k
      <4>1. n - 1 = m
        BY <2>1, <3>1
      <4> QED
        BY <2>1, <2>7, <3>1, <4>1
    <3>2. CASE n # k
      <4>1. n \in 1 .. m /\ n \in 0 .. m /\ n - 1 \in 0 .. m
        BY <2>1, <3>2
      <4> QED
        BY <2>2, <2>7, <4>1
    <3> QED
      BY <3>1, <3>2
  <2>10. Runs(g, k)
    BY <2>8, <2>9
  <2> HIDE DEF Runs
  <2> QED
    BY <2>1, <2>5, <2>10
<1>3. N \in Exist
  <2> HIDE DEF Exist
  <2>1. \A k \in 0 .. N : k \in Exist
    BY <1>1, <1>2, UpTo
  <2> QED
    BY <2>1
<1> QED
  BY <1>3

-----------------------------------------------------------------------------
(* Lists of hooks. *)

(* What Append does to the places of a hook. *)
LEMMA AppendCounts ==
    ASSUME NEW S, NEW list \in Seq(S), NEW h, NEW x \in S
    PROVE  /\ Append(list, x) \in Seq(S)
           /\ \A i \in DOMAIN Append(list, x) :
                 \/ Append(list, x)[i] = x
                 \/ i \in DOMAIN list /\ Append(list, x)[i] = list[i]
           /\ Absent(list, h) /\ x # h => Absent(Append(list, x), h)
           /\ Single(list, h) /\ x # h => Single(Append(list, x), h)
           /\ Absent(list, h) /\ x = h => Single(Append(list, x), h)
<1> DEFINE t == Append(list, x)
           n == Len(list)
<1>1. /\ t \in Seq(S) /\ Len(t) = n + 1
      /\ \A i \in 1 .. n : t[i] = list[i]
      /\ t[n + 1] = x
  BY AppendProperties
<1>2. DOMAIN t = 1 .. n + 1 /\ DOMAIN list = 1 .. n /\ n \in Nat
  BY <1>1, LenProperties
<1> HIDE DEF t, n
<1>3. /\ \A i \in DOMAIN t : i = n + 1 \/ (i \in DOMAIN list /\ t[i] = list[i])
      /\ \A i \in DOMAIN list : i \in DOMAIN t /\ i # n + 1 /\ t[i] = list[i]
      /\ n + 1 \in DOMAIN t /\ t[n + 1] = x
  BY <1>1, <1>2
<1> DEFINE last_ == n + 1
<1> HIDE DEF last_
<1>4. /\ \A i \in DOMAIN t : i = last_ \/ (i \in DOMAIN list /\ t[i] = list[i])
      /\ \A i \in DOMAIN list : i \in DOMAIN t /\ i # last_ /\ t[i] = list[i]
      /\ last_ \in DOMAIN t /\ t[last_] = x
  BY <1>3 DEF last_
<1>5. Absent(list, h) /\ x # h => Absent(t, h)
  BY <1>4, Zenon DEF Absent
<1>6. Single(list, h) /\ x # h => Single(t, h)
  BY <1>4, Zenon DEF Single
<1>7. ASSUME Absent(list, h), x = h
      PROVE  Single(t, h)
  <2>1. last_ \in DOMAIN t /\ t[last_] = h
    BY <1>4, <1>7
  <2>2. \A j \in DOMAIN t : t[j] = h => j = last_
    BY <1>4, <1>7 DEF Absent
  <2> QED
    BY <2>1, <2>2 DEF Single
<1>8. \A i \in DOMAIN t : t[i] = x \/ (i \in DOMAIN list /\ t[i] = list[i])
  BY <1>4, Zenon
<1> QED
  BY <1>1, <1>5, <1>6, <1>7, <1>8 DEF t

(* ... and what concatenation does. *)
LEMMA ConcatCounts ==
    ASSUME NEW S, NEW s \in Seq(S), NEW t \in Seq(S), NEW h
    PROVE  /\ s \o t \in Seq(S)
           /\ \A i \in DOMAIN (s \o t) :
                 \/ \E j \in DOMAIN s : (s \o t)[i] = s[j]
                 \/ \E j \in DOMAIN t : (s \o t)[i] = t[j]
           /\ Absent(s, h) /\ Absent(t, h) => Absent(s \o t, h)
           /\ Single(s, h) /\ Absent(t, h) => Single(s \o t, h)
           /\ Absent(s, h) /\ Single(t, h) => Single(s \o t, h)
<1> DEFINE u == s \o t
           m == Len(s)
           n == Len(t)
<1>1. /\ u \in Seq(S) /\ Len(u) = m + n
      /\ \A i \in 1 .. m + n : u[i] = IF i <= m THEN s[i] ELSE t[i - m]
  BY ConcatProperties
<1>2. DOMAIN u = 1 .. m + n /\ DOMAIN s = 1 .. m /\ DOMAIN t = 1 .. n /\ m \in Nat /\ n \in Nat
  BY <1>1, LenProperties
<1> HIDE DEF u, m, n
<1>3. \A i \in DOMAIN u :
         \/ i \in DOMAIN s /\ u[i] = s[i]
         \/ i - m \in DOMAIN t /\ u[i] = t[i - m] /\ i \notin DOMAIN s
  BY <1>1, <1>2
<1>4. \A i \in DOMAIN s : i \in DOMAIN u /\ u[i] = s[i]
  BY <1>1, <1>2
<1>5. \A j \in DOMAIN t : j + m \in DOMAIN u /\ u[j + m] = t[j] /\ j + m \notin DOMAIN s
  BY <1>1, <1>2
<1>6. \A i \in DOMAIN u :
         \/ \E j \in DOMAIN s : u[i] = s[j]
         \/ \E j \in DOMAIN t : u[i] = t[j]
  BY <1>3
<1>7. Absent(s, h) /\ Absent(t, h) => Absent(u, h)
  BY <1>3 DEF Absent
<1>8. ASSUME Single(s, h), Absent(t, h)
      PROVE  Single(u, h)
  <2>1. PICK i \in DOMAIN s : s[i] = h /\ \A j \in DOMAIN s : s[j] = h => j = i
    BY <1>8 DEF Single
  <2>2. i \in DOMAIN u /\ u[i] = h
    BY <1>4, <2>1
  <2>3. \A j \in DOMAIN u : u[j] = h => j = i
    BY <1>3, <1>8, <2>1 DEF Absent
  <2> QED
    BY <2>2, <2>3 DEF Single
<1>9. ASSUME Absent(s, h), Single(t, h)
      PROVE  Single(u, h)
  <2>1. PICK i \in DOMAIN t : t[i] = h /\ \A j \in DOMAIN t : t[j] = h => j = i
    BY <1>9 DEF Single
  <2>2. i + m \in DOMAIN u /\ u[i + m] = h
    BY <1>5, <2>1
  <2>3. ASSUME NEW j \in DOMAIN u, u[j] = h
        PROVE  j = i + m
    <3>1. j - m \in DOMAIN t /\ t[j - m] = h
      BY <1>3, <1>9, <2>3 DEF Absent
    <3>2. j - m = i
      BY <2>1, <3>1
    <3> QED
      BY <1>2, <2>3, <3>2
  <2> QED
    BY <2>2, <2>3 DEF Single
<1> QED
  BY <1>1, <1>6, <1>7, <1>8, <1>9 DEF u

(* The recursive function of Part exists. *)
LEMMA PartExists ==
    ASSUME NEW S, NEW list \in Seq(S), NEW local
    PROVE  \E f : /\ f[0] = <<>>
                  /\ \A n \in 1 .. Len(list) :
                        f[n] = IF Local(list[n]) <=> local THEN Append(f[n - 1], list[n]) ELSE f[n - 1]
                  /\ Part(list, local) = f[Len(list)]
<1> DEFINE N == Len(list)
           Turn(f, n) == IF n = 0 THEN <<>>
                         ELSE IF Local(list[n]) <=> local THEN Append(f[n - 1], list[n])
                         ELSE f[n - 1]
           Chain(f, k) == f = [n \in 0 .. k |-> Turn(f, n)]
           Exist == {k \in 0 .. N : \E f : Chain(f, k)}
           Taken == CHOOSE f : Chain(f, N)
<1>1. N \in Nat
  OBVIOUS
<1>2. 0 \in Exist
  <2> DEFINE g == [n \in 0 .. 0 |-> <<>>]
  <2>1. g = [n \in 0 .. 0 |-> Turn(g, n)]
    OBVIOUS
  <2>2. Chain(g, 0)
    BY <2>1
  <2> HIDE DEF g, Chain
  <2> QED
    BY <1>1, <2>2
<1>3. ASSUME NEW k \in 1 .. N, k - 1 \in Exist
      PROVE  k \in Exist
  <2>1. PICK f : Chain(f, k - 1)
    BY <1>3
  <2>2. k \in Nat /\ k # 0 /\ k \in 0 .. N
    BY <1>1
  <2> DEFINE g == [n \in 0 .. k |-> IF n = k THEN Turn(f, k) ELSE f[n]]
  <2>3. ASSUME NEW n \in 0 .. k
        PROVE  g[n] = Turn(g, n)
    <3>1. CASE n = k
      <4>1. k - 1 \in 0 .. k /\ k - 1 # k
        BY <2>2
      <4> QED
        BY <2>2, <3>1, <4>1
    <3>2. CASE n # k
      <4>1. n \in 0 .. k - 1 /\ (n # 0 => n - 1 \in 0 .. k /\ n - 1 # k)
        BY <2>2, <3>2
      <4>2. f[n] = Turn(f, n)
        BY <2>1, <4>1
      <4> QED
        BY <3>2, <4>1, <4>2
    <3> QED
      BY <3>1, <3>2
  <2>4. Chain(g, k)
    BY <2>3
  <2> HIDE DEF g, Chain
  <2> QED
    BY <2>2, <2>4
<1>4. N \in Exist
  <2> HIDE DEF Exist, N
  <2>1. \A k \in 0 .. N : k \in Exist
    BY <1>1, <1>2, <1>3, UpTo
  <2> QED
    BY <1>1, <2>1
<1>5. Chain(Taken, N)
  <2> HIDE DEF Chain
  <2> QED
    BY <1>4
<1>6. Part(list, local) = Taken[N]
  BY DEF Part
<1> HIDE DEF Taken
<1>7. Taken[0] = <<>>
  BY <1>1, <1>5
<1>8. ASSUME NEW n \in 1 .. N
      PROVE  Taken[n] = IF Local(list[n]) <=> local THEN Append(Taken[n - 1], list[n])
                        ELSE Taken[n - 1]
  <2>1. n \in 0 .. N /\ n # 0
    BY <1>1
  <2> QED
    BY <1>5, <2>1
<1> QED
  BY <1>6, <1>7, <1>8

(* A part of a list has the hooks of its kind, each as often as the list. *)
LEMMA PartCounts ==
    ASSUME NEW S, NEW list \in Seq(S), NEW local
    PROVE  /\ Part(list, local) \in Seq(S)
           /\ \A i \in DOMAIN Part(list, local) :
                 \E j \in DOMAIN list : /\ Part(list, local)[i] = list[j]
                                        /\ Local(list[j]) <=> local
           /\ \A h : Single(list, h) /\ (Local(h) <=> local) => Single(Part(list, local), h)
<1> DEFINE N == Len(list)
<1>1. PICK f : /\ f[0] = <<>>
               /\ \A n \in 1 .. N :
                     f[n] = IF Local(list[n]) <=> local THEN Append(f[n - 1], list[n]) ELSE f[n - 1]
               /\ Part(list, local) = f[N]
  BY PartExists
<1>2. N \in Nat /\ DOMAIN list = 1 .. N /\ \A n \in 1 .. N : list[n] \in S
  BY LenProperties, ElementOfSeq
<1> HIDE DEF N
<1>3. ASSUME NEW n \in 1 .. N
      PROVE  n \in 0 .. N /\ n \in DOMAIN list /\ n - 1 \in 0 .. N
  BY <1>2
<1>4. f[N] \in Seq(S) /\ \A i \in DOMAIN f[N] : \E j \in DOMAIN list : f[N][i] = list[j] /\ (Local(list[j]) <=> local)
  <2> DEFINE Fits(t) == /\ t \in Seq(S)
                        /\ \A i \in DOMAIN t : \E j \in DOMAIN list : t[i] = list[j] /\ (Local(list[j]) <=> local)
             T == {n \in 0 .. N : Fits(f[n])}
  <2>1. 0 \in T
    <3>1. Fits(<<>>)
      OBVIOUS
    <3> HIDE DEF Fits
    <3> QED
      BY <3>1, <1>1, <1>2
  <2>2. ASSUME NEW n \in 1 .. N, n - 1 \in T
        PROVE  n \in T
    <3>1. Fits(f[n - 1])
      BY <2>2
    <3>2. CASE Local(list[n]) <=> local
      <4>1. f[n] = Append(f[n - 1], list[n]) /\ list[n] \in S
        BY <1>1, <1>2, <3>2
      <4>2. /\ Append(f[n - 1], list[n]) \in Seq(S)
            /\ \A i \in DOMAIN Append(f[n - 1], list[n]) :
                  \/ Append(f[n - 1], list[n])[i] = list[n]
                  \/ i \in DOMAIN f[n - 1] /\ Append(f[n - 1], list[n])[i] = f[n - 1][i]
        BY <3>1, <4>1, AppendCounts
      <4>3. Fits(f[n])
        BY <1>3, <3>1, <3>2, <4>1, <4>2
      <4> HIDE DEF Fits
      <4> QED
        BY <1>3, <4>3
    <3>3. CASE ~(Local(list[n]) <=> local)
      <4>1. f[n] = f[n - 1]
        BY <1>1, <3>3
      <4> QED
        BY <1>3, <3>1, <4>1
    <3> QED
      BY <3>2, <3>3
  <2>3. N \in T
    <3> HIDE DEF T
    <3>1. \A n \in 0 .. N : n \in T
      BY <1>2, <2>1, <2>2, UpTo
    <3> QED
      BY <1>2, <3>1
  <2> QED
    BY <2>3
<1>5. ASSUME NEW h, Single(list, h), Local(h) <=> local
      PROVE  Single(f[N], h)
  <2>1. PICK p \in 1 .. N : list[p] = h /\ \A j \in 1 .. N : list[j] = h => j = p
    BY <1>2, <1>5 DEF Single
  <2> DEFINE T == {n \in 0 .. N : /\ f[n] \in Seq(S)
                                  /\ n < p => Absent(f[n], h)
                                  /\ ~(n < p) => Single(f[n], h)}
  <2>2. 0 \in T
    <3>1. f[0] \in Seq(S) /\ Absent(f[0], h)
      BY <1>1 DEF Absent
    <3>2. 0 < p /\ 0 \in 0 .. N
      BY <1>2
    <3> QED
      BY <3>1, <3>2
  <2>3. ASSUME NEW n \in 1 .. N, n - 1 \in T
        PROVE  n \in T
    <3>1. /\ f[n - 1] \in Seq(S)
          /\ n - 1 < p => Absent(f[n - 1], h)
          /\ ~(n - 1 < p) => Single(f[n - 1], h)
      BY <2>3
    <3>2. list[n] \in S /\ (list[n] = h <=> n = p)
      BY <1>2, <2>1
    <3>3. CASE n = p
      <4>1. n - 1 < p /\ ~(n < p)
        BY <1>2, <3>3
      <4>2. f[n] = Append(f[n - 1], list[n])
        BY <1>1, <1>5, <3>2, <3>3
      <4>3. f[n] \in Seq(S) /\ Single(f[n], h)
        BY <3>1, <3>2, <3>3, <4>1, <4>2, AppendCounts
      <4> QED
        BY <1>3, <4>1, <4>3
    <3>4. CASE n # p
      <4>1. n - 1 < p <=> n < p
        BY <1>2, <3>4
      <4>2. f[n] = Append(f[n - 1], list[n]) \/ f[n] = f[n - 1]
        BY <1>1
      <4>3. /\ f[n] \in Seq(S)
            /\ Absent(f[n - 1], h) => Absent(f[n], h)
            /\ Single(f[n - 1], h) => Single(f[n], h)
        <5> DEFINE t == f[n - 1]
                   x == list[n]
        <5>1. t \in Seq(S) /\ x \in S /\ x # h
          BY <3>1, <3>2, <3>4
        <5> HIDE DEF t, x
        <5>2. /\ Append(t, x) \in Seq(S)
              /\ Absent(t, h) => Absent(Append(t, x), h)
              /\ Single(t, h) => Single(Append(t, x), h)
          BY <5>1, AppendCounts
        <5>3. f[n] = Append(t, x) \/ f[n] = t
          BY <4>2 DEF t, x
        <5>4. /\ f[n] \in Seq(S)
              /\ Absent(t, h) => Absent(f[n], h)
              /\ Single(t, h) => Single(f[n], h)
          BY <5>1, <5>2, <5>3
        <5> QED
          BY <5>4 DEF t
      <4> QED
        BY <1>3, <3>1, <4>1, <4>3
    <3> QED
      BY <3>3, <3>4
  <2>4. N \in T
    <3> HIDE DEF T
    <3>1. \A n \in 0 .. N : n \in T
      BY <1>2, <2>2, <2>3, UpTo
    <3> QED
      BY <1>2, <3>1
  <2>5. ~(N < p)
    BY <1>2
  <2> QED
    BY <2>4, <2>5
<1> QED
  BY <1>1, <1>4, <1>5

-----------------------------------------------------------------------------
(* Tables of hooks. *)

LEMMA KindIsKind ==
    ASSUME NEW h
    PROVE  Kind(h) \in Kinds
BY DEF Kind, Kinds

(* The lists of a table. *)
LEMMA TableLists ==
    ASSUME NEW t, IsTable(t), NEW k \in Kinds
    PROVE  /\ DOMAIN t[k] \subseteq Events
           /\ t[k] \in [DOMAIN t[k] -> Seq(AnyHook)]
           /\ \A e \in DOMAIN t[k] : t[k][e] \in Seq(AnyHook)
<1>1. PICK E \in SUBSET Events : t[k] \in [E -> Seq(AnyHook)]
  BY DEF IsTable
<1> QED
  BY <1>1

LEMMA TableForm ==
    ASSUME NEW t, t = [k \in Kinds |-> t[k]],
           \A k \in Kinds : DOMAIN t[k] \subseteq Events /\ t[k] \in [DOMAIN t[k] -> Seq(AnyHook)]
    PROVE  IsTable(t)
BY DEF IsTable

(* What is held for an event is what is in its two lists. *)
LEMMA HeldMembers ==
    ASSUME NEW t, IsTable(t), NEW e
    PROVE  /\ HeldIn(t, e) \in Seq(AnyHook)
           /\ \A h : Contains(HeldIn(t, e), h) <=>
                 \E k \in Kinds : e \in DOMAIN t[k] /\ ~Absent(t[k][e], h)
<1> DEFINE of(k) == IF e \in DOMAIN t[k] THEN t[k][e] ELSE <<>>
<1>1. "sync" \in Kinds /\ "async" \in Kinds /\ \A k \in Kinds : k = "sync" \/ k = "async"
  BY DEF Kinds
<1>2. \A k \in Kinds : of(k) \in Seq(AnyHook)
  <2>1. <<>> \in Seq(AnyHook)
    OBVIOUS
  <2> QED
    BY <2>1, TableLists
<1>3. HeldIn(t, e) = of("sync") \o of("async")
  BY DEF HeldIn
<1>4. \A k \in Kinds : \A h : ~Absent(of(k), h) <=> e \in DOMAIN t[k] /\ ~Absent(t[k][e], h)
  BY DEF Absent
<1> HIDE DEF of
<1> DEFINE s == of("sync")
           a == of("async")
<1>5. s \in Seq(AnyHook) /\ a \in Seq(AnyHook)
  BY <1>1, <1>2
<1> HIDE DEF s, a
<1>6. /\ s \o a \in Seq(AnyHook) /\ Len(s \o a) = Len(s) + Len(a)
      /\ \A i \in 1 .. Len(s) + Len(a) : (s \o a)[i] = IF i <= Len(s) THEN s[i] ELSE a[i - Len(s)]
  BY <1>5, ConcatProperties
<1>7. /\ DOMAIN s = 1 .. Len(s) /\ DOMAIN a = 1 .. Len(a)
      /\ Len(s) \in Nat /\ Len(a) \in Nat
  BY <1>5, LenProperties
<1>8. ASSUME NEW h
      PROVE  Contains(s \o a, h) <=> ~Absent(s, h) \/ ~Absent(a, h)
  <2>1. ASSUME ~Absent(s, h)
        PROVE  Contains(s \o a, h)
    <3>1. PICK i \in 1 .. Len(s) : s[i] = h
      BY <1>7, <2>1 DEF Absent
    <3>2. i \in 1 .. Len(s) + Len(a) /\ (s \o a)[i] = h
      BY <1>6, <1>7, <3>1
    <3> QED
      BY <1>6, <3>2 DEF Contains
  <2>2. ASSUME ~Absent(a, h)
        PROVE  Contains(s \o a, h)
    <3>1. PICK i \in 1 .. Len(a) : a[i] = h
      BY <1>7, <2>2 DEF Absent
    <3>2. Len(s) + i \in 1 .. Len(s) + Len(a) /\ (s \o a)[Len(s) + i] = h
      <4>1. /\ Len(s) + i \in 1 .. Len(s) + Len(a) /\ ~(Len(s) + i <= Len(s))
            /\ (Len(s) + i) - Len(s) = i
        BY <1>7
      <4> QED
        BY <1>6, <3>1, <4>1
    <3> QED
      BY <1>6, <3>2 DEF Contains
  <2>3. ASSUME Contains(s \o a, h)
        PROVE  ~Absent(s, h) \/ ~Absent(a, h)
    <3>1. PICK i \in 1 .. Len(s) + Len(a) : (s \o a)[i] = h
      BY <1>6, <2>3 DEF Contains
    <3>2. CASE i <= Len(s)
      BY <1>6, <1>7, <3>1, <3>2 DEF Absent
    <3>3. CASE ~(i <= Len(s))
      <4>1. i - Len(s) \in DOMAIN a /\ a[i - Len(s)] = h
        BY <1>6, <1>7, <3>1, <3>3
      <4> QED
        BY <4>1 DEF Absent
    <3> QED
      BY <3>2, <3>3
  <2> QED
    BY <2>1, <2>2, <2>3
<1>9. ASSUME NEW h
      PROVE  Contains(HeldIn(t, e), h) <=> \E k \in Kinds : e \in DOMAIN t[k] /\ ~Absent(t[k][e], h)
  BY <1>1, <1>3, <1>4, <1>8 DEF s, a
<1> QED
  BY <1>3, <1>6, <1>9 DEF s, a

(* A hook that a table has is held once, one that it lacks is not held. *)
LEMMA HeldCounts ==
    ASSUME NEW t, IsTable(t), NEW known, IsFiled(t, known), NEW h
    PROVE  /\ Has(t, h) => Single(HeldIn(t, h.event), h)
           /\ Lacks(t, h) => Absent(HeldIn(t, h.event), h)
<1> DEFINE e == h.event
           of(k) == IF e \in DOMAIN t[k] THEN t[k][e] ELSE <<>>
<1>1. "sync" \in Kinds /\ "async" \in Kinds /\ (Kind(h) = "sync" \/ Kind(h) = "async")
  BY DEF Kinds, Kind
<1>2. \A k \in Kinds : of(k) \in Seq(AnyHook)
  <2>1. <<>> \in Seq(AnyHook)
    OBVIOUS
  <2> QED
    BY <2>1, TableLists
<1>3. HeldIn(t, e) = of("sync") \o of("async")
  BY DEF HeldIn
<1>4. \A k \in Kinds : k # Kind(h) => Absent(of(k), h)
  BY DEF Absent, IsFiled
<1>5. /\ Has(t, h) => Single(of(Kind(h)), h)
      /\ Lacks(t, h) => Absent(of(Kind(h)), h)
  BY DEF Has, Lacks, Absent
<1> HIDE DEF of, e
<1>6. /\ \A s, a \in Seq(AnyHook) : /\ Single(s, h) /\ Absent(a, h) => Single(s \o a, h)
                                    /\ Absent(s, h) /\ Single(a, h) => Single(s \o a, h)
                                    /\ Absent(s, h) /\ Absent(a, h) => Absent(s \o a, h)
  BY ConcatCounts
<1>7. Has(t, h) => Single(HeldIn(t, e), h)
  BY <1>1, <1>2, <1>3, <1>4, <1>5, <1>6
<1>8. Lacks(t, h) => Absent(HeldIn(t, e), h)
  BY <1>1, <1>2, <1>3, <1>4, <1>5, <1>6
<1> QED
  BY <1>7, <1>8 DEF e

(* One more hook. *)
LEMMA AddHookCounts ==
    ASSUME NEW t, IsTable(t), NEW known, IsFiled(t, known), NEW x \in AnyHook,
           x.event \in DOMAIN t[Kind(x)]
    PROVE  /\ IsTable(AddHook(t, x)) /\ IsFiled(AddHook(t, x), known \cup {x})
           /\ \A k \in Kinds : DOMAIN AddHook(t, x)[k] = DOMAIN t[k]
           /\ \A h : h # x => /\ Has(t, h) => Has(AddHook(t, x), h)
                              /\ Lacks(t, h) => Lacks(AddHook(t, x), h)
           /\ Lacks(t, x) => Has(AddHook(t, x), x)
           /\ \A e, h : Contains(HeldIn(AddHook(t, x), e), h) => h = x \/ Contains(HeldIn(t, e), h)
<1> DEFINE k == Kind(x)
           e == x.event
           u == AddHook(t, x)
           old == t[k][e]
           new == Append(old, x)
<1>1. k \in Kinds /\ e \in DOMAIN t[k] /\ old \in Seq(AnyHook)
  BY KindIsKind, TableLists
<1>2. /\ new \in Seq(AnyHook)
      /\ \A i \in DOMAIN new : new[i] = x \/ (i \in DOMAIN old /\ new[i] = old[i])
      /\ \A h : /\ Absent(old, h) /\ h # x => Absent(new, h)
                /\ Single(old, h) /\ h # x => Single(new, h)
      /\ Absent(old, x) => Single(new, x)
  BY <1>1, AppendCounts
<1>3. u = [t EXCEPT ![k] = [t[k] EXCEPT ![e] = new]]
  BY DEF AddHook
<1>4. /\ t = [kk \in Kinds |-> t[kk]]
      /\ \A kk \in Kinds : DOMAIN t[kk] \subseteq Events /\ t[kk] \in [DOMAIN t[kk] -> Seq(AnyHook)]
  BY TableLists DEF IsTable
<1> HIDE DEF k, e, old, new, u
<1>5. /\ u = [kk \in Kinds |-> u[kk]]
      /\ \A kk \in Kinds : DOMAIN u[kk] = DOMAIN t[kk]
      /\ \A kk \in Kinds : kk # k => u[kk] = t[kk]
      /\ u[k] = [t[k] EXCEPT ![e] = new]
  BY <1>1, <1>3, <1>4
<1>6. /\ u[k][e] = new
      /\ \A ee \in DOMAIN t[k] : ee # e => u[k][ee] = t[k][ee]
  BY <1>1, <1>4, <1>5
<1>7. \A kk \in Kinds : \A ee \in DOMAIN t[kk] : u[kk][ee] = IF kk = k /\ ee = e THEN new ELSE t[kk][ee]
  BY <1>5, <1>6
<1>8. IsTable(u)
  <2>1. \A kk \in Kinds : DOMAIN u[kk] \subseteq Events /\ u[kk] \in [DOMAIN u[kk] -> Seq(AnyHook)]
    <3>1. ASSUME NEW kk \in Kinds, kk # k
          PROVE  DOMAIN u[kk] \subseteq Events /\ u[kk] \in [DOMAIN u[kk] -> Seq(AnyHook)]
      BY <1>4, <1>5, <3>1
    <3>2. DOMAIN u[k] \subseteq Events /\ u[k] \in [DOMAIN u[k] -> Seq(AnyHook)]
      <4>1. DOMAIN u[k] = DOMAIN t[k] /\ DOMAIN t[k] \subseteq Events
        BY <1>1, <1>4, <1>5
      <4>2. t[k] \in [DOMAIN t[k] -> Seq(AnyHook)] /\ new \in Seq(AnyHook)
        BY <1>1, <1>2, <1>4
      <4>3. u[k] \in [DOMAIN t[k] -> Seq(AnyHook)]
        BY <1>5, <4>2
      <4> QED
        BY <4>1, <4>3
    <3> QED
      BY <3>1, <3>2
  <2> QED
    BY <1>5, <2>1, TableForm
<1>9. IsFiled(u, known \cup {x})
  <2> SUFFICES ASSUME NEW kk \in Kinds, NEW ee \in DOMAIN u[kk], NEW i \in DOMAIN u[kk][ee]
               PROVE  LET h == u[kk][ee][i] IN Kind(h) = kk /\ h.event = ee /\ h \in known \cup {x}
    BY DEF IsFiled
  <2>1. CASE kk = k /\ ee = e
    <3>1. u[kk][ee] = new /\ i \in DOMAIN new
      BY <1>6, <2>1
    <3>2. CASE new[i] = x
      BY <2>1, <3>1, <3>2 DEF k, e
    <3>3. CASE i \in DOMAIN old /\ new[i] = old[i]
      BY <1>1, <2>1, <3>1, <3>3 DEF IsFiled, old
    <3> QED
      BY <1>2, <3>1, <3>2, <3>3
  <2>2. CASE ~(kk = k /\ ee = e)
    <3>1. ee \in DOMAIN t[kk] /\ u[kk][ee] = t[kk][ee]
      BY <1>5, <1>7, <2>2
    <3> QED
      BY <3>1 DEF IsFiled
  <2> QED
    BY <2>1, <2>2
<1>10. ASSUME NEW h, h # x
       PROVE  /\ Has(t, h) => Has(u, h)
              /\ Lacks(t, h) => Lacks(u, h)
  <2>1. Kind(h) \in Kinds
    BY KindIsKind
  <2>2. CASE Kind(h) = k /\ h.event = e
    BY <1>2, <1>5, <1>6, <1>10, <2>1, <2>2 DEF Has, Lacks, old
  <2>3. CASE ~(Kind(h) = k /\ h.event = e)
    BY <1>5, <1>7, <2>1, <2>3 DEF Has, Lacks
  <2> QED
    BY <2>2, <2>3
<1>11. Lacks(t, x) => Has(u, x)
  BY <1>1, <1>2, <1>5, <1>6 DEF Has, Lacks, k, e, old
<1>12. ASSUME NEW ee, NEW h, Contains(HeldIn(u, ee), h)
       PROVE  h = x \/ Contains(HeldIn(t, ee), h)
  <2>1. PICK kk \in Kinds : ee \in DOMAIN u[kk] /\ ~Absent(u[kk][ee], h)
    BY <1>8, <1>12, HeldMembers
  <2>2. ee \in DOMAIN t[kk] /\ (h = x \/ ~Absent(t[kk][ee], h))
    <3>1. CASE kk = k /\ ee = e
      BY <1>1, <1>2, <1>6, <2>1, <3>1 DEF old
    <3>2. CASE ~(kk = k /\ ee = e)
      BY <1>5, <1>7, <2>1, <3>2
    <3> QED
      BY <3>1, <3>2
  <2> QED
    BY <2>2, HeldMembers
<1> QED
  BY <1>5, <1>8, <1>9, <1>10, <1>11, <1>12 DEF u

(* What the application holds when it has taken over the global hooks. *)
LEMMA GivenCounts ==
    ASSUME NEW held, IsTable(held), NEW from, IsTable(from),
           NEW known, IsFiled(held, known), IsFiled(from, known),
           \A k \in Kinds : DOMAIN held[k] = Events /\ DOMAIN from[k] = Events
    PROVE  /\ IsTable(Given(held, from)) /\ IsFiled(Given(held, from), known)
           /\ \A k \in Kinds : DOMAIN Given(held, from)[k] = Events
           /\ \A h : h.event \in Events =>
                 /\ Has(held, h) /\ Lacks(from, h) => Has(Given(held, from), h)
                 /\ Lacks(held, h) /\ Has(from, h) /\ ~Local(h) => Has(Given(held, from), h)
                 /\ Lacks(held, h) /\ (Local(h) \/ Lacks(from, h)) => Lacks(Given(held, from), h)
<1> DEFINE u == Given(held, from)
           part(k, e) == Part(from[k][e], FALSE)
<1>1. \A k \in Kinds, e \in Events : held[k][e] \in Seq(AnyHook) /\ from[k][e] \in Seq(AnyHook)
  BY TableLists
<1>2. ASSUME NEW k \in Kinds, NEW e \in Events
      PROVE  /\ part(k, e) \in Seq(AnyHook)
             /\ \A i \in DOMAIN part(k, e) :
                   \E j \in DOMAIN from[k][e] : part(k, e)[i] = from[k][e][j] /\ ~Local(from[k][e][j])
             /\ \A h : Single(from[k][e], h) /\ ~Local(h) => Single(part(k, e), h)
  <2>1. from[k][e] \in Seq(AnyHook)
    BY <1>1
  <2>2. /\ part(k, e) \in Seq(AnyHook)
        /\ \A i \in DOMAIN part(k, e) :
              \E j \in DOMAIN from[k][e] : /\ part(k, e)[i] = from[k][e][j]
                                           /\ Local(from[k][e][j]) <=> FALSE
        /\ \A h : Single(from[k][e], h) /\ (Local(h) <=> FALSE) => Single(part(k, e), h)
    BY <2>1, PartCounts, Zenon
  <2> QED
    BY <2>2
<1>3. /\ u = [k \in Kinds |-> u[k]]
      /\ \A k \in Kinds : DOMAIN u[k] = Events /\ u[k] = [e \in Events |-> held[k][e] \o part(k, e)]
  BY DEF Given
<1> HIDE DEF u, part
<1>4. \A k \in Kinds, e \in Events : u[k][e] = held[k][e] \o part(k, e)
  BY <1>3
<1>5. ASSUME NEW k \in Kinds, NEW e \in Events
      PROVE  /\ u[k][e] \in Seq(AnyHook)
             /\ \A i \in DOMAIN u[k][e] : \/ \E j \in DOMAIN held[k][e] : u[k][e][i] = held[k][e][j]
                                          \/ \E j \in DOMAIN from[k][e] : u[k][e][i] = from[k][e][j]
             /\ \A h : /\ Absent(held[k][e], h) /\ Absent(part(k, e), h) => Absent(u[k][e], h)
                       /\ Single(held[k][e], h) /\ Absent(part(k, e), h) => Single(u[k][e], h)
                       /\ Absent(held[k][e], h) /\ Single(part(k, e), h) => Single(u[k][e], h)
  <2> DEFINE s == held[k][e]
             p == part(k, e)
  <2>1. s \in Seq(AnyHook) /\ p \in Seq(AnyHook) /\ u[k][e] = s \o p
    BY <1>1, <1>2, <1>4
  <2>2. \A i \in DOMAIN p : \E j \in DOMAIN from[k][e] : p[i] = from[k][e][j]
    BY <1>2
  <2> HIDE DEF s, p
  <2>3. /\ s \o p \in Seq(AnyHook)
        /\ \A i \in DOMAIN (s \o p) : \/ \E j \in DOMAIN s : (s \o p)[i] = s[j]
                                      \/ \E j \in DOMAIN p : (s \o p)[i] = p[j]
        /\ \A h : /\ Absent(s, h) /\ Absent(p, h) => Absent(s \o p, h)
                  /\ Single(s, h) /\ Absent(p, h) => Single(s \o p, h)
                  /\ Absent(s, h) /\ Single(p, h) => Single(s \o p, h)
    BY <2>1, ConcatCounts
  <2>4. \A i \in DOMAIN u[k][e] : \/ \E j \in DOMAIN s : u[k][e][i] = s[j]
                                  \/ \E j \in DOMAIN from[k][e] : u[k][e][i] = from[k][e][j]
    BY <2>1, <2>2, <2>3
  <2> QED
    BY <2>1, <2>3, <2>4 DEF s, p
<1>6. ASSUME NEW k \in Kinds, NEW e \in Events, NEW h, Absent(from[k][e], h) \/ Local(h)
      PROVE  Absent(part(k, e), h)
  BY <1>2, <1>6 DEF Absent
<1>7. IsTable(u)
  <2>1. \A k \in Kinds : DOMAIN u[k] \subseteq Events /\ u[k] \in [DOMAIN u[k] -> Seq(AnyHook)]
    BY <1>3, <1>4, <1>5
  <2> QED
    BY <1>3, <2>1, TableForm
<1>8. IsFiled(u, known)
  BY <1>3, <1>5 DEF IsFiled
<1>9. ASSUME NEW h, h.event \in Events
      PROVE  /\ Has(held, h) /\ Lacks(from, h) => Has(u, h)
             /\ Lacks(held, h) /\ Has(from, h) /\ ~Local(h) => Has(u, h)
             /\ Lacks(held, h) /\ (Local(h) \/ Lacks(from, h)) => Lacks(u, h)
  <2>1. Kind(h) \in Kinds
    BY KindIsKind
  <2> DEFINE k == Kind(h)
             e == h.event
  <2>2. /\ Has(held, h) <=> Single(held[k][e], h)
        /\ Has(from, h) <=> Single(from[k][e], h)
        /\ Lacks(held, h) <=> Absent(held[k][e], h)
        /\ Lacks(from, h) <=> Absent(from[k][e], h)
        /\ Has(u, h) <=> Single(u[k][e], h)
        /\ Lacks(u, h) <=> Absent(u[k][e], h)
    BY <1>3, <1>9, <2>1 DEF Has, Lacks
  <2> QED
    BY <1>2, <1>5, <1>6, <1>9, <2>1, <2>2
<1> QED
  BY <1>3, <1>7, <1>8, <1>9 DEF u

(* What the blueprint is left with. *)
LEMMA LeftCounts ==
    ASSUME NEW from, IsTable(from), NEW known, IsFiled(from, known),
           \A k \in Kinds : DOMAIN from[k] = Events
    PROVE  /\ IsTable(Left(from)) /\ IsFiled(Left(from), known)
           /\ \A h : h.event \in Events =>
                 /\ Has(from, h) /\ Local(h) => Has(Left(from), h)
                 /\ Lacks(from, h) \/ ~Local(h) => Lacks(Left(from), h)
<1> DEFINE u == Left(from)
           part(k, e) == Part(from[k][e], TRUE)
           kept(k) == {f \in Events : HasLocal(from[k][f])}
<1>1. \A k \in Kinds, e \in Events : from[k][e] \in Seq(AnyHook)
  BY TableLists
<1>2. ASSUME NEW k \in Kinds, NEW e \in Events
      PROVE  /\ part(k, e) \in Seq(AnyHook)
             /\ \A i \in DOMAIN part(k, e) :
                   \E j \in DOMAIN from[k][e] : part(k, e)[i] = from[k][e][j] /\ Local(from[k][e][j])
             /\ \A h : Single(from[k][e], h) /\ Local(h) => Single(part(k, e), h)
  <2>1. from[k][e] \in Seq(AnyHook)
    BY <1>1
  <2>2. /\ part(k, e) \in Seq(AnyHook)
        /\ \A i \in DOMAIN part(k, e) :
              \E j \in DOMAIN from[k][e] : /\ part(k, e)[i] = from[k][e][j]
                                           /\ Local(from[k][e][j]) <=> TRUE
        /\ \A h : Single(from[k][e], h) /\ (Local(h) <=> TRUE) => Single(part(k, e), h)
    BY <2>1, PartCounts, Zenon
  <2> QED
    BY <2>2
<1>3. /\ u = [k \in Kinds |-> u[k]]
      /\ \A k \in Kinds : DOMAIN u[k] = kept(k) /\ u[k] = [e \in kept(k) |-> part(k, e)]
  BY DEF Left
<1>4. \A k \in Kinds : kept(k) \subseteq Events
  OBVIOUS
<1>5. \A k \in Kinds, e \in Events : e \in kept(k) <=> HasLocal(from[k][e])
  OBVIOUS
<1> HIDE DEF u, part, kept
<1>6. \A k \in Kinds : \A e \in kept(k) : u[k][e] = part(k, e) /\ e \in Events
  BY <1>3, <1>4
<1>7. IsTable(u)
  <2>1. \A k \in Kinds : DOMAIN u[k] \subseteq Events /\ u[k] \in [DOMAIN u[k] -> Seq(AnyHook)]
    BY <1>2, <1>3, <1>4, <1>6
  <2> QED
    BY <1>3, <2>1, TableForm
<1>8. IsFiled(u, known)
  <2> SUFFICES ASSUME NEW k \in Kinds, NEW e \in DOMAIN u[k], NEW i \in DOMAIN u[k][e]
               PROVE  LET h == u[k][e][i] IN Kind(h) = k /\ h.event = e /\ h \in known
    BY DEF IsFiled
  <2>1. e \in Events /\ u[k][e] = part(k, e)
    BY <1>3, <1>6
  <2>2. PICK j \in DOMAIN from[k][e] : u[k][e][i] = from[k][e][j]
    BY <1>2, <2>1
  <2> QED
    BY <2>1, <2>2 DEF IsFiled
<1>9. ASSUME NEW h, h.event \in Events
      PROVE  /\ Has(from, h) /\ Local(h) => Has(u, h)
             /\ Lacks(from, h) \/ ~Local(h) => Lacks(u, h)
  <2> DEFINE k == Kind(h)
             e == h.event
  <2>1. k \in Kinds /\ e \in Events
    BY <1>9, KindIsKind
  <2>2. /\ Has(from, h) <=> Single(from[k][e], h)
        /\ Lacks(from, h) <=> Absent(from[k][e], h)
        /\ Has(u, h) <=> e \in kept(k) /\ Single(part(k, e), h)
        /\ Lacks(u, h) <=> (e \in kept(k) => Absent(part(k, e), h))
    BY <1>3, <1>6, <2>1 DEF Has, Lacks
  <2> HIDE DEF k, e
  <2>3. Single(from[k][e], h) /\ Local(h) => e \in kept(k) /\ Single(part(k, e), h)
    BY <1>2, <1>5, <2>1 DEF Single, HasLocal
  <2>4. Absent(from[k][e], h) \/ ~Local(h) => Absent(part(k, e), h)
    BY <1>2, <2>1 DEF Absent
  <2> QED
    BY <2>2, <2>3, <2>4
<1> QED
  BY <1>7, <1>8, <1>9 DEF u

-----------------------------------------------------------------------------
(* The ways from the application to a blueprint. *)

LEMMA Names ==
    /\ App \in All /\ None \notin All /\ App # None
    /\ \A c \in Blueprints : c \in All /\ c # App
BY NamesAssumption DEF All

Prefix == Seq(STRING)

(* In a tree of blueprints, nest, there is a step from blueprint c to b,   *)
(* which appends to the prefix q.                                          *)
Leads(nest, c, b, q, r) == \E d \in Range(nest[c]) : d[1] = b /\ \E p \in d[2] : r = q \o p

(* n steps lead from the application to b and make the prefix q. *)
Way(nest, n, b, q) ==
    \E f \in [0 .. n -> All], g \in [0 .. n -> Prefix] :
        /\ f[0] = App /\ g[0] = <<>> /\ f[n] = b /\ g[n] = q
        /\ \A i \in 1 .. n : Leads(nest, f[i - 1], f[i], g[i - 1], g[i])

IsTree(nest) == nest \in [All -> Seq(Blueprints \X PrefixSets)]

LEMMA NestMembers ==
    ASSUME NEW nest, IsTree(nest), NEW c \in All, NEW d \in Range(nest[c])
    PROVE  /\ d[1] \in Blueprints /\ d[1] \in All /\ d[1] # App
           /\ d[2] \in PrefixSets /\ \A p \in d[2] : p \in Prefix
<1>1. nest[c] \in Seq(Blueprints \X PrefixSets)
  BY DEF IsTree
<1>2. d \in Blueprints \X PrefixSets
  BY <1>1 DEF Range
<1>3. d[2] \in SUBSET Prefix
  BY <1>2, PrefixesAssumption DEF Prefix
<1> QED
  BY <1>2, <1>3, Names

LEMMA WayType ==
    ASSUME NEW nest, NEW n \in Nat, NEW b, NEW q, Way(nest, n, b, q)
    PROVE  b \in All /\ q \in Prefix
BY DEF Way

LEMMA WayStart ==
    ASSUME NEW nest
    PROVE  Way(nest, 0, App, <<>>)
<1> DEFINE f == [i \in 0 .. 0 |-> App]
           g == [i \in 0 .. 0 |-> <<>>]
<1>1. f \in [0 .. 0 -> All] /\ f[0] = App
  BY Names
<1>2. g \in [0 .. 0 -> Prefix] /\ g[0] = <<>>
  BY DEF Prefix
<1>3. 1 .. 0 = {}
  OBVIOUS
<1> HIDE DEF f, g
<1> QED
  BY <1>1, <1>2, <1>3 DEF Way

LEMMA WayZero ==
    ASSUME NEW nest, NEW b, NEW q, Way(nest, 0, b, q)
    PROVE  b = App /\ q = <<>>
BY DEF Way

(* A way stays one when blueprints are added. *)
LEMMA WayWider ==
    ASSUME NEW nest, NEW wide, \A c \in All : Range(nest[c]) \subseteq Range(wide[c]),
           NEW n \in Nat, NEW b, NEW q, Way(nest, n, b, q)
    PROVE  Way(wide, n, b, q)
<1>1. PICK f \in [0 .. n -> All], g \in [0 .. n -> Prefix] :
         /\ f[0] = App /\ g[0] = <<>> /\ f[n] = b /\ g[n] = q
         /\ \A i \in 1 .. n : Leads(nest, f[i - 1], f[i], g[i - 1], g[i])
  BY DEF Way
<1>2. ASSUME NEW i \in 1 .. n
      PROVE  Leads(wide, f[i - 1], f[i], g[i - 1], g[i])
  <2>1. i - 1 \in 0 .. n
    OBVIOUS
  <2>2. f[i - 1] \in All
    BY <2>1
  <2>3. Leads(nest, f[i - 1], f[i], g[i - 1], g[i])
    BY <1>1
  <2> QED
    BY <2>2, <2>3 DEF Leads
<1> QED
  BY <1>1, <1>2 DEF Way

(* A way goes on with a step, and without its last step it is a way. *)
LEMMA WayMore ==
    ASSUME NEW nest, IsTree(nest), NEW n \in Nat, NEW c, NEW q, Way(nest, n, c, q),
           NEW d \in Range(nest[c]), NEW p \in d[2]
    PROVE  Way(nest, n + 1, d[1], q \o p)
<1>1. PICK f \in [0 .. n -> All], g \in [0 .. n -> Prefix] :
         /\ f[0] = App /\ g[0] = <<>> /\ f[n] = c /\ g[n] = q
         /\ \A i \in 1 .. n : Leads(nest, f[i - 1], f[i], g[i - 1], g[i])
  BY DEF Way
<1>2. c \in All /\ q \in Prefix
  BY WayType
<1>3. d[1] \in All /\ p \in Prefix
  BY <1>2, NestMembers
<1>4. q \o p \in Prefix
  BY <1>2, <1>3, ConcatProperties DEF Prefix
<1> DEFINE b == d[1]
           r == q \o p
           F == [i \in 0 .. n + 1 |-> IF i = n + 1 THEN b ELSE f[i]]
           G == [i \in 0 .. n + 1 |-> IF i = n + 1 THEN r ELSE g[i]]
<1>5. Leads(nest, c, b, q, r)
  BY DEF Leads
<1>6. b \in All /\ r \in Prefix
  BY <1>3, <1>4
<1> HIDE DEF b, r
<1>7. F \in [0 .. n + 1 -> All] /\ G \in [0 .. n + 1 -> Prefix]
  BY <1>6
<1>8. \A i \in 0 .. n : i \in 0 .. n + 1 /\ i # n + 1
  OBVIOUS
<1>9. /\ \A i \in 0 .. n : F[i] = f[i] /\ G[i] = g[i]
      /\ F[n + 1] = b /\ G[n + 1] = r
  BY <1>8
<1> HIDE DEF F, G
<1>10. F[0] = App /\ G[0] = <<>>
  BY <1>1, <1>9
<1>11. ASSUME NEW i \in 1 .. n + 1
       PROVE  Leads(nest, F[i - 1], F[i], G[i - 1], G[i])
  <2>1. CASE i = n + 1
    <3>1. i - 1 = n /\ n \in 0 .. n
      BY <2>1
    <3> QED
      BY <1>1, <1>5, <1>9, <2>1, <3>1
  <2>2. CASE i # n + 1
    <3>1. i \in 1 .. n /\ i \in 0 .. n /\ i - 1 \in 0 .. n
      BY <2>2
    <3> QED
      BY <1>1, <1>9, <3>1
  <2> QED
    BY <2>1, <2>2
<1>12. Way(nest, n + 1, b, r)
  BY <1>7, <1>9, <1>10, <1>11 DEF Way
<1> QED
  BY <1>12 DEF b, r

LEMMA WayBack ==
    ASSUME NEW nest, IsTree(nest), NEW n \in Nat, n # 0, NEW b, NEW r, Way(nest, n, b, r)
    PROVE  \E m \in Nat : \E c \in All : \E q \in Prefix :
              n = m + 1 /\ Way(nest, m, c, q) /\ Leads(nest, c, b, q, r)
<1>1. PICK f \in [0 .. n -> All], g \in [0 .. n -> Prefix] :
         /\ f[0] = App /\ g[0] = <<>> /\ f[n] = b /\ g[n] = r
         /\ \A i \in 1 .. n : Leads(nest, f[i - 1], f[i], g[i - 1], g[i])
  BY DEF Way
<1> DEFINE m == n - 1
           F == [i \in 0 .. m |-> f[i]]
           G == [i \in 0 .. m |-> g[i]]
<1>2. m \in Nat /\ m \in 0 .. n /\ m \in 0 .. m /\ 0 \in 0 .. m /\ n \in 1 .. n
      /\ \A i \in 0 .. m : i \in 0 .. n
  OBVIOUS
<1>3. \A i \in 1 .. m : i \in 1 .. n /\ i \in 0 .. m /\ i - 1 \in 0 .. m
  BY <1>2
<1>4. F \in [0 .. m -> All] /\ G \in [0 .. m -> Prefix] /\ f[m] \in All /\ g[m] \in Prefix
  BY <1>2
<1>5. \A i \in 0 .. m : F[i] = f[i] /\ G[i] = g[i]
  OBVIOUS
<1>6. Leads(nest, f[m], b, g[m], r)
  BY <1>1, <1>2
<1> HIDE DEF m, F, G
<1>7. \A i \in 1 .. m : Leads(nest, F[i - 1], F[i], G[i - 1], G[i])
  BY <1>1, <1>3, <1>5
<1>8. F[0] = App /\ G[0] = <<>> /\ F[m] = f[m] /\ G[m] = g[m]
  BY <1>1, <1>2, <1>5
<1>9. Way(nest, m, f[m], g[m])
  BY <1>4, <1>7, <1>8 DEF Way
<1>10. n = m + 1
  BY DEF m
<1> QED
  BY <1>2, <1>4, <1>6, <1>9, <1>10

(* Each blueprint is nested where its parent says. *)
Linked(nest, up) == \A c \in All : \A d \in Range(nest[c]) : up[d[1]] = c

(* No way is longer than there are blueprints: it would lead through one of *)
(* them twice, and so, back from there, through the application.            *)
LEMMA WayShort ==
    ASSUME NEW nest, IsTree(nest), NEW up, Linked(nest, up),
           NEW n \in Nat, NEW b, NEW q, Way(nest, n, b, q)
    PROVE  n < Cardinality(All)
<1>1. PICK f \in [0 .. n -> All], g \in [0 .. n -> Prefix] :
         /\ f[0] = App /\ g[0] = <<>> /\ f[n] = b /\ g[n] = q
         /\ \A i \in 1 .. n : Leads(nest, f[i - 1], f[i], g[i - 1], g[i])
  BY DEF Way
<1>2. ASSUME NEW i \in 1 .. n
      PROVE  f[i - 1] = up[f[i]] /\ f[i] # App
  <2>1. i - 1 \in 0 .. n
    OBVIOUS
  <2>2. f[i - 1] \in All
    BY <2>1
  <2>3. PICK d \in Range(nest[f[i - 1]]) : d[1] = f[i]
    BY <1>1 DEF Leads
  <2> QED
    BY <2>2, <2>3, NestMembers DEF Linked
<1>3. ASSUME NEW i \in 0 .. n, NEW j \in 0 .. n, i < j, f[i] = f[j]
      PROVE  FALSE
  <2> DEFINE T == {k \in 0 .. i : f[i - k] = f[j - k]}
  <2>1. i \in Nat /\ j \in Nat
    OBVIOUS
  <2>2. 0 \in T
    <3>1. 0 \in 0 .. i /\ i - 0 = i /\ j - 0 = j
      BY <2>1
    <3> QED
      BY <1>3, <3>1
  <2>3. ASSUME NEW k \in 1 .. i, k - 1 \in T
        PROVE  k \in T
    <3>1. /\ i - (k - 1) \in 1 .. n /\ j - (k - 1) \in 1 .. n /\ k \in 0 .. i
          /\ (i - (k - 1)) - 1 = i - k /\ (j - (k - 1)) - 1 = j - k
      BY <1>3, <2>1
    <3>2. f[i - (k - 1)] = f[j - (k - 1)]
      BY <2>3
    <3>3. f[i - k] = up[f[i - (k - 1)]]
      BY <1>2, <3>1
    <3>4. f[j - k] = up[f[j - (k - 1)]]
      BY <1>2, <3>1
    <3> QED
      BY <3>1, <3>2, <3>3, <3>4
  <2>4. i \in T
    <3> HIDE DEF T
    <3>1. \A k \in 0 .. i : k \in T
      BY <2>1, <2>2, <2>3, UpTo
    <3> QED
      BY <2>1, <3>1
  <2>5. i - i = 0 /\ j - i \in 1 .. n
    BY <1>3, <2>1
  <2>6. f[0] = f[j - i]
    BY <2>4, <2>5
  <2> QED
    BY <1>1, <1>2, <2>5, <2>6
<1>4. IsFiniteSet(All) /\ Cardinality(All) \in Nat
  <2>1. IsFiniteSet(All)
    BY NamesAssumption, FS_AddElement DEF All
  <2> QED
    BY <2>1, FS_CardinalityType
<1>5. IsFiniteSet(0 .. n) /\ Cardinality(0 .. n) = n + 1
  BY FS_Interval
<1>6. \A i, j \in 0 .. n : i # j => i < j \/ j < i
  OBVIOUS
<1>7. \A i, j \in 0 .. n : i # j => f[i] # f[j]
  BY <1>3, <1>6
<1>8. ~(Cardinality(All) < Cardinality(0 .. n))
  BY <1>4, <1>5, <1>7, FS_PigeonHole
<1> QED
  BY <1>4, <1>5, <1>8

-----------------------------------------------------------------------------
(* The routes of a tree. *)

LEMMA AllCounted == Cardinality(All) \in Nat
<1>1. IsFiniteSet(All)
  BY NamesAssumption, FS_AddElement DEF All
<1> QED
  BY <1>1, FS_CardinalityType

(* What is mounted for c, from what is mounted one level below. *)
PutUnder(lower, d) == {<<x[1], p \o x[2]>> : x \in lower[d[1]], p \in d[2]}

MountedFrom(c, lower) ==
    {<<r, <<>>>> : r \in routes[c]} \cup
    UNION {PutUnder(lower, d) : d \in Range(nested[c])}

OwnOrUnder(c, lower, x) ==
    \/ \E r \in routes[c] : x = <<r, <<>>>>
    \/ \E d \in Range(nested[c]) : \E y \in lower[d[1]] : \E p \in d[2] :
          x = <<y[1], p \o y[2]>>

LEMMA InMountedFrom ==
    ASSUME NEW c, NEW lower, NEW x
    PROVE  x \in MountedFrom(c, lower) <=> OwnOrUnder(c, lower, x)
<1>1. \A d : x \in PutUnder(lower, d) <=> \E y \in lower[d[1]] : \E p \in d[2] : x = <<y[1], p \o y[2]>>
  BY DEF PutUnder
<1> DEFINE own == {<<r, <<>>>> : r \in routes[c]}
<1>2. x \in own <=> \E r \in routes[c] : x = <<r, <<>>>>
  OBVIOUS
<1>3. MountedFrom(c, lower) = own \cup UNION {PutUnder(lower, d) : d \in Range(nested[c])}
  BY DEF MountedFrom
<1> HIDE DEF own
<1> QED
  BY <1>1, <1>2, <1>3 DEF OwnOrUnder

MountedType == [All -> SUBSET ((UNION {routes[c] : c \in All}) \X Prefix)]

(* The recursive function of Mounted exists. *)
LEMMA MountedSteps ==
    ASSUME IsTree(nested)
    PROVE  \E f \in [0 .. Cardinality(All) -> MountedType] :
              /\ \A c \in All : f[0][c] = {}
              /\ \A n \in 1 .. Cardinality(All) : \A c \in All : f[n][c] = MountedFrom(c, f[n - 1])
              /\ \A b \in All : Mounted(b) = f[Cardinality(All)][b]
<1> DEFINE N == Cardinality(All)
           none == [c \in All |-> {}]
           step == [lower \in MountedType |-> [c \in All |-> MountedFrom(c, lower)]]
           Turn(f, n) == [c \in All |-> IF n = 0 THEN {} ELSE MountedFrom(c, f[n - 1])]
           Chain(f) == f = [n \in 0 .. N |-> Turn(f, n)]
           Below == CHOOSE f : Chain(f)
           Typed == {n \in 0 .. N : Below[n] \in MountedType}
<1>1. N \in Nat
  BY AllCounted
<1>2. none \in MountedType
  BY DEF MountedType
<1>3. ASSUME NEW lower \in MountedType
      PROVE  [c \in All |-> MountedFrom(c, lower)] \in MountedType
  <2> DEFINE R == UNION {routes[c] : c \in All}
  <2>1. ASSUME NEW c \in All, NEW x \in MountedFrom(c, lower)
        PROVE  x \in R \X Prefix
    <3>1. CASE \E r \in routes[c] : x = <<r, <<>>>>
      <4>1. PICK r \in routes[c] : x = <<r, <<>>>>
        BY <3>1
      <4>2. r \in R /\ <<>> \in Prefix
        BY DEF Prefix
      <4> QED
        BY <4>1, <4>2
    <3>2. ASSUME NEW d \in Range(nested[c]), NEW y \in lower[d[1]], NEW p \in d[2],
                 x = <<y[1], p \o y[2]>>
          PROVE  x \in R \X Prefix
      <4>1. d[1] \in All /\ p \in Prefix
        BY NestMembers
      <4>2. y \in R \X Prefix
        BY <3>2, <4>1 DEF MountedType
      <4>3. y[1] \in R /\ y[2] \in Prefix
        BY <4>2
      <4>4. p \o y[2] \in Prefix
        BY <4>1, <4>3, ConcatProperties DEF Prefix
      <4> QED
        BY <3>2, <4>3, <4>4
    <3>3. OwnOrUnder(c, lower, x)
      BY <2>1, InMountedFrom
    <3> QED
      BY <3>1, <3>2, <3>3 DEF OwnOrUnder
  <2> QED
    BY <2>1 DEF MountedType
<1>4. step \in [MountedType -> MountedType]
  BY <1>3
<1>5. \A lower \in MountedType : step[lower] = [c \in All |-> MountedFrom(c, lower)]
  OBVIOUS
<1> HIDE DEF N, none, step
<1>6. PICK f \in [0 .. N -> MountedType] : f[0] = none /\ \A n \in 1 .. N : f[n] = step[f[n - 1]]
  <2>1. \E f \in [0 .. N -> MountedType] : Iterates(f, none, step, N)
    BY <1>1, <1>2, <1>4, Iterated
  <2> QED
    BY <2>1 DEF Iterates
<1>7. ASSUME NEW n \in 0 .. N
      PROVE  f[n] = Turn(f, n)
  <2>1. CASE n = 0
    BY <1>6, <2>1 DEF none
  <2>2. CASE n # 0
    <3>1. n \in 1 .. N /\ n - 1 \in 0 .. N
      BY <1>1, <2>2
    <3>2. f[n - 1] \in MountedType /\ f[n] = step[f[n - 1]]
      BY <1>6, <3>1
    <3>3. f[n] = [c \in All |-> MountedFrom(c, f[n - 1])]
      BY <1>5, <3>2
    <3> QED
      BY <2>2, <3>3
  <2> QED
    BY <2>1, <2>2
<1>8. Chain(f)
  <2> HIDE DEF Turn
  <2> QED
    BY <1>6, <1>7
<1>9. Chain(Below)
  <2> HIDE DEF Chain
  <2> QED
    BY <1>8
<1>10. \A b : Mounted(b) = Below[N][b]
  BY DEF Mounted, MountedFrom, PutUnder, N
<1> HIDE DEF Below
<1>11. (\A n \in 0 .. N : Below[n] = Turn(Below, n)) /\ DOMAIN Below = 0 .. N
       /\ Below = [n \in 0 .. N |-> Below[n]]
  <2> HIDE DEF Turn
  <2> QED
    BY <1>9
<1>12. Below[0] = none
  <2>1. 0 \in 0 .. N
    BY <1>1
  <2> QED
    BY <1>11, <2>1 DEF none
<1>13. ASSUME NEW n \in 1 .. N
       PROVE  Below[n] = [c \in All |-> MountedFrom(c, Below[n - 1])]
  <2>1. n \in 0 .. N /\ n # 0
    BY <1>1
  <2> QED
    BY <1>11, <2>1
<1>14. \A n \in 0 .. N : n \in Typed
  <2>1. 0 \in Typed
    BY <1>1, <1>2, <1>12
  <2>2. ASSUME NEW n \in 1 .. N, n - 1 \in Typed
        PROVE  n \in Typed
    <3>1. n \in 0 .. N
      BY <1>1
    <3> QED
      BY <1>3, <1>13, <2>2, <3>1
  <2> HIDE DEF Typed
  <2> QED
    BY <1>1, <2>1, <2>2, UpTo
<1>15. Below \in [0 .. N -> MountedType]
  BY <1>11, <1>14
<1>16. \A c \in All : Below[0][c] = {}
  BY <1>12 DEF none
<1>17. \A n \in 1 .. N : \A c \in All : Below[n][c] = MountedFrom(c, Below[n - 1])
  BY <1>13
<1> QED
  BY <1>10, <1>15, <1>16, <1>17 DEF N

(* What is mounted for a blueprint are routes that blueprints declared. *)
LEMMA MountedRoutes ==
    ASSUME IsTree(nested), NEW b \in All
    PROVE  \A x \in Mounted(b) : \E c \in All : x[1] \in routes[c]
<1> DEFINE N == Cardinality(All)
<1>1. PICK f \in [0 .. N -> MountedType] : \A c \in All : Mounted(c) = f[N][c]
  BY MountedSteps
<1>2. N \in 0 .. N
  BY AllCounted
<1>3. Mounted(b) \subseteq (UNION {routes[c] : c \in All}) \X Prefix
  BY <1>1, <1>2 DEF MountedType
<1> QED
  BY <1>3

(* Where c is mounted, from where the blueprints one level above are. *)
MountsFrom(c, upper) ==
    IF c = App THEN {<<>>}
    ELSE IF parent[c] = None THEN {}
    ELSE UNION {{q \o p : q \in upper[parent[c]], p \in d[2]} :
                    d \in {x \in Range(nested[parent[c]]) : x[1] = c}}

LEMMA InMountsFrom ==
    ASSUME NEW c, NEW upper, NEW x, c # App, parent[c] # None
    PROVE  x \in MountsFrom(c, upper) <=>
              \E d \in Range(nested[parent[c]]) :
                  d[1] = c /\ \E q \in upper[parent[c]] : \E p \in d[2] : x = q \o p
<1> DEFINE ends(d) == {q \o p : q \in upper[parent[c]], p \in d[2]}
<1>1. \A d : x \in ends(d) <=> \E q \in upper[parent[c]] : \E p \in d[2] : x = q \o p
  OBVIOUS
<1>2. MountsFrom(c, upper) = UNION {ends(d) : d \in {e \in Range(nested[parent[c]]) : e[1] = c}}
  BY DEF MountsFrom
<1> HIDE DEF ends
<1> QED
  BY <1>1, <1>2

(* Every blueprint is where its parent says. *)
TreeOfBlueprints ==
    /\ IsTree(nested) /\ Linked(nested, parent)
    /\ parent \in [All -> All \cup {None}]

(* The recursive function of MountPoints exists. *)
LEMMA MountSteps ==
    ASSUME TreeOfBlueprints
    PROVE  \E f \in [0 .. Cardinality(All) -> [All -> SUBSET Prefix]] :
              /\ \A c \in All : f[0][c] = IF c = App THEN {<<>>} ELSE {}
              /\ \A n \in 1 .. Cardinality(All) : \A c \in All : f[n][c] = MountsFrom(c, f[n - 1])
              /\ \A b \in All : MountPoints(b) = f[Cardinality(All)][b]
<1> DEFINE N == Cardinality(All)
           Type == [All -> SUBSET Prefix]
           top == [c \in All |-> IF c = App THEN {<<>>} ELSE {}]
           step == [upper \in Type |-> [c \in All |-> MountsFrom(c, upper)]]
           Turn(f, n) ==
               [c \in All |->
                   IF c = App THEN {<<>>}
                   ELSE IF n = 0 \/ parent[c] = None THEN {}
                   ELSE UNION {{q \o p : q \in f[n - 1][parent[c]], p \in d[2]} :
                                   d \in {x \in Range(nested[parent[c]]) : x[1] = c}}]
           Chain(f) == f = [n \in 0 .. N |-> Turn(f, n)]
           Up == CHOOSE f : Chain(f)
           Typed == {n \in 0 .. N : Up[n] \in Type}
<1>1. N \in Nat
  BY AllCounted
<1>2. top \in Type
  <2>1. <<>> \in Prefix
    BY DEF Prefix
  <2> QED
    BY <2>1
<1>3. ASSUME NEW upper \in Type
      PROVE  [c \in All |-> MountsFrom(c, upper)] \in Type
  <2>1. ASSUME NEW c \in All, NEW x \in MountsFrom(c, upper)
        PROVE  x \in Prefix
    <3>1. CASE c = App
      BY <2>1, <3>1 DEF MountsFrom, Prefix
    <3>2. CASE c # App
      <4>1. parent[c] # None
        BY <2>1, <3>2 DEF MountsFrom
      <4>2. parent[c] \in All
        BY <4>1 DEF TreeOfBlueprints
      <4>3. PICK d \in Range(nested[parent[c]]) :
               \E q \in upper[parent[c]] : \E p \in d[2] : x = q \o p
        BY <2>1, <3>2, <4>1, InMountsFrom
      <4>4. PICK q \in upper[parent[c]], p \in d[2] : x = q \o p
        BY <4>3
      <4>5. q \in Prefix
        BY <4>2
      <4>6. p \in Prefix
        BY <4>2, NestMembers DEF TreeOfBlueprints
      <4> QED
        BY <4>4, <4>5, <4>6, ConcatProperties DEF Prefix
    <3> QED
      BY <3>1, <3>2
  <2> QED
    BY <2>1
<1>4. step \in [Type -> Type]
  BY <1>3
<1>5. \A upper \in Type : step[upper] = [c \in All |-> MountsFrom(c, upper)]
  OBVIOUS
<1> HIDE DEF N, top, step, Type
<1>6. PICK f \in [0 .. N -> Type] : f[0] = top /\ \A n \in 1 .. N : f[n] = step[f[n - 1]]
  <2>1. \E f \in [0 .. N -> Type] : Iterates(f, top, step, N)
    BY <1>1, <1>2, <1>4, Iterated
  <2> QED
    BY <2>1 DEF Iterates
<1>7. ASSUME NEW f_, NEW n \in 1 .. N
      PROVE  Turn(f_, n) = [c \in All |-> MountsFrom(c, f_[n - 1])]
  <2>1. n # 0
    BY <1>1
  <2> QED
    BY <2>1 DEF MountsFrom
<1>8. \A f_ : Turn(f_, 0) = top
  BY DEF top
<1>9. ASSUME NEW n \in 0 .. N
      PROVE  f[n] = Turn(f, n)
  <2>1. CASE n = 0
    <3> HIDE DEF Turn
    <3> QED
      BY <1>6, <1>8, <2>1
  <2>2. CASE n # 0
    <3>1. n \in 1 .. N /\ n - 1 \in 0 .. N
      BY <1>1, <2>2
    <3>2. f[n - 1] \in Type /\ f[n] = step[f[n - 1]]
      BY <1>6, <3>1
    <3>3. f[n] = [c \in All |-> MountsFrom(c, f[n - 1])]
      BY <1>5, <3>2
    <3> HIDE DEF Turn
    <3> QED
      BY <1>7, <3>1, <3>3
  <2> HIDE DEF Turn
  <2> QED
    BY <2>1, <2>2
<1>10. Chain(f)
  <2> HIDE DEF Turn
  <2> QED
    BY <1>6, <1>9
<1>11. Chain(Up)
  <2> HIDE DEF Chain
  <2> QED
    BY <1>10
<1>12. \A b : MountPoints(b) = Up[N][b]
  BY DEF MountPoints, N
<1> HIDE DEF Up
<1>13. (\A n \in 0 .. N : Up[n] = Turn(Up, n)) /\ Up = [n \in 0 .. N |-> Up[n]]
  <2> HIDE DEF Turn
  <2> QED
    BY <1>11
<1> HIDE DEF Turn, Chain
<1>14. Up[0] = top
  <2>1. 0 \in 0 .. N
    BY <1>1
  <2> QED
    BY <1>8, <1>13, <2>1
<1>15. ASSUME NEW n \in 1 .. N
       PROVE  Up[n] = [c \in All |-> MountsFrom(c, Up[n - 1])]
  <2>1. n \in 0 .. N
    BY <1>1
  <2> QED
    BY <1>7, <1>13, <2>1
<1>16. \A n \in 0 .. N : n \in Typed
  <2>1. 0 \in Typed
    BY <1>1, <1>2, <1>14
  <2>2. ASSUME NEW n \in 1 .. N, n - 1 \in Typed
        PROVE  n \in Typed
    <3>1. n \in 0 .. N
      BY <1>1
    <3> QED
      BY <1>3, <1>15, <2>2, <3>1
  <2> HIDE DEF Typed
  <2> QED
    BY <1>1, <2>1, <2>2, UpTo
<1>17. Up \in [0 .. N -> Type]
  BY <1>13, <1>16
<1>18. \A c \in All : Up[0][c] = IF c = App THEN {<<>>} ELSE {}
  BY <1>14 DEF top
<1>19. \A n \in 1 .. N : \A c \in All : Up[n][c] = MountsFrom(c, Up[n - 1])
  BY <1>15
<1> QED
  BY <1>12, <1>17, <1>18, <1>19 DEF N, Type

(* A blueprint is mounted at the ends of the ways to it. *)
LEMMA MountsAreWays ==
    ASSUME TreeOfBlueprints, NEW b \in All, NEW q \in MountPoints(b)
    PROVE  \E n \in Nat : Way(nested, n, b, q)
<1> DEFINE N == Cardinality(All)
           Led(c, r) == \E k \in Nat : Way(nested, k, c, r)
<1>1. N \in Nat
  BY AllCounted
<1>2. PICK f \in [0 .. N -> [All -> SUBSET Prefix]] :
          /\ \A c \in All : f[0][c] = IF c = App THEN {<<>>} ELSE {}
          /\ \A n \in 1 .. N : \A c \in All : f[n][c] = MountsFrom(c, f[n - 1])
          /\ \A c \in All : MountPoints(c) = f[N][c]
  BY MountSteps
<1>3. Led(App, <<>>)
  BY WayStart
<1> HIDE DEF Led
<1> DEFINE T == {n \in 0 .. N : \A c \in All : \A r \in f[n][c] : Led(c, r)}
<1>4. 0 \in T
  BY <1>1, <1>2, <1>3
<1>5. ASSUME NEW n \in 1 .. N, n - 1 \in T
      PROVE  n \in T
  <2> DEFINE upper == f[n - 1]
  <2>1. n \in 0 .. N /\ \A c \in All : \A r \in upper[c] : Led(c, r)
    BY <1>1, <1>5
  <2>2. \A c \in All : f[n][c] = MountsFrom(c, upper)
    BY <1>2
  <2> HIDE DEF upper
  <2>3. ASSUME NEW c \in All, NEW r \in MountsFrom(c, upper)
        PROVE  Led(c, r)
    <3>1. CASE c = App
      BY <1>3, <2>3, <3>1 DEF MountsFrom
    <3>2. CASE c # App
      <4>1. parent[c] # None
        BY <2>3, <3>2 DEF MountsFrom
      <4>2. parent[c] \in All
        BY <4>1 DEF TreeOfBlueprints
      <4>3. PICK d \in Range(nested[parent[c]]) :
               d[1] = c /\ \E s \in upper[parent[c]] : \E p \in d[2] : r = s \o p
        BY <2>3, <3>2, <4>1, InMountsFrom
      <4>4. PICK s \in upper[parent[c]], p \in d[2] : r = s \o p
        BY <4>3
      <4>5. PICK k \in Nat : Way(nested, k, parent[c], s)
        BY <2>1, <4>2 DEF Led
      <4>6. Way(nested, k + 1, c, r)
        <5>1. Way(nested, k + 1, d[1], s \o p)
          BY <4>2, <4>5, WayMore DEF TreeOfBlueprints
        <5> QED
          BY <4>3, <4>4, <5>1
      <4>7. k + 1 \in Nat
        OBVIOUS
      <4> QED
        BY <4>6, <4>7 DEF Led
    <3> QED
      BY <3>1, <3>2
  <2> QED
    BY <2>1, <2>2, <2>3
<1>6. N \in T
  <2> HIDE DEF T, N
  <2>1. \A n \in 0 .. N : n \in T
    BY <1>1, <1>4, <1>5, UpTo
  <2> QED
    BY <1>1, <2>1
<1>7. Led(b, q)
  BY <1>2, <1>6
<1> QED
  BY <1>7 DEF Led

(* ... and at the end of each of them. *)
LEMMA WaysAreMounts ==
    ASSUME TreeOfBlueprints, NEW n \in Nat, NEW b, NEW q, Way(nested, n, b, q)
    PROVE  q \in MountPoints(b)
<1> DEFINE N == Cardinality(All)
           Near(m, c, r) == \E k \in 0 .. m : Way(nested, k, c, r)
           Nearer(m, c, r) ==
               /\ c # App /\ parent[c] \in All
               /\ \E s : \E d \in Range(nested[parent[c]]) : \E p \in d[2] :
                     Near(m - 1, parent[c], s) /\ d[1] = c /\ r = s \o p
<1>1. N \in Nat /\ n < N /\ n \in 0 .. N /\ N \in 0 .. N
  BY AllCounted, WayShort DEF TreeOfBlueprints
<1>2. PICK f \in [0 .. N -> [All -> SUBSET Prefix]] :
          /\ \A c \in All : f[0][c] = IF c = App THEN {<<>>} ELSE {}
          /\ \A m \in 1 .. N : \A c \in All : f[m][c] = MountsFrom(c, f[m - 1])
          /\ \A c \in All : MountPoints(c) = f[N][c]
  BY MountSteps
<1>3. Near(N, b, q)
  BY <1>1
<1>4. ASSUME NEW c, NEW r, Near(0, c, r)
      PROVE  c = App /\ r = <<>>
  BY <1>4, WayZero
<1>5. ASSUME NEW m \in 1 .. N, NEW c, NEW r, Near(m, c, r)
      PROVE  \/ c = App /\ r = <<>>
             \/ Nearer(m, c, r)
  <2>1. PICK k \in 0 .. m : Way(nested, k, c, r)
    BY <1>5
  <2>2. CASE k = 0
    BY <2>1, <2>2, WayZero
  <2>3. CASE k # 0
    <3>1. k \in Nat
      OBVIOUS
    <3>2. PICK l \in Nat, a \in All, s \in Prefix :
             k = l + 1 /\ Way(nested, l, a, s) /\ Leads(nested, a, c, s, r)
      BY <2>1, <2>3, <3>1, WayBack DEF TreeOfBlueprints
    <3>3. PICK d \in Range(nested[a]) : d[1] = c /\ \E p \in d[2] : r = s \o p
      BY <3>2 DEF Leads
    <3>4. c # App /\ parent[c] = a
      BY <3>3, NestMembers DEF TreeOfBlueprints, Linked
    <3>5. l \in 0 .. m - 1
      BY <1>1, <3>2
    <3>6. Near(m - 1, a, s)
      BY <3>2, <3>5
    <3> HIDE DEF Near
    <3> QED
      BY <3>3, <3>4, <3>6
  <2> QED
    BY <2>2, <2>3
<1> HIDE DEF Near, N
<1> DEFINE T == {m \in 0 .. N : \A c \in All : \A r : Near(m, c, r) => r \in f[m][c]}
<1>6. 0 \in T
  <2>1. 0 \in 0 .. N /\ f[0][App] = {<<>>}
    BY <1>1, <1>2, Names
  <2> QED
    BY <1>4, <2>1
<1>7. ASSUME NEW m \in 1 .. N, m - 1 \in T
      PROVE  m \in T
  <2>1. m \in 0 .. N
    BY <1>1
  <2>2. \A c \in All : \A r : Near(m - 1, c, r) => r \in f[m - 1][c]
    BY <1>7
  <2>3. ASSUME NEW c \in All, NEW r, Near(m, c, r)
        PROVE  r \in MountsFrom(c, f[m - 1])
    <3> HIDE DEF Nearer
    <3>0. \/ c = App /\ r = <<>>
          \/ Nearer(m, c, r)
      BY <1>5, <2>3
    <3>1. CASE c = App /\ r = <<>>
      BY <3>1 DEF MountsFrom
    <3>2. CASE Nearer(m, c, r)
      <4> USE DEF Nearer
      <4>0. PICK s : \E d \in Range(nested[parent[c]]) : \E p \in d[2] :
                Near(m - 1, parent[c], s) /\ d[1] = c /\ r = s \o p
        BY <3>2
      <4> PICK d \in Range(nested[parent[c]]) : \E p \in d[2] :
                Near(m - 1, parent[c], s) /\ d[1] = c /\ r = s \o p
        BY <4>0
      <4>1. PICK p \in d[2] : Near(m - 1, parent[c], s) /\ d[1] = c /\ r = s \o p
        OBVIOUS
      <4>2. s \in f[m - 1][parent[c]]
        BY <2>2, <3>2, <4>1
      <4>3. parent[c] # None
        BY <3>2, NamesAssumption
      <4> QED
        BY <3>2, <4>1, <4>2, <4>3, InMountsFrom
    <3> QED
      BY <3>0, <3>1, <3>2
  <2> QED
    BY <1>2, <2>1, <2>3
<1>8. N \in T
  <2> HIDE DEF T
  <2>1. \A m \in 0 .. N : m \in T
    BY <1>1, <1>6, <1>7, UpTo
  <2> QED
    BY <1>1, <2>1
<1>9. b \in All
  BY WayType
<1> QED
  BY <1>2, <1>3, <1>8, <1>9

LEMMA JoinedPrefixes ==
    ASSUME NEW s \in Prefix, NEW t \in Prefix
    PROVE  /\ s \o t \in Prefix
           /\ s \o <<>> = s /\ <<>> \o s = s /\ <<>> \in Prefix
BY ConcatProperties, ConcatEmptySeq DEF Prefix

LEMMA Regrouped ==
    ASSUME NEW s \in Prefix, NEW t \in Prefix, NEW u \in Prefix
    PROVE  (s \o t) \o u = s \o (t \o u)
BY ConcatAssociative DEF Prefix

(* A way leads to a blueprint that declared the route and makes the prefix. *)
IsReached(nest, r, q) == \E b \in All : r \in routes[b] /\ \E n \in Nat : Way(nest, n, b, q)

(* What is mounted for a blueprint, put at the end of a way to it, is the   *)
(* end of a way.                                                            *)
LEMMA MountedIsReached ==
    ASSUME IsTree(nested), NEW nest, IsTree(nest),
           \A a \in All : Range(nested[a]) \subseteq Range(nest[a]),
           NEW c \in All, NEW k \in Nat, NEW q, Way(nest, k, c, q), NEW x \in Mounted(c)
    PROVE  /\ x = <<x[1], x[2]>> /\ x[2] \in Prefix
           /\ IsReached(nest, x[1], q \o x[2])
<1> DEFINE N == Cardinality(All)
           Led(a, s) == \E l \in Nat : Way(nest, l, a, s)
<1>1. N \in Nat
  BY AllCounted
<1>2. PICK f \in [0 .. N -> MountedType] :
          /\ \A a \in All : f[0][a] = {}
          /\ \A n \in 1 .. N : \A a \in All : f[n][a] = MountedFrom(a, f[n - 1])
          /\ \A b \in All : Mounted(b) = f[N][b]
  BY MountedSteps
<1>3. Led(c, q)
  OBVIOUS
<1>4. ASSUME NEW a \in All, NEW s, Led(a, s)
      PROVE  /\ s \in Prefix
             /\ \A r \in routes[a] : IsReached(nest, r, s)
             /\ \A d \in Range(nested[a]) : \A p \in d[2] :
                   d[1] \in All /\ p \in Prefix /\ Led(d[1], s \o p)
  <2>1. PICK l \in Nat : Way(nest, l, a, s)
    BY <1>4
  <2>2. ASSUME NEW d \in Range(nested[a]), NEW p \in d[2]
        PROVE  d[1] \in All /\ p \in Prefix /\ Led(d[1], s \o p)
    <3>1. d \in Range(nest[a])
      OBVIOUS
    <3>2. Way(nest, l + 1, d[1], s \o p)
      BY <2>1, <3>1, WayMore
    <3>3. l + 1 \in Nat
      OBVIOUS
    <3> QED
      BY <3>2, <3>3, NestMembers
  <2> QED
    BY <2>1, <2>2, WayType DEF IsReached
<1> HIDE DEF Led
<1> DEFINE T == {m \in 0 .. N : \A a \in All : \A s : \A y \in f[m][a] :
                     Led(a, s) => IsReached(nest, y[1], s \o y[2])}
<1>5. 0 \in T
  BY <1>1, <1>2
<1>6. ASSUME NEW m \in 1 .. N, m - 1 \in T
      PROVE  m \in T
  <2> DEFINE lower == f[m - 1]
  <2>1. m \in 0 .. N /\ lower \in MountedType
    <3>1. m \in 0 .. N /\ m - 1 \in 0 .. N
      BY <1>1
    <3> QED
      BY <3>1
  <2>2. \A a \in All : \A s : \A y \in lower[a] : Led(a, s) => IsReached(nest, y[1], s \o y[2])
    BY <1>6
  <2>3. \A a \in All : f[m][a] = MountedFrom(a, lower)
    BY <1>2
  <2> HIDE DEF lower
  <2>4. ASSUME NEW a \in All, NEW s, Led(a, s), NEW y \in MountedFrom(a, lower)
        PROVE  IsReached(nest, y[1], s \o y[2])
    <3>1. ASSUME NEW r \in routes[a], y = <<r, <<>>>>
          PROVE  IsReached(nest, y[1], s \o y[2])
      <4>1. y[1] = r /\ s \o y[2] = s
        BY <1>4, <2>4, <3>1, JoinedPrefixes
      <4> QED
        BY <1>4, <2>4, <4>1
    <3>2. ASSUME NEW d \in Range(nested[a]), NEW z \in lower[d[1]], NEW p \in d[2],
                 y = <<z[1], p \o z[2]>>
          PROVE  IsReached(nest, y[1], s \o y[2])
      <4>1. s \in Prefix /\ d[1] \in All /\ p \in Prefix /\ Led(d[1], s \o p)
        BY <1>4, <2>4
      <4>2. z[2] \in Prefix
        BY <2>1, <4>1 DEF MountedType
      <4>3. IsReached(nest, z[1], (s \o p) \o z[2])
        BY <2>2, <4>1
      <4>4. y[1] = z[1] /\ y[2] = p \o z[2]
        BY <3>2
      <4>5. (s \o p) \o z[2] = s \o (p \o z[2])
        BY <4>1, <4>2, Regrouped
      <4> QED
        BY <4>3, <4>4, <4>5
    <3>3. OwnOrUnder(a, lower, y)
      BY <2>4, InMountedFrom
    <3> QED
      BY <3>1, <3>2, <3>3 DEF OwnOrUnder
  <2> QED
    BY <2>1, <2>3, <2>4
<1>7. N \in T
  <2> HIDE DEF T, N
  <2>1. \A n \in 0 .. N : n \in T
    BY <1>1, <1>5, <1>6, UpTo
  <2> QED
    BY <1>1, <2>1
<1>8. x \in f[N][c]
  BY <1>2
<1>9. x \in (UNION {routes[a] : a \in All}) \X Prefix
  <2>1. f[N] \in MountedType
    BY <1>1
  <2> QED
    BY <1>8, <2>1 DEF MountedType
<1> HIDE DEF N
<1> QED
  BY <1>3, <1>7, <1>8, <1>9

(* A route of a blueprint is mounted at the end of every way to it. *)
LEMMA ReachedIsMounted ==
    ASSUME TreeOfBlueprints, NEW n \in Nat, NEW b, NEW q, Way(nested, n, b, q), NEW r \in routes[b]
    PROVE  <<r, q>> \in Mounted(App)
<1> DEFINE N == Cardinality(All)
<1>1. N \in Nat /\ n < N /\ n \in 0 .. N
  BY AllCounted, WayShort DEF TreeOfBlueprints
<1>2. PICK f \in [0 .. N -> MountedType] :
          /\ \A a \in All : f[0][a] = {}
          /\ \A m \in 1 .. N : \A a \in All : f[m][a] = MountedFrom(a, f[m - 1])
          /\ \A a \in All : Mounted(a) = f[N][a]
  BY MountedSteps DEF TreeOfBlueprints
<1> HIDE DEF N
(* What lies m levels below c lies k levels more below the application. *)
<1> DEFINE Far(k, m, c, s) ==
               \A x \in f[m][c] : <<x[1], s \o x[2]>> \in f[m + k][App]
           T == {k \in 0 .. N : \A m \in 0 .. N : \A c \in All : \A s :
                    m + k \in 0 .. N /\ Way(nested, k, c, s) => Far(k, m, c, s)}
<1>3. 0 \in T
  <2>1. ASSUME NEW m \in 0 .. N, NEW c \in All, NEW s, Way(nested, 0, c, s)
        PROVE  Far(0, m, c, s)
    <3>1. c = App /\ s = <<>> /\ m + 0 = m
      BY <2>1, WayZero
    <3>2. ASSUME NEW x \in f[m][App]
          PROVE  <<x[1], <<>> \o x[2]>> = x
      <4>1. x \in (UNION {routes[a] : a \in All}) \X Prefix
        BY Names DEF MountedType
      <4> QED
        BY <4>1, JoinedPrefixes
    <3> QED
      BY <3>1, <3>2
  <2> HIDE DEF Far
  <2> QED
    BY <1>1, <2>1
<1>4. ASSUME NEW k \in 1 .. N, k - 1 \in T
      PROVE  k \in T
  <2>1. ASSUME NEW m \in 0 .. N, NEW c \in All, NEW s, m + k \in 0 .. N, Way(nested, k, c, s),
               NEW x \in f[m][c]
        PROVE  <<x[1], s \o x[2]>> \in f[m + k][App]
    <3>1. k \in Nat /\ k # 0
      BY <1>1
    <3>2. PICK l \in Nat, a \in All, t \in Prefix :
             k = l + 1 /\ Way(nested, l, a, t) /\ Leads(nested, a, c, t, s)
      BY <2>1, <3>1, WayBack DEF TreeOfBlueprints
    <3>3. PICK d \in Range(nested[a]) : d[1] = c /\ \E p \in d[2] : s = t \o p
      BY <3>2 DEF Leads
    <3>4. PICK p \in d[2] : s = t \o p
      BY <3>3
    <3>5. p \in Prefix
      BY <3>3, NestMembers DEF TreeOfBlueprints
    <3>6. x[2] \in Prefix
      BY DEF MountedType
    <3> DEFINE y == <<x[1], p \o x[2]>>
               h == m + 1
    <3>7. /\ h \in 1 .. N /\ h \in 0 .. N /\ h - 1 = m /\ k - 1 = l
          /\ h + l = m + k
      BY <1>1, <2>1, <3>2
    <3>8. y \in f[h][a]
      <4>1. f[h][a] = MountedFrom(a, f[m])
        BY <1>2, <3>7
      <4>2. x \in f[m][d[1]] /\ p \in d[2]
        BY <2>1, <3>3, <3>4
      <4>3. y \in MountedFrom(a, f[m])
        BY <3>3, <4>2, InMountedFrom DEF OwnOrUnder
      <4> QED
        BY <4>1, <4>3
    <3>9. Far(l, h, a, t)
      <4> HIDE DEF Far, h, y
      <4>1. l \in T
        BY <1>4, <3>7
      <4>2. h + l \in 0 .. N
        BY <2>1, <3>7
      <4> QED
        BY <3>2, <3>7, <4>1, <4>2
    <3>10. <<y[1], t \o y[2]>> \in f[m + k][App]
      BY <3>7, <3>8, <3>9
    <3>11. y[1] = x[1] /\ t \o y[2] = s \o x[2]
      <4>1. (t \o p) \o x[2] = t \o (p \o x[2])
        BY <3>2, <3>5, <3>6, Regrouped
      <4> QED
        BY <3>4, <4>1
    <3> QED
      BY <3>10, <3>11
  <2>2. k \in 0 .. N
    BY <1>1
  <2> QED
    BY <2>1, <2>2
<1>5. n \in T
  <2> HIDE DEF T
  <2>1. \A m \in 0 .. N : m \in T
    BY <1>1, <1>3, <1>4, UpTo
  <2> QED
    BY <1>1, <2>1
<1> DEFINE m == N - n
<1>6. m \in 1 .. N /\ m \in 0 .. N /\ m + n = N /\ m + n \in 0 .. N
  BY <1>1
<1> HIDE DEF m
<1>7. b \in All /\ q \in Prefix
  BY WayType
<1>8. <<r, <<>>>> \in f[m][b]
  <2>1. f[m][b] = MountedFrom(b, f[m - 1])
    BY <1>2, <1>6, <1>7
  <2> QED
    BY <2>1, InMountedFrom DEF OwnOrUnder
<1>9. Far(n, m, b, q)
  <2> HIDE DEF Far
  <2> QED
    BY <1>5, <1>6, <1>7
<1>10. <<r, q \o <<>>>> \in f[N][App]
  <2>1. \A x \in f[m][b] : <<x[1], q \o x[2]>> \in f[N][App]
    BY <1>6, <1>9
  <2> QED
    BY <1>8, <2>1
<1>11. q \o <<>> = q /\ Mounted(App) = f[N][App]
  BY <1>2, <1>7, JoinedPrefixes, Names
<1> QED
  BY <1>10, <1>11

-----------------------------------------------------------------------------
(* Steps that hold on to what is declared. *)

Hooked == Structure /\ Filed /\ Once /\ Untouched

(* What users declare. *)
LEMMA DeclaredHooks ==
    ASSUME Structure, NEW h \in setting.hooks
    PROVE  h \in AnyHook /\ h.event \in Events /\ h \notin {SessionStart, FlushSession}
BY SettingsAssumption DEF Structure, AnyHook

LEMMA FiledMonotone ==
    ASSUME NEW t, NEW known, IsFiled(t, known), NEW more, known \subseteq more
    PROVE  IsFiled(t, more)
BY DEF IsFiled

(* A hook that was declared is held at home and nowhere else. *)
LEMMA HeldAtHome ==
    ASSUME Hooked, NEW d \in declared, NEW b \in All
    PROVE  Contains(Held(b, d.hook.event), d.hook) <=> b = Home(d)
<1> DEFINE list == Held(b, d.hook.event)
<1>1. IsTable(hooks[b]) /\ IsFiled(hooks[b], {SessionStart, FlushSession} \cup {o.hook : o \in declared})
  BY DEF Hooked, Structure, Filed
<1>2. list = HeldIn(hooks[b], d.hook.event)
  BY DEF Held
<1>3. list \in Seq(AnyHook)
  BY <1>1, <1>2, HeldMembers
<1>4. DOMAIN list = 1 .. Len(list)
  BY <1>3, LenProperties
<1> HIDE DEF list
<1>5. CASE b = Home(d)
  <2>1. Single(list, d.hook)
    BY <1>1, <1>2, <1>5, HeldCounts DEF Hooked, Once
  <2> QED
    BY <1>4, <1>5, <2>1 DEF Single, Contains, list
<1>6. CASE b # Home(d)
  <2>1. Absent(list, d.hook)
    BY <1>1, <1>2, <1>6, HeldCounts DEF Hooked, Once
  <2> QED
    BY <1>4, <1>6, <2>1 DEF Absent, Contains, list
<1> QED
  BY <1>5, <1>6

LEMMA HomeIsBlueprint ==
    ASSUME Structure, NEW d \in declared
    PROVE  Home(d) \in All
BY Names DEF Structure, Home

(* A hook is added to one blueprint: everything that was declared before    *)
(* stays where it is.                                                       *)
LEMMA OneHookMore ==
    ASSUME Hooked, NEW b \in All, NEW x \in AnyHook,
           x.event \in DOMAIN hooks[b][Kind(x)],
           hooks' = [hooks EXCEPT ![b] = AddHook(@, x)],
           parent' = parent, declared \subseteq declared',
           x \in {SessionStart, FlushSession} \cup {d.hook : d \in declared'},
           \A d \in declared : d.hook # x
    PROVE  /\ hooks' = [c \in All |-> hooks'[c]] /\ \A c \in All : IsTable(hooks'[c])
           /\ \A c \in All :
                 IsFiled(hooks'[c], {SessionStart, FlushSession} \cup {d.hook : d \in declared'})
           /\ \A d \in declared, c \in All :
                 IF c = Home(d)' THEN Has(hooks'[c], d.hook) ELSE Lacks(hooks'[c], d.hook)
           /\ \A c \in All, k \in Kinds : DOMAIN hooks'[c][k] = DOMAIN hooks[c][k]
           /\ \A c \in All : \A e, h : Contains(HeldIn(hooks'[c], e), h) =>
                 h = x \/ Contains(HeldIn(hooks[c], e), h)
<1> DEFINE t == hooks[b]
           u == AddHook(t, x)
           known == {SessionStart, FlushSession} \cup {d.hook : d \in declared}
           more == {SessionStart, FlushSession} \cup {d.hook : d \in declared'}
<1>1. \A c \in All : IsTable(hooks[c]) /\ IsFiled(hooks[c], known)
  BY DEF Hooked, Structure, Filed
<1>2. known \subseteq more /\ known \cup {x} \subseteq more
  OBVIOUS
<1> HIDE DEF known, more
<1>3. /\ IsTable(u) /\ IsFiled(u, known \cup {x})
      /\ \A k \in Kinds : DOMAIN u[k] = DOMAIN t[k]
      /\ \A h : h # x => /\ Has(t, h) => Has(u, h)
                         /\ Lacks(t, h) => Lacks(u, h)
      /\ \A e, h : Contains(HeldIn(u, e), h) => h = x \/ Contains(HeldIn(t, e), h)
  BY <1>1, AddHookCounts
<1>4. hooks = [c \in All |-> hooks[c]]
  BY DEF Hooked, Structure
<1>5. /\ hooks' = [c \in All |-> hooks'[c]]
      /\ hooks'[b] = u
      /\ \A c \in All : c # b => hooks'[c] = hooks[c]
  BY <1>4
<1> HIDE DEF u
<1>6. ASSUME NEW c \in All
      PROVE  IsTable(hooks'[c]) /\ IsFiled(hooks'[c], more)
  <2>1. CASE c = b
    BY <1>2, <1>3, <1>5, <2>1, FiledMonotone
  <2>2. CASE c # b
    BY <1>1, <1>2, <1>5, <2>2, FiledMonotone
  <2> QED
    BY <2>1, <2>2
<1>7. ASSUME NEW d \in declared
      PROVE  Home(d)' = Home(d)
  BY DEF Home
<1>8. ASSUME NEW d \in declared, NEW c \in All
      PROVE  IF c = Home(d) THEN Has(hooks'[c], d.hook) ELSE Lacks(hooks'[c], d.hook)
  <2>1. IF c = Home(d) THEN Has(hooks[c], d.hook) ELSE Lacks(hooks[c], d.hook)
    BY DEF Hooked, Once
  <2>2. d.hook # x
    OBVIOUS
  <2>3. /\ Has(hooks[c], d.hook) => Has(hooks'[c], d.hook)
        /\ Lacks(hooks[c], d.hook) => Lacks(hooks'[c], d.hook)
    BY <1>3, <1>5, <2>2
  <2> QED
    BY <2>1, <2>3
<1>9. \A c \in All, k \in Kinds : DOMAIN hooks'[c][k] = DOMAIN hooks[c][k]
  BY <1>3, <1>5
<1>10. \A c \in All : \A e, h : Contains(HeldIn(hooks'[c], e), h) => h = x \/ Contains(HeldIn(hooks[c], e), h)
  BY <1>3, <1>5
<1> QED
  BY <1>5, <1>6, <1>7, <1>8, <1>9, <1>10 DEF more

(* Nothing that is held or declared changes. *)
LEMMA NoHookMore ==
    ASSUME Hooked, setting' = setting, parent' = parent, nested' = nested,
           hooks' = hooks, declared' = declared
    PROVE  Hooked'
<1>1. Structure'
  BY DEF Hooked, Structure
<1>2. Filed'
  BY DEF Hooked, Filed
<1>3. Untouched'
  BY DEF Hooked, Untouched
<1>4. ASSUME NEW d \in declared
      PROVE  Home(d)' = Home(d)
  BY DEF Home
<1>5. Once'
  BY <1>4 DEF Hooked, Once
<1> QED
  BY <1>1, <1>2, <1>3, <1>5 DEF Hooked

(* ... and a hook of the server is added. *)
LEMMA ServerHookMore ==
    ASSUME Hooked, NEW x \in {SessionStart, FlushSession},
           x.event \in DOMAIN hooks[App][Kind(x)],
           hooks' = [hooks EXCEPT ![App] = AddHook(@, x)],
           setting' = setting, parent' = parent, nested' = nested, declared' = declared
    PROVE  Hooked'
<1>1. \A d \in declared : d.hook \in setting.hooks
  BY DEF Hooked, Structure
<1>2. \A d \in declared : d.hook # x
  BY <1>1, DeclaredHooks DEF Hooked
<1>3. x \in AnyHook
  BY DEF AnyHook
<1>4. /\ hooks' = [c \in All |-> hooks'[c]] /\ \A c \in All : IsTable(hooks'[c])
      /\ \A c \in All :
            IsFiled(hooks'[c], {SessionStart, FlushSession} \cup {d.hook : d \in declared'})
      /\ \A d \in declared, c \in All :
            IF c = Home(d)' THEN Has(hooks'[c], d.hook) ELSE Lacks(hooks'[c], d.hook)
      /\ \A c \in All, k \in Kinds : DOMAIN hooks'[c][k] = DOMAIN hooks[c][k]
  BY <1>2, <1>3, Names, OneHookMore
<1>5. Structure'
  BY <1>4 DEF Hooked, Structure
<1>6. Filed'
  BY <1>4 DEF Hooked, Filed
<1>7. Once'
  BY <1>4 DEF Once
<1>8. Untouched'
  BY <1>4 DEF Hooked, Untouched
<1> QED
  BY <1>5, <1>6, <1>7, <1>8 DEF Hooked

LEMMA HookedFromIInv ==
    ASSUME IInv
    PROVE  Hooked
BY DEF IInv, Hooked

(* Before a connection is accepted no endpoint has returned. *)
LEMMA NothingServed ==
    ASSUME IInv, conn = None \/ phase # "serving"
    PROVE  conn = None /\ ~last.returned
BY DEF IInv, Accepted

(* The owner of a route depends on the routes of the blueprints alone. *)
OwnerIn(mounted, r) == CHOOSE b \in All : r \in mounted[b]

LEMMA SameOwner ==
    ASSUME routes' = routes, last' = last
    PROVE  Owner(last.route)' = Owner(last.route)
<1>1. Owner(last.route) = OwnerIn(routes, last.route)
  BY DEF Owner, OwnerIn
<1>2. Owner(last.route)' = OwnerIn(routes', last'.route)
  BY DEF Owner, OwnerIn
<1> QED
  BY <1>1, <1>2

LEMMA OwnerIsBlueprint ==
    ASSUME IInv, last.returned
    PROVE  Owner(last.route) \in All
<1>1. PICK b \in All : last.route \in routes[b]
  BY DEF IInv, Accepted
<1> QED
  BY <1>1 DEF Owner

LEMMA QuietStep ==
    ASSUME Hooked', Known', conn' = None, ~last'.returned
    PROVE  IInv'
<1>1. Accepted'
  BY DEF Accepted
<1>2. Guarded'
  BY DEF Guarded
<1>3. SessionFlushed'
  BY DEF SessionFlushed
<1> QED
  BY <1>1, <1>2, <1>3 DEF IInv, Hooked

-----------------------------------------------------------------------------
(* Declarations. *)

LEMMA InitIsFine ==
    ASSUME Init
    PROVE  IInv
<1> USE DEF Init
<1>1. setting \in Settings /\ parent[App] = None /\ \A b \in All : parent[b] = None
  BY Names
<1>2. ASSUME NEW b \in All
      PROVE  /\ IsTable(hooks[b])
             /\ \A k \in Kinds : DOMAIN hooks[b][k] = Events
             /\ \A k \in Kinds, e \in Events : hooks[b][k][e] = <<>>
  <2>1. hooks[b] = [k \in Kinds |-> [e \in Events |-> <<>>]]
    OBVIOUS
  <2>2. [e \in Events |-> <<>>] \in [Events -> Seq(AnyHook)]
    OBVIOUS
  <2> QED
    BY <2>1, <2>2 DEF IsTable
<1>3. Structure
  BY <1>1, <1>2 DEF Structure
<1>4. Filed
  BY <1>2 DEF Filed, IsFiled
<1>5. Once /\ Untouched
  BY <1>2 DEF Once, Untouched
<1>6. Known
  BY <1>1, Names DEF Known, Range
<1>7. Accepted /\ Guarded /\ SessionFlushed
  BY DEF Accepted, Guarded, SessionFlushed, NoRequest
<1> QED
  BY <1>3, <1>4, <1>5, <1>6, <1>7 DEF IInv

LEMMA HandleKeeps ==
    ASSUME IInv, setting' = setting, NEW b \in All, NEW h \in setting.hooks, Handle(b, h)
    PROVE  IInv'
<1> DEFINE known == {SessionStart, FlushSession} \cup {d.hook : d \in declared}
<1>0. PICK new : new = [at |-> b, hook |-> h, late |-> parent[b] # None]
  OBVIOUS
<1>1. /\ h.event \in DOMAIN hooks[b][Kind(h)]
      /\ hooks' = [hooks EXCEPT ![b] = AddHook(@, h)]
      /\ declared' = declared \cup {new}
      /\ parent' = parent /\ nested' = nested /\ routes' = routes /\ table' = table
      /\ phase' = phase /\ conn' = conn /\ last' = last
      /\ \A d \in declared : d.hook # h
  BY <1>0 DEF Handle, Declare
<1>2. Hooked /\ Structure
  BY HookedFromIInv DEF IInv
<1>3. h \in AnyHook /\ h.event \in Events /\ h \notin {SessionStart, FlushSession}
  BY <1>2, DeclaredHooks
<1>4. h \notin known
  BY <1>1, <1>3
<1>5. new.hook = h /\ new.at = b /\ (new.late <=> parent[b] # None)
  BY <1>0
<1>6. new \in [at : All, hook : setting.hooks, late : BOOLEAN]
  BY <1>0
<1>7. \A c \in All : IsTable(hooks[c]) /\ IsFiled(hooks[c], known)
  BY <1>2 DEF Hooked, Structure, Filed
<1> HIDE DEF known
<1>8. /\ hooks' = [c \in All |-> hooks'[c]] /\ \A c \in All : IsTable(hooks'[c])
      /\ \A c \in All :
            IsFiled(hooks'[c], {SessionStart, FlushSession} \cup {d.hook : d \in declared'})
      /\ \A d \in declared, c \in All :
            IF c = Home(d)' THEN Has(hooks'[c], d.hook) ELSE Lacks(hooks'[c], d.hook)
      /\ \A c \in All, k \in Kinds : DOMAIN hooks'[c][k] = DOMAIN hooks[c][k]
      /\ \A c \in All : \A e, g : Contains(HeldIn(hooks'[c], e), g) =>
            g = h \/ Contains(HeldIn(hooks[c], e), g)
  <2>1. h \in {SessionStart, FlushSession} \cup {d.hook : d \in declared'}
    BY <1>1, <1>5
  <2> QED
    BY <1>1, <1>2, <1>3, <2>1, OneHookMore
<1>9. ASSUME NEW c \in All
      PROVE  Lacks(hooks[c], h)
  BY <1>4, <1>7, KindIsKind DEF Lacks, Absent, IsFiled
<1>10. \A c \in All : IF c = b THEN Has(hooks'[c], h) ELSE Lacks(hooks'[c], h)
  <2>1. hooks'[b] = AddHook(hooks[b], h) /\ \A c \in All : c # b => hooks'[c] = hooks[c]
    BY <1>1, <1>2 DEF Structure
  <2>2. Has(AddHook(hooks[b], h), h)
    BY <1>1, <1>3, <1>7, <1>9, AddHookCounts
  <2> QED
    BY <1>9, <2>1, <2>2
<1>11. Home(new)' = b
  <2>1. ~(~new.late /\ parent'[new.at] = App)
    BY <1>1, <1>5, Names
  <2> QED
    BY <1>5, <2>1 DEF Home
<1>12. Structure'
  BY <1>1, <1>2, <1>6, <1>8 DEF Structure
<1>13. Filed'
  <2>1. \A d, o \in declared : d.hook = o.hook => d = o
    BY DEF IInv, Filed
  <2>2. \A d, o \in declared' : d.hook = o.hook => d = o
    BY <1>1, <1>5, <2>1
  <2> QED
    BY <1>8, <2>2 DEF Filed
<1>14. Once'
  <2>1. ASSUME NEW d \in declared', NEW c \in All
        PROVE  IF c = Home(d)' THEN Has(hooks'[c], d.hook) ELSE Lacks(hooks'[c], d.hook)
    <3>1. CASE d \in declared
      BY <1>8, <3>1
    <3>2. CASE d = new
      BY <1>5, <1>10, <1>11, <3>2
    <3> QED
      BY <1>1, <3>1, <3>2
  <2> QED
    BY <2>1 DEF Once
<1>15. Untouched'
  BY <1>1, <1>5, <1>8 DEF IInv, Untouched
<1>16. Known'
  BY <1>1 DEF IInv, Known
<1>17. ~Contains(HeldIn(hooks[App], "after"), FlushSession)
          => ~Contains(HeldIn(hooks'[App], "after"), FlushSession)
  BY <1>3, <1>8, Names
<1>18. Accepted'
  <2>1. \A d : Home(d)' = Home(d)
    BY <1>1 DEF Home
  <2>2. CASE conn = None
    BY <1>1, <2>2 DEF IInv, Accepted
  <2>3. CASE conn # None
    <3>1. /\ phase' = "serving" /\ conn'.known \subseteq declared'
          /\ last'.returned => \E c \in All : last'.route \in routes'[c]
      BY <1>1, <2>3 DEF IInv, Accepted
    <3>2. \A d \in conn'.known :
             Home(d)' = App \/ parent'[Home(d)'] = App => d.hook.event \in conn'.flags
      BY <1>1, <2>1, <2>3 DEF IInv, Accepted
    <3>3. Contains(Held(App, "after")', FlushSession) => "after" \in conn'.flags
      BY <1>1, <1>17, <2>3 DEF IInv, Accepted, Held
    <3> QED
      BY <1>1, <2>3, <3>1, <3>2, <3>3 DEF Accepted
  <2> QED
    BY <2>2, <2>3
<1>19. Guarded'
  <2> SUFFICES ASSUME last'.returned, NEW d \in conn'.known
               PROVE  LET o == Owner(last.route)'
                          scope == {App} \cup (IF o = App \/ parent'[o] = App THEN {o} ELSE {})
                      IN /\ d.hook.event = "before"
                         /\ \E s \in scope : Contains(Held(s, "before")', d.hook)
                         => Contains(last'.ran, d.hook)
    BY DEF Guarded
  <2>1. d \in declared /\ d.hook # h
    BY <1>1 DEF IInv, Accepted
  <2>2. Owner(last.route)' = Owner(last.route)
    BY <1>1, SameOwner
  <2> DEFINE o == Owner(last.route)
             scope == {App} \cup (IF o = App \/ parent[o] = App THEN {o} ELSE {})
  <2>3. ASSUME d.hook.event = "before", NEW s \in scope, Contains(HeldIn(hooks'[s], "before"), d.hook)
        PROVE  Contains(last.ran, d.hook)
    <3>1. s \in All
      BY <1>1, Names, OwnerIsBlueprint
    <3>2. Contains(HeldIn(hooks[s], "before"), d.hook)
      BY <1>8, <2>1, <2>3, <3>1
    <3> QED
      BY <1>1, <2>3, <3>2 DEF IInv, Guarded, Held
  <2> HIDE DEF o
  <2>4. Owner(last.route)' = o
    BY <2>2 DEF o
  <2> QED
    BY <1>1, <2>3, <2>4 DEF Held
<1>20. SessionFlushed'
  BY <1>1, <1>17 DEF IInv, SessionFlushed, Held
<1> QED
  BY <1>12, <1>13, <1>14, <1>15, <1>16, <1>18, <1>19, <1>20 DEF IInv

(* The exception handlers are in none of these properties. *)
LEMMA CatchKeeps ==
    ASSUME IInv, setting' = setting, NEW b \in All, NEW c, Catch(b, c)
    PROVE  IInv'
<1>1. /\ phase = "declaring" /\ declared' = declared /\ UNCHANGED <<parent, nested, hooks, routes>>
      /\ table' = table /\ conn' = conn /\ last' = last
  BY DEF Catch, Declare
<1>2. Hooked'
  BY <1>1, HookedFromIInv, NoHookMore
<1>3. Known'
  BY <1>1 DEF IInv, Known
<1> QED
  BY <1>1, <1>2, <1>3, NothingServed, QuietStep

LEMMA RouteKeeps ==
    ASSUME IInv, setting' = setting, NEW b \in All, NEW r, Route(b, r)
    PROVE  IInv'
<1>1. /\ phase = "declaring" /\ declared' = declared /\ UNCHANGED <<parent, nested, hooks>>
      /\ table' = table /\ conn' = conn /\ last' = last
      /\ routes' = [routes EXCEPT ![b] = @ \cup {r}]
  BY DEF Route, Declare
<1>2. Hooked'
  BY <1>1, HookedFromIInv, NoHookMore
<1>3. Known'
  <2>1. routes = [c \in All |-> routes[c]]
    BY DEF IInv, Known
  <2>2. \A c \in All : routes[c] \subseteq routes'[c]
    BY <1>1, <2>1
  <2>3. routes' = [c \in All |-> routes'[c]]
    BY <1>1, <2>1
  <2> QED
    BY <1>1, <2>2, <2>3 DEF IInv, Known
<1> QED
  BY <1>1, <1>2, <1>3, NothingServed, QuietStep

(* A blueprint in a blueprint: what it holds stays its own. *)
LEMMA NestKeeps ==
    ASSUME IInv, setting' = setting, NEW b \in Blueprints, NEW c \in Blueprints,
           NEW prefixes \in PrefixSets, Nest(b, c, prefixes)
    PROVE  IInv'
<1>1. /\ phase = "declaring" /\ parent[c] = None /\ declared' = declared
      /\ parent' = [parent EXCEPT ![c] = b]
      /\ nested' = [nested EXCEPT ![b] = Append(@, <<c, prefixes>>)]
      /\ UNCHANGED <<hooks, routes, table, conn, last>>
  BY DEF Nest, Adopt, MayNest, Declare
<1>2. b \in All /\ c \in All /\ b # App /\ c # App /\ App \in All /\ None # App /\ b # None
  BY Names
<1>3. Structure /\ Filed /\ Once /\ Untouched /\ Known
  BY DEF IInv
<1>4. /\ parent' \in [All -> All \cup {None}]
      /\ parent'[c] = b
      /\ \A x \in All : x # c => parent'[x] = parent[x]
  BY <1>1, <1>2, <1>3 DEF Structure
<1>5. nested' \in [All -> Seq(Blueprints \X PrefixSets)] /\ nested'[App] = nested[App]
  BY <1>1, <1>2, <1>3 DEF Structure
<1>6. \A d \in declared : d.at \in All /\ Home(d)' = Home(d)
  BY <1>1, <1>2, <1>3, <1>4 DEF Structure, Home
<1>7. Structure'
  BY <1>1, <1>2, <1>3, <1>4, <1>5 DEF Structure
<1>8. Filed'
  BY <1>1, <1>3 DEF Filed
<1>9. Once'
  BY <1>1, <1>3, <1>6 DEF Once
<1>10. Untouched'
  <2>1. \A x \in All, k \in Kinds : parent'[x] # App => DOMAIN hooks'[x][k] = Events
    BY <1>1, <1>2, <1>3, <1>4 DEF Untouched
  <2>2. \A d \in declared' : d.late => parent'[d.at] # None
    BY <1>1, <1>2, <1>3, <1>4, <1>6 DEF Untouched
  <2> QED
    BY <2>1, <2>2 DEF Untouched
<1>11. Known'
  <2>1. \A x \in All : parent'[x] = App <=> parent[x] = App
    BY <1>1, <1>2, <1>4
  <2> QED
    BY <1>1, <1>3, <1>5, <2>1 DEF Known
<1>12. Hooked'
  BY <1>7, <1>8, <1>9, <1>10 DEF Hooked
<1> QED
  BY <1>1, <1>11, <1>12, NothingServed, QuietStep

(* A blueprint in the application: what it holds for other requests moves.  *)
LEMMA AddBlueprintKeeps ==
    ASSUME IInv, setting' = setting, NEW c \in Blueprints,
           NEW prefixes \in PrefixSets, AddBlueprint(c, prefixes)
    PROVE  IInv'
<1> DEFINE known == {SessionStart, FlushSession} \cup {d.hook : d \in declared}
<1>1. /\ phase = "declaring" /\ parent[c] = None /\ declared' = declared
      /\ parent' = [parent EXCEPT ![c] = App]
      /\ nested' = [nested EXCEPT ![App] = Append(@, <<c, prefixes>>)]
      /\ UNCHANGED <<routes, conn, last>>
  BY DEF AddBlueprint, Adopt, MayNest, Declare
<1>2. c \in All /\ c # App /\ App \in All /\ None # App
  BY Names
<1>3. Structure /\ Filed /\ Once /\ Untouched /\ Known
  BY DEF IInv
<1>4. /\ parent' \in [All -> All \cup {None}]
      /\ parent'[c] = App
      /\ \A x \in All : x # c => parent'[x] = parent[x]
  BY <1>1, <1>2, <1>3 DEF Structure
<1>5. /\ hooks' = [x \in All |-> hooks'[x]]
      /\ hooks'[App] = Given(hooks[App], hooks[c])
      /\ hooks'[c] = Left(hooks[c])
      /\ \A x \in All : x # c /\ x # App => hooks'[x] = hooks[x]
  <2>1. hooks' = [hooks EXCEPT ![App] = Given(hooks[App], hooks[c]), ![c] = Left(hooks[c])]
    BY <1>2 DEF AddBlueprint, TakeOver
  <2>2. hooks = [x \in All |-> hooks[x]]
    BY <1>3 DEF Structure
  <2> QED
    BY <1>2, <2>1, <2>2
<1>6. /\ \A x \in All : IsTable(hooks[x]) /\ IsFiled(hooks[x], known)
      /\ \A k \in Kinds : DOMAIN hooks[App][k] = Events /\ DOMAIN hooks[c][k] = Events
  BY <1>1, <1>2, <1>3 DEF Structure, Filed, Untouched
<1>7. /\ IsTable(hooks'[App]) /\ IsFiled(hooks'[App], known)
      /\ \A k \in Kinds : DOMAIN hooks'[App][k] = Events
      /\ \A h : h.event \in Events =>
            /\ Has(hooks[App], h) /\ Lacks(hooks[c], h) => Has(hooks'[App], h)
            /\ Lacks(hooks[App], h) /\ Has(hooks[c], h) /\ ~Local(h) => Has(hooks'[App], h)
            /\ Lacks(hooks[App], h) /\ (Local(h) \/ Lacks(hooks[c], h)) => Lacks(hooks'[App], h)
  <2> HIDE DEF known
  <2> QED
    BY <1>2, <1>5, <1>6, GivenCounts
<1>8. /\ IsTable(hooks'[c]) /\ IsFiled(hooks'[c], known)
      /\ \A h : h.event \in Events =>
            /\ Has(hooks[c], h) /\ Local(h) => Has(hooks'[c], h)
            /\ Lacks(hooks[c], h) \/ ~Local(h) => Lacks(hooks'[c], h)
  <2> HIDE DEF known
  <2> QED
    BY <1>2, <1>5, <1>6, LeftCounts
<1>9. ASSUME NEW d \in declared
      PROVE  /\ d.at \in All /\ d.hook.event \in Events
             /\ d.at = c => Home(d) = c /\ Home(d)' = IF Local(d.hook) THEN c ELSE App
             /\ d.at # c => Home(d)' = Home(d) /\ Home(d) # c
  <2>1. d.at \in All /\ d.hook \in setting.hooks
    BY <1>3 DEF Structure
  <2>2. d.hook.event \in Events
    BY <1>3, <2>1, DeclaredHooks
  <2>3. d.at = c => ~d.late
    BY <1>1, <1>3 DEF Untouched
  <2> QED
    BY <1>1, <1>2, <1>4, <2>1, <2>2, <2>3 DEF Home
<1>10. ASSUME NEW d \in declared, NEW b \in All
       PROVE  IF b = Home(d)' THEN Has(hooks'[b], d.hook) ELSE Lacks(hooks'[b], d.hook)
  <2> DEFINE h == d.hook
             was == Home(d)
             is == Home(d)'
  <2>1. \A x \in All : IF x = was THEN Has(hooks[x], h) ELSE Lacks(hooks[x], h)
    BY <1>3 DEF Once
  <2>2. /\ h.event \in Events
        /\ d.at = c => was = c /\ is = IF Local(h) THEN c ELSE App
        /\ d.at # c => is = was /\ was # c
    BY <1>9
  <2> HIDE DEF h, was, is
  <2>3. CASE d.at = c
    <3>1. Has(hooks[c], h) /\ Lacks(hooks[App], h)
      BY <1>2, <2>1, <2>2, <2>3
    <3>2. IF Local(h) THEN Has(hooks'[c], h) /\ Lacks(hooks'[App], h)
                      ELSE Has(hooks'[App], h) /\ Lacks(hooks'[c], h)
      BY <1>7, <1>8, <2>2, <3>1
    <3>3. b # c /\ b # App => Lacks(hooks'[b], h)
      BY <1>5, <2>1, <2>2, <2>3
    <3>4. IF b = is THEN Has(hooks'[b], h) ELSE Lacks(hooks'[b], h)
      BY <2>2, <2>3, <3>2, <3>3
    <3> QED
      BY <3>4 DEF h, is
  <2>4. CASE d.at # c
    <3>1. Lacks(hooks[c], h)
      BY <1>2, <2>1, <2>2, <2>4
    <3>2. Lacks(hooks'[c], h)
      BY <1>8, <2>2, <3>1
    <3>3. IF App = was THEN Has(hooks'[App], h) ELSE Lacks(hooks'[App], h)
      BY <1>2, <1>7, <2>1, <2>2, <3>1
    <3>4. IF b = is THEN Has(hooks'[b], h) ELSE Lacks(hooks'[b], h)
      BY <1>5, <2>1, <2>2, <2>4, <3>2, <3>3
    <3> QED
      BY <3>4 DEF h, is
  <2> QED
    BY <2>3, <2>4
<1>11. nested' \in [All -> Seq(Blueprints \X PrefixSets)]
  BY <1>1, <1>2, <1>3 DEF Structure
<1>12. Structure'
  <2>1. \A x \in All : IsTable(hooks'[x])
    BY <1>2, <1>5, <1>6, <1>7, <1>8
  <2> QED
    BY <1>1, <1>2, <1>3, <1>4, <1>5, <1>11, <2>1 DEF Structure
<1>13. Filed'
  <2>1. \A x \in All : IsFiled(hooks'[x], known)
    BY <1>2, <1>5, <1>6, <1>7, <1>8
  <2> QED
    BY <1>1, <1>3, <2>1 DEF Filed
<1>14. Once'
  BY <1>1, <1>10 DEF Once
<1>15. Untouched'
  <2>1. ASSUME NEW x \in All, NEW k \in Kinds, parent'[x] # App
        PROVE  DOMAIN hooks'[x][k] = Events
    <3>1. x # c /\ parent[x] # App
      BY <1>4, <2>1
    <3>2. DOMAIN hooks[x][k] = Events
      BY <1>3, <3>1 DEF Untouched
    <3> QED
      BY <1>5, <1>7, <3>1, <3>2
  <2>2. \A d \in declared' : d.late => parent'[d.at] # None
    BY <1>1, <1>2, <1>3, <1>4, <1>9 DEF Untouched
  <2> QED
    BY <2>1, <2>2 DEF Untouched
<1>16. \A x \in All : parent'[x] = App <=> \E d \in Range(nested'[App]) : d[1] = x
  <2> DEFINE list == nested[App]
             entry == <<c, prefixes>>
  <2>1. list \in Seq(Blueprints \X PrefixSets) /\ entry \in Blueprints \X PrefixSets
    BY <1>2, <1>3 DEF Structure
  <2>2. nested'[App] = Append(list, entry)
    BY <1>1, <1>2, <1>3 DEF Structure
  <2>3. \A x \in All : parent[x] = App <=> \E d \in Range(list) : d[1] = x
    BY <1>3 DEF Known
  <2>4. entry[1] = c
    OBVIOUS
  <2> HIDE DEF list, entry
  <2>5. Range(Append(list, entry)) = Range(list) \cup {entry}
    <3>1. /\ Len(Append(list, entry)) = Len(list) + 1
          /\ \A i \in 1 .. Len(list) : Append(list, entry)[i] = list[i]
          /\ Append(list, entry)[Len(list) + 1] = entry
          /\ DOMAIN Append(list, entry) = 1 .. Len(list) + 1
          /\ DOMAIN list = 1 .. Len(list) /\ Len(list) \in Nat
      BY <2>1, AppendProperties, LenProperties
    <3>2. DOMAIN Append(list, entry) = DOMAIN list \cup {Len(list) + 1}
      BY <3>1
    <3> QED
      BY <3>1, <3>2 DEF Range
  <2> QED
    BY <1>4, <2>2, <2>3, <2>4, <2>5, <1>2
<1>17. \A p \in table' : \E b \in All : p[1] \in routes'[b]
  <2>1. \A x \in Mounted(c) : \E b \in All : x[1] \in routes[b]
    BY <1>2, <1>3, MountedRoutes DEF Structure, IsTree
  <2> DEFINE mounted == Mounted(c)
             put == {<<x[1], p \o x[2]>> : x \in mounted, p \in prefixes}
  <2> HIDE DEF mounted
  <2>2. \A q \in put : \E x \in mounted : q[1] = x[1]
    OBVIOUS
  <2>3. table' = table \cup put
    BY DEF AddBlueprint, mounted
  <2> HIDE DEF put
  <2>4. \A p \in table : \E b \in All : p[1] \in routes[b]
    BY <1>3 DEF Known
  <2>5. \A q \in put : \E b \in All : q[1] \in routes[b]
    BY <2>1, <2>2 DEF mounted
  <2> QED
    BY <1>1, <2>3, <2>4, <2>5
<1>18. Known'
  <2>1. routes' = [b \in All |-> routes'[b]]
    BY <1>1, <1>3 DEF Known
  <2> QED
    BY <1>16, <1>17, <2>1, Zenon DEF Known
<1>19. Hooked'
  BY <1>12, <1>13, <1>14, <1>15 DEF Hooked
<1> QED
  BY <1>1, <1>18, <1>19, NothingServed, QuietStep

(* A component changes nothing of this, also while requests are served. *)
LEMMA AddComponentKeeps ==
    ASSUME IInv, setting' = setting, NEW t, AddComponent(t)
    PROVE  IInv'
<1>1. /\ declared' = declared
      /\ UNCHANGED <<parent, nested, hooks, catches, routes, table, phase, conn, last>>
  BY DEF AddComponent, Declare
<1>2. Hooked'
  BY <1>1, HookedFromIInv, NoHookMore
<1>3. Known'
  BY <1>1 DEF IInv, Known
<1>4. Accepted'
  <2>1. \A d : Home(d)' = Home(d)
    BY <1>1 DEF Home
  <2>2. Held(App, "after")' = Held(App, "after")
    BY <1>1 DEF Held
  <2> QED
    BY <1>1, <2>1, <2>2 DEF IInv, Accepted
<1>5. Guarded'
  <2>1. Owner(last.route)' = Owner(last.route)
    BY <1>1, SameOwner
  <2>2. \A s : Held(s, "before")' = Held(s, "before")
    BY <1>1 DEF Held
  <2> QED
    BY <1>1, <2>1, <2>2 DEF IInv, Guarded
<1>6. SessionFlushed'
  BY <1>1 DEF IInv, SessionFlushed, Held
<1> QED
  BY <1>2, <1>3, <1>4, <1>5, <1>6 DEF IInv, Hooked

-----------------------------------------------------------------------------
(* The start of the server. *)

(* The application keeps a list for every event. *)
LEMMA AppHasEvents ==
    ASSUME IInv, NEW x, x.event \in Events
    PROVE  x.event \in DOMAIN hooks[App][Kind(x)]
BY Names, KindIsKind DEF IInv, Structure, Untouched

LEMMA InitializeKeeps ==
    ASSUME IInv, setting' = setting, Initialize
    PROVE  IInv'
<1>1. /\ phase = "declaring" /\ UNCHANGED <<parent, nested, routes, conn, last, declared>>
      /\ hooks' = [hooks EXCEPT ![App] = AddHook(@, SessionStart)]
      /\ table' = table \cup Mounted(App)
  BY DEF Initialize, Registered
<1>2. SessionStart.event \in DOMAIN hooks[App][Kind(SessionStart)]
  <2>1. SessionStart.event \in Events
    BY DEF SessionStart, Events
  <2> QED
    BY <2>1, AppHasEvents
<1>3. Hooked'
  BY <1>1, <1>2, HookedFromIInv, ServerHookMore
<1>4. Known'
  <2>1. \A x \in Mounted(App) : \E b \in All : x[1] \in routes[b]
    BY Names, MountedRoutes DEF IInv, Structure, IsTree
  <2> DEFINE mounted == Mounted(App)
  <2> HIDE DEF mounted
  <2>2. \A p \in table' : \E b \in All : p[1] \in routes[b]
    BY <1>1, <2>1 DEF IInv, Known, mounted
  <2> QED
    BY <1>1, <2>2 DEF IInv, Known
<1> QED
  BY <1>1, <1>3, <1>4, NothingServed, QuietStep

LEMMA StartHooksKeeps ==
    ASSUME IInv, setting' = setting, NEW o, StartHooks(o)
    PROVE  IInv'
<1>1. /\ phase = "starting" /\ UNCHANGED <<parent, nested, routes, table, conn, declared>>
      /\ last'.returned = FALSE
      /\ \/ hooks' = hooks
         \/ hooks' = [hooks EXCEPT ![App] = AddHook(@, FlushSession)]
  BY DEF StartHooks, NoRequest
<1>2. FlushSession.event \in DOMAIN hooks[App][Kind(FlushSession)]
  <2>1. FlushSession.event \in Events
    BY DEF FlushSession, Events
  <2> QED
    BY <2>1, AppHasEvents
<1>3. ASSUME hooks' = hooks
      PROVE  Hooked'
  BY <1>1, <1>3, HookedFromIInv, NoHookMore
<1>4. ASSUME hooks' = [hooks EXCEPT ![App] = AddHook(@, FlushSession)]
      PROVE  Hooked'
  BY <1>1, <1>2, <1>4, HookedFromIInv, ServerHookMore
<1>5. Known'
  BY <1>1 DEF IInv, Known
<1> QED
  BY <1>1, <1>3, <1>4, <1>5, NothingServed, QuietStep

-----------------------------------------------------------------------------
(* A connection. *)

(* Where a hook that a request must meet is held, exists_hook looks. *)
LEMMA AcceptKeeps ==
    ASSUME IInv, setting' = setting, Accept
    PROVE  IInv'
<1>1. /\ UNCHANGED <<parent, nested, hooks, routes, table, phase, last, declared>>
      /\ phase = "serving" /\ conn = None
  BY DEF Accept
<1>2. conn'.known = declared /\ conn'.flags = {e \in Events : ExistsHook(e)}
  BY DEF Accept
<1>3. Hooked'
  BY <1>1, HookedFromIInv, NoHookMore
<1>4. Known'
  BY <1>1 DEF IInv, Known
<1>5. ~last'.returned
  BY <1>1, NothingServed
<1>6. ASSUME NEW e \in Events, NEW b \in All, b = App \/ parent[b] = App, NEW h,
             Contains(Held(b, e), h)
      PROVE  e \in conn'.flags
  <2>1. Held(b, e) # <<>>
    BY <1>6 DEF Contains
  <2>2. b \in {App} \cup {d[1] : d \in Range(nested[App])}
    BY <1>6 DEF IInv, Known
  <2> QED
    BY <1>2, <2>1, <2>2 DEF ExistsHook
<1>7. ASSUME NEW d \in declared, Home(d) = App \/ parent[Home(d)] = App
      PROVE  d.hook.event \in conn'.flags
  <2>1. Home(d) \in All /\ d.hook \in setting.hooks
    BY HomeIsBlueprint DEF IInv, Structure
  <2>2. d.hook.event \in Events
    BY <2>1, DeclaredHooks DEF IInv
  <2>3. Contains(Held(Home(d), d.hook.event), d.hook)
    BY <2>1, HookedFromIInv, HeldAtHome
  <2> QED
    BY <1>6, <1>7, <2>1, <2>2, <2>3
<1>8. Contains(Held(App, "after"), FlushSession) => "after" \in conn'.flags
  <2>1. "after" \in Events
    BY DEF Events
  <2> QED
    BY <1>6, <2>1, Names
<1>9. Accepted'
  <2>1. \A d : Home(d)' = Home(d)
    BY <1>1 DEF Home
  <2>2. Held(App, "after")' = Held(App, "after")
    BY <1>1 DEF Held
  <2> QED
    BY <1>1, <1>2, <1>5, <1>7, <1>8, <2>1, <2>2 DEF Accepted
<1> QED
  BY <1>3, <1>4, <1>5, <1>9 DEF IInv, Hooked, Guarded, SessionFlushed

-----------------------------------------------------------------------------
(* A request. *)

LEMMA ContainsConcat ==
    ASSUME NEW S, NEW s \in Seq(S), NEW t \in Seq(S)
    PROVE  /\ s \o t \in Seq(S)
           /\ \A h : Contains(s, h) \/ Contains(t, h) => Contains(s \o t, h)
<1>1. /\ s \o t \in Seq(S) /\ Len(s \o t) = Len(s) + Len(t)
      /\ \A i \in 1 .. Len(s) + Len(t) : (s \o t)[i] = IF i <= Len(s) THEN s[i] ELSE t[i - Len(s)]
  BY ConcatProperties
<1>2. Len(s) \in Nat /\ Len(t) \in Nat
  BY LenProperties
<1>3. ASSUME NEW h, Contains(s, h)
      PROVE  Contains(s \o t, h)
  <2>1. PICK i \in 1 .. Len(s) : s[i] = h
    BY <1>3 DEF Contains
  <2>2. i \in 1 .. Len(s) + Len(t) /\ (s \o t)[i] = h
    BY <1>1, <1>2, <2>1
  <2> QED
    BY <1>1, <2>2 DEF Contains
<1>4. ASSUME NEW h, Contains(t, h)
      PROVE  Contains(s \o t, h)
  <2>1. PICK i \in 1 .. Len(t) : t[i] = h
    BY <1>4 DEF Contains
  <2>2. /\ Len(s) + i \in 1 .. Len(s) + Len(t) /\ ~(Len(s) + i <= Len(s))
        /\ (Len(s) + i) - Len(s) = i
    BY <1>2
  <2>3. (s \o t)[Len(s) + i] = h
    BY <1>1, <2>1, <2>2
  <2> QED
    BY <1>1, <2>2, <2>3 DEF Contains
<1> QED
  BY <1>1, <1>3, <1>4

(* Hooks that neither answer nor fail have all run. *)
LEMMA CallHooksRan ==
    ASSUME NEW S, NEW list \in Seq(S), NEW e, NEW answering
    PROVE  LET run == CallHooks(list, e, answering)
           IN /\ run.ran \in Seq(S)
              /\ ~run.answered /\ run.failed = {} => run.ran = list
<1> DEFINE stops == {i \in DOMAIN list : list[i] \in answering \/ Failing(e, list[i]) # {}}
           upto == IF stops = {} THEN Len(list) ELSE Min(stops)
           failed == IF stops = {} THEN {} ELSE Failing(e, list[upto])
           run == CallHooks(list, e, answering)
           last_ == IF failed = {} THEN upto ELSE upto - 1
<1>1. /\ run.ran = SubSeq(list, 1, last_)
      /\ run.answered <=> stops # {} /\ failed = {}
      /\ run.failed = failed
  BY DEF CallHooks
<1>2. DOMAIN list = 1 .. Len(list) /\ Len(list) \in Nat
  BY LenProperties
<1>3. stops \subseteq 1 .. Len(list)
  BY <1>2
<1>4. stops # {} => Min(stops) \in stops
  <2> HIDE DEF stops
  <2>1. ASSUME stops # {}
        PROVE  Min(stops) \in stops
    <3>1. stops \subseteq Nat
      BY <1>2, <1>3
    <3>2. PICK n \in stops : \A m \in stops : ~(m < n)
      BY <2>1, <3>1, Least
    <3>3. \A m \in stops : n <= m
      BY <3>1, <3>2
    <3> QED
      BY <3>3 DEF Min
  <2> QED
    BY <2>1
<1> HIDE DEF stops
<1>5. last_ \in 0 .. Len(list)
  <2>1. upto \in 0 .. Len(list) /\ (stops # {} => upto \in 1 .. Len(list))
    <3>1. stops # {} => Min(stops) \in 1 .. Len(list)
      BY <1>3, <1>4
    <3>2. Len(list) \in 0 .. Len(list)
      BY <1>2
    <3>3. 1 .. Len(list) \subseteq 0 .. Len(list)
      BY <1>2
    <3> QED
      BY <3>1, <3>2, <3>3
  <2>2. failed # {} => stops # {}
    OBVIOUS
  <2> HIDE DEF upto, failed
  <2> QED
    BY <1>2, <2>1, <2>2
<1>6. ~run.answered /\ run.failed = {} => last_ = Len(list)
  BY <1>1
<1> HIDE DEF last_, run
<1>7. SubSeq(list, 1, last_) \in Seq(S)
  BY <1>2, <1>5, SubSeqProperties
<1>8. SubSeq(list, 1, Len(list)) = list
  OBVIOUS
<1> QED
  BY <1>1, <1>6, <1>7, <1>8 DEF run

(* The hooks of the application and of the blueprint of the route are asked.*)
LEMMA TargetsHold ==
    ASSUME Structure, NEW b \in All, NEW event
    PROVE  /\ Targets(b, event) \in Seq(AnyHook)
           /\ \A s \in {App, b} : \A h : Contains(Held(s, event), h) => Contains(Targets(b, event), h)
<1>1. \A s \in {App, b} : Held(s, event) \in Seq(AnyHook)
  BY Names, HeldMembers DEF Structure, Held
<1> QED
  BY <1>1, ContainsConcat DEF Targets

LEMMA ServeKeeps ==
    ASSUME IInv, setting' = setting, NEW r, NEW o, Serve(r, o)
    PROVE  IInv'
<1> DEFINE b == Owner(r)
           e == AddEphemeral(conn.engine, "Request")
           Called(event, comps) == IF event \in conn.flags
               THEN CallHooks(Targets(b, event), comps, o.answering)
               ELSE [ran |-> <<>>, answered |-> FALSE, failed |-> {}]
           before == Called("before", e)
           after == Called("after", AddEphemeral(e, "Response"))
           sent == Called("sent", Reset(e))
           Ran(answered, sends) == before.ran \o (IF answered THEN after.ran ELSE <<>>)
                                       \o (IF sends THEN sent.ran ELSE <<>>)
<1>1. /\ UNCHANGED <<parent, nested, hooks, routes, table, phase, conn, declared>>
      /\ conn # None /\ \E p \in table : p[1] = r
      /\ last'.route = r
      /\ last'.returned => ~before.answered /\ before.failed = {}
      /\ last'.returned => \E sends \in BOOLEAN : last'.ran = Ran(TRUE, sends)
      /\ ~last'.cut => ~after.answered /\ after.failed = {}
  <2> DEFINE halted == before.answered \/ before.failed # {}
             wrong == IF o.raises # None THEN {o.raises}
                      ELSE UNION {Failures(e, t) : t \in o.wants}
             returned == ~halted /\ wrong = {}
             sends == returned /\ after.failed = {}
             raised == CASE halted -> before.failed
                         [] ~halted /\ ~returned -> wrong
                         [] returned /\ ~sends -> after.failed
                         [] OTHER -> sent.failed
             class == IF raised = {} THEN None ELSE CHOOSE c \in raised : TRUE
             by == IF raised = {} THEN <<>> ELSE ProcessException(b, class, o.silent)
             answers == (IF before.answered \/ sends THEN 1 ELSE 0) + (IF by = <<>> THEN 0 ELSE 1)
  <2>1. /\ UNCHANGED <<parent, nested, hooks, catches, routes, table, engine, phase, conn,
                       declared, count>>
        /\ conn # None /\ \E p \in table : p[1] = r
        /\ last' = [route |-> r, ran |-> Ran(returned, sends), returned |-> returned,
                    cut |-> after.answered \/ after.failed # {},
                    raised |-> class, by |-> by, silent |-> o.silent, answers |-> answers]
    BY Zenon DEF Serve
  <2> HIDE DEF class, by, answers, before, after, wrong, sends, Ran
  <2>2. /\ last'.route = r /\ last'.ran = Ran(returned, sends)
        /\ last'.returned = returned /\ last'.cut = (after.answered \/ after.failed # {})
    BY <2>1
  <2> QED
    BY <2>1, <2>2 DEF sends
<1>2. Hooked'
  BY <1>1, HookedFromIInv, NoHookMore
<1>3. Known'
  BY <1>1 DEF IInv, Known
<1>4. \E c \in All : r \in routes[c]
  BY <1>1 DEF IInv, Known
<1>5. b \in All
  BY <1>4 DEF Owner
<1>6. /\ conn.known \subseteq declared
      /\ \A d \in conn.known :
            Home(d) = App \/ parent[Home(d)] = App => d.hook.event \in conn.flags
      /\ Contains(Held(App, "after"), FlushSession) => "after" \in conn.flags
  BY <1>1 DEF IInv, Accepted
<1>7. Accepted'
  <2>1. \A d : Home(d)' = Home(d)
    BY <1>1 DEF Home
  <2>2. Held(App, "after")' = Held(App, "after")
    BY <1>1 DEF Held
  <2>3. phase = "serving"
    BY <1>1 DEF IInv, Accepted
  <2> HIDE DEF before, after, sent, Ran, b, e
  <2> QED
    BY <1>1, <1>4, <1>6, <2>1, <2>2, <2>3 DEF Accepted
<1>8. ASSUME NEW event, NEW comps
      PROVE  /\ Called(event, comps).ran \in Seq(AnyHook)
             /\ /\ event \in conn.flags
                /\ ~Called(event, comps).answered /\ Called(event, comps).failed = {}
                => Called(event, comps).ran = Targets(b, event)
  <2> DEFINE list == Targets(b, event)
  <2>1. list \in Seq(AnyHook)
    BY <1>5, TargetsHold DEF IInv
  <2> HIDE DEF list, b
  <2>2. LET run == CallHooks(list, comps, o.answering)
        IN /\ run.ran \in Seq(AnyHook)
           /\ ~run.answered /\ run.failed = {} => run.ran = list
    BY <2>1, CallHooksRan
  <2>3. <<>> \in Seq(AnyHook)
    OBVIOUS
  <2> QED
    BY <2>2, <2>3 DEF list
<1> HIDE DEF Called, e
<1>9. before.ran \in Seq(AnyHook) /\ after.ran \in Seq(AnyHook) /\ sent.ran \in Seq(AnyHook)
  BY <1>8
<1>10. ASSUME NEW sends, NEW h, Contains(before.ran, h) \/ Contains(after.ran, h)
       PROVE  Contains(Ran(TRUE, sends), h)
  <2> DEFINE x == before.ran
             y == after.ran
             z == IF sends THEN sent.ran ELSE <<>>
  <2>1. x \in Seq(AnyHook) /\ y \in Seq(AnyHook) /\ z \in Seq(AnyHook)
    <3>1. <<>> \in Seq(AnyHook)
      OBVIOUS
    <3> QED
      BY <1>9, <3>1
  <2>2. Contains(x, h) \/ Contains(y, h)
    BY <1>10
  <2>3. Ran(TRUE, sends) = x \o y \o z
    OBVIOUS
  <2> HIDE DEF x, y, z, Ran
  <2>4. x \o y \in Seq(AnyHook) /\ Contains(x \o y, h)
    BY <2>1, <2>2, ContainsConcat
  <2>5. Contains((x \o y) \o z, h)
    BY <2>1, <2>4, ContainsConcat
  <2> QED
    BY <2>3, <2>5
<1>11. Owner(last.route)' = b
  <2>1. b = OwnerIn(routes, r)
    BY DEF Owner, OwnerIn
  <2>2. Owner(last.route)' = OwnerIn(routes', last'.route)
    BY DEF Owner, OwnerIn
  <2> QED
    BY <1>1, <2>1, <2>2
<1> HIDE DEF Ran
<1>12. Guarded'
  <2> SUFFICES ASSUME last'.returned, NEW d \in conn.known, d.hook.event = "before",
                      NEW s \in {App} \cup (IF b = App \/ parent[b] = App THEN {b} ELSE {}),
                      Contains(Held(s, "before"), d.hook)
               PROVE  Contains(last'.ran, d.hook)
    <3>1. \A s : Held(s, "before")' = Held(s, "before")
      BY <1>1 DEF Held
    <3> HIDE DEF b, before, after
    <3> QED
      BY <1>1, <1>11, <3>1 DEF Guarded
  <2>1. s \in All /\ s \in {App, b} /\ (s = App \/ parent[s] = App)
    BY <1>5, Names
  <2>2. s = Home(d)
    BY <1>6, <2>1, HookedFromIInv, HeldAtHome
  <2>3. "before" \in conn.flags
    BY <1>6, <2>1, <2>2
  <2>4. before.ran = Targets(b, "before")
    BY <1>1, <1>8, <2>3
  <2>5. Contains(before.ran, d.hook)
    BY <1>5, <2>1, <2>4, TargetsHold DEF IInv
  <2> HIDE DEF before, after, b
  <2> QED
    BY <1>1, <1>10, <2>5
<1>13. SessionFlushed'
  <2> SUFFICES ASSUME last'.returned, Contains(Held(App, "after"), FlushSession), ~last'.cut
               PROVE  Contains(last'.ran, FlushSession)
    BY <1>1 DEF SessionFlushed, Held
  <2>1. after.ran = Targets(b, "after")
    BY <1>1, <1>6, <1>8
  <2>2. Contains(after.ran, FlushSession)
    BY <1>5, <2>1, TargetsHold DEF IInv
  <2> HIDE DEF before, after, b
  <2> QED
    BY <1>1, <1>10, <2>2
<1> QED
  BY <1>2, <1>3, <1>7, <1>12, <1>13 DEF IInv, Hooked

-----------------------------------------------------------------------------
(* The invariant. *)

LEMMA StutterKeeps ==
    ASSUME IInv, UNCHANGED vars
    PROVE  IInv'
<1>1. UNCHANGED <<setting, parent, nested, hooks, routes, table, phase, conn, last, declared>>
  BY DEF vars
<1>2. Hooked'
  BY <1>1, HookedFromIInv, NoHookMore
<1>3. Known'
  BY <1>1 DEF IInv, Known
<1>4. \A d : Home(d)' = Home(d)
  BY <1>1 DEF Home
<1>5. \A s, e : Held(s, e)' = Held(s, e)
  BY <1>1 DEF Held
<1>6. Accepted'
  BY <1>1, <1>4, <1>5 DEF IInv, Accepted
<1>7. Guarded'
  BY <1>1, <1>5, SameOwner DEF IInv, Guarded
<1>8. SessionFlushed'
  BY <1>1, <1>5 DEF IInv, SessionFlushed
<1> QED
  BY <1>2, <1>3, <1>6, <1>7, <1>8 DEF IInv, Hooked

(* Every declaration, the start of the server and every request keep the    *)
(* invariant, in whatever order they come.                                  *)
THEOREM Invariance == Spec => []IInv
<1>1. Init => IInv
  BY InitIsFine
<1>2. IInv /\ [Next]_vars => IInv'
  <2> SUFFICES ASSUME IInv, [Next]_vars
               PROVE  IInv'
    OBVIOUS
  <2>1. CASE UNCHANGED vars
    BY <2>1, StutterKeeps
  <2>2. CASE Next
    <3>1. setting' = setting /\ Step
      BY <2>2 DEF Next
    <3>2. CASE Declaration
      <4>1. ASSUME NEW b \in All, NEW h \in setting.hooks, Handle(b, h)
            PROVE  IInv'
        BY <3>1, <4>1, HandleKeeps
      <4>2. ASSUME NEW b \in All, NEW c \in setting.catchable, Catch(b, c)
            PROVE  IInv'
        BY <3>1, <4>2, CatchKeeps
      <4>3. ASSUME NEW b \in All, NEW r \in setting.endpoints, Route(b, r)
            PROVE  IInv'
        BY <3>1, <4>3, RouteKeeps
      <4>4. ASSUME NEW c \in Blueprints, NEW prefixes \in PrefixSets, NEW b \in Blueprints,
                   Nest(b, c, prefixes)
            PROVE  IInv'
        BY <3>1, <4>4, NestKeeps
      <4>5. ASSUME NEW c \in Blueprints, NEW prefixes \in PrefixSets, AddBlueprint(c, prefixes)
            PROVE  IInv'
        BY <3>1, <4>5, AddBlueprintKeeps
      <4>6. ASSUME NEW t \in setting.extras, AddComponent(t)
            PROVE  IInv'
        BY <3>1, <4>6, AddComponentKeeps
      <4> QED
        BY <3>2, <4>1, <4>2, <4>3, <4>4, <4>5, <4>6 DEF Declaration
    <3>3. CASE Initialize
      BY <3>1, <3>3, InitializeKeeps
    <3>4. CASE Accept
      BY <3>1, <3>4, AcceptKeeps
    <3>5. ASSUME NEW o \in setting.outcomes, StartHooks(o)
          PROVE  IInv'
      BY <3>1, <3>5, StartHooksKeeps
    <3>6. ASSUME NEW o \in setting.outcomes, NEW r \in setting.endpoints, Serve(r, o)
          PROVE  IInv'
      BY <3>1, <3>6, ServeKeeps
    <3> QED
      BY <3>1, <3>2, <3>3, <3>4, <3>5, <3>6 DEF Step
  <2> QED
    BY <2>1, <2>2
<1> QED
  BY <1>1, <1>2, PTL DEF Spec

(* However declarations and add_blueprint alternate, a hook that was        *)
(* declared is held once: with the application if it is global and its      *)
(* blueprint was added to it later, and otherwise with its blueprint        *)
(* (application.py:137-147).                                                *)
THEOREM HooksAreKept == Spec => []HooksKept
<1>1. IInv => HooksKept
  <2> SUFFICES ASSUME IInv, NEW d \in declared, NEW b \in All
               PROVE  Cardinality({i \in DOMAIN Held(b, d.hook.event) :
                                       Held(b, d.hook.event)[i] = d.hook})
                          = (IF b = Home(d) THEN 1 ELSE 0)
    BY DEF HooksKept
  <2> DEFINE list == Held(b, d.hook.event)
             places == {i \in DOMAIN list : list[i] = d.hook}
  <2>1. /\ IsTable(hooks[b])
        /\ IsFiled(hooks[b], {SessionStart, FlushSession} \cup {o.hook : o \in declared})
        /\ IF b = Home(d) THEN Has(hooks[b], d.hook) ELSE Lacks(hooks[b], d.hook)
    BY DEF IInv, Structure, Filed, Once
  <2>2. IF b = Home(d) THEN Single(list, d.hook) ELSE Absent(list, d.hook)
    BY <2>1, HeldCounts DEF Held
  <2> HIDE DEF list
  <2>3. CASE b = Home(d)
    <3>1. PICK i \in DOMAIN list : list[i] = d.hook /\ \A j \in DOMAIN list : list[j] = d.hook => j = i
      BY <2>2, <2>3 DEF Single
    <3>2. places = {i}
      BY <3>1
    <3> QED
      BY <2>3, <3>2, FS_Singleton DEF list
  <2>4. CASE b # Home(d)
    <3>1. places = {}
      BY <2>2, <2>4 DEF Absent
    <3> QED
      BY <2>4, <3>1, FS_EmptySet DEF list
  <2> QED
    BY <2>3, <2>4
<1> QED
  BY <1>1, Invariance, PTL

(* An endpoint runs only after the hooks in its scope that were declared    *)
(* before the connection was accepted, although the flags of a connection   *)
(* are never looked up again (cprotocol.pyx:73-76).                         *)
THEOREM EndpointsAreGuarded == Spec => []Guarded
<1>1. IInv => Guarded
  BY DEF IInv
<1> QED
  BY <1>1, Invariance, PTL

(* A session engine that was set up flushes the session of every request    *)
(* whose endpoint returned, unless another hook replaced the response or    *)
(* failed (server.py:212-231).                                              *)
THEOREM SessionsAreFlushed == Spec => []SessionFlushed
<1>1. IInv => SessionFlushed
  BY DEF IInv
<1> QED
  BY <1>1, Invariance, PTL

-----------------------------------------------------------------------------
(* The router. *)

(* What makes Reached inductive: each blueprint is nested where its parent  *)
(* says, and already while blueprints are added the router is only given    *)
(* routes at the ends of ways to their blueprints.                          *)
OnWays(tab) ==
    \A x \in tab : x = <<x[1], x[2]>> /\ x[2] \in Prefix /\ IsReached(nested, x[1], x[2])

RInv == Linked(nested, parent) /\ OnWays(table) /\ Reached

LEMMA TreeFromIInv ==
    ASSUME IInv, RInv
    PROVE  TreeOfBlueprints
BY DEF IInv, Structure, RInv, TreeOfBlueprints, IsTree

(* Once the server starts nothing of this changes. *)
MountPointsIn(nest, up, b) ==
    LET Up[n \in 0 .. Cardinality(All)] ==
            [c \in All |->
                IF c = App THEN {<<>>}
                ELSE IF n = 0 \/ up[c] = None THEN {}
                ELSE UNION {{q \o p : q \in Up[n - 1][up[c]], p \in d[2]} :
                                d \in {x \in Range(nest[up[c]]) : x[1] = c}}]
    IN Up[Cardinality(All)][b]

LEMMA SameMounts ==
    ASSUME UNCHANGED <<parent, nested>>
    PROVE  \A b : MountPoints(b)' = MountPoints(b)
<1>1. \A b : MountPoints(b) = MountPointsIn(nested, parent, b)
  BY DEF MountPoints, MountPointsIn
<1>2. \A b : MountPoints(b)' = MountPointsIn(nested', parent', b)
  BY DEF MountPoints, MountPointsIn
<1> QED
  BY <1>1, <1>2

LEMMA SameRouter ==
    ASSUME RInv, UNCHANGED <<parent, nested, routes, table>>,
           phase = "declaring" => phase' = "declaring"
    PROVE  RInv'
<1>1. Reached'
  BY SameMounts DEF RInv, Reached
<1>2. OnWays(table)'
  BY DEF RInv, OnWays, IsReached
<1> QED
  BY <1>1, <1>2 DEF RInv

LEMMA RouterStarts ==
    ASSUME Init
    PROVE  RInv
<1>1. \A a \in All : Range(nested[a]) = {}
  BY DEF Init, Range
<1>2. Linked(nested, parent)
  BY <1>1 DEF Linked
<1>3. table = {} /\ phase = "declaring"
  BY DEF Init
<1> QED
  BY <1>2, <1>3 DEF RInv, OnWays, Reached

(* While blueprints are declared, Reached says nothing yet. *)
LEMMA RouteMounts ==
    ASSUME IInv, RInv, NEW b \in All, NEW r, Route(b, r)
    PROVE  RInv'
<1>1. /\ phase' = "declaring" /\ UNCHANGED <<parent, nested, table>>
      /\ routes' = [routes EXCEPT ![b] = @ \cup {r}]
  BY DEF Route
<1>2. routes = [c \in All |-> routes[c]]
  BY DEF IInv, Known
<1>3. \A c \in All : routes[c] \subseteq routes'[c]
  BY <1>1, <1>2
<1>4. \A x, q : IsReached(nested, x, q) => IsReached(nested, x, q)'
  BY <1>1, <1>3 DEF IsReached
<1>5. OnWays(table)'
  BY <1>1, <1>4 DEF RInv, OnWays
<1> QED
  BY <1>1, <1>5 DEF RInv, Reached

(* A blueprint is added to one that it was not in. *)
LEMMA Adopted ==
    ASSUME IInv, RInv, NEW b \in All, NEW c \in Blueprints, NEW prefixes \in PrefixSets,
           Adopt(b, c, prefixes)
    PROVE  /\ IsTree(nested') /\ Linked(nested', parent')
           /\ \A a \in All : Range(nested[a]) \subseteq Range(nested'[a])
           /\ <<c, prefixes>> \in Range(nested'[b])
<1> DEFINE S == Blueprints \X PrefixSets
           d == <<c, prefixes>>
<1>1. /\ parent[c] = None
      /\ parent' = [parent EXCEPT ![c] = b]
      /\ nested' = [nested EXCEPT ![b] = Append(@, d)]
  BY DEF Adopt, MayNest
<1>2. /\ nested \in [All -> Seq(S)] /\ parent \in [All -> All \cup {None}] /\ c \in All /\ d \in S
  BY Names DEF IInv, Structure
<1>3. ASSUME NEW s \in Seq(S)
      PROVE  Append(s, d) \in Seq(S) /\ Range(Append(s, d)) = Range(s) \cup {d}
  <2> DEFINE t == Append(s, d)
             n == Len(s)
  <2>1. /\ t \in Seq(S) /\ Len(t) = n + 1
        /\ \A i \in 1 .. n : t[i] = s[i]
        /\ t[n + 1] = d
    BY <1>2, AppendProperties
  <2>2. DOMAIN t = 1 .. n + 1 /\ DOMAIN s = 1 .. n /\ n \in Nat
    BY <2>1, LenProperties
  <2> HIDE DEF t, n
  <2>3. 1 .. n + 1 = (1 .. n) \cup {n + 1}
    BY <2>2
  <2>4. Range(t) = Range(s) \cup {d}
    BY <2>1, <2>2, <2>3 DEF Range
  <2> QED
    BY <2>1, <2>4 DEF t
<1> HIDE DEF S, d
<1>4. /\ nested' \in [All -> Seq(S)]
      /\ Range(nested'[b]) = Range(nested[b]) \cup {d}
      /\ \A a \in All : a # b => nested'[a] = nested[a]
  BY <1>1, <1>2, <1>3
<1>5. ASSUME NEW a \in All, NEW e \in Range(nested'[a])
      PROVE  parent'[e[1]] = a
  <2>1. CASE e = d /\ a = b
    BY <1>1, <1>2, <2>1 DEF d
  <2>2. CASE e \in Range(nested[a])
    <3>1. parent[e[1]] = a /\ a # None
      BY <2>2, NamesAssumption DEF RInv, Linked
    <3>2. e[1] # c
      BY <1>1, <3>1
    <3> QED
      BY <1>1, <3>1, <3>2
  <2> QED
    BY <1>4, <2>1, <2>2
<1>6. Linked(nested', parent')
  BY <1>5 DEF Linked
<1>7. IsTree(nested')
  BY <1>4 DEF IsTree, S
<1> QED
  BY <1>4, <1>6, <1>7 DEF d

LEMMA NestMounts ==
    ASSUME IInv, RInv, NEW b \in Blueprints, NEW c \in Blueprints, NEW prefixes \in PrefixSets,
           Nest(b, c, prefixes)
    PROVE  RInv'
<1>1. Adopt(b, c, prefixes) /\ b \in All /\ phase' = "declaring" /\ UNCHANGED <<routes, table>>
  BY Names DEF Nest, Adopt
<1>2. Linked(nested', parent') /\ \A a \in All : Range(nested[a]) \subseteq Range(nested'[a])
  BY <1>1, Adopted
<1>3. \A x, q : IsReached(nested, x, q) => IsReached(nested', x, q)
  BY <1>2, WayWider DEF IsReached
<1>4. OnWays(table)'
  BY <1>1, <1>3 DEF RInv, OnWays, IsReached
<1> QED
  BY <1>1, <1>2, <1>4 DEF RInv, Reached

LEMMA AddBlueprintMounts ==
    ASSUME IInv, RInv, NEW c \in Blueprints, NEW prefixes \in PrefixSets, AddBlueprint(c, prefixes)
    PROVE  RInv'
<1>1. /\ Adopt(App, c, prefixes) /\ App \in All /\ c \in All
      /\ phase' = "declaring" /\ UNCHANGED routes
      /\ table' = table \cup {<<x[1], p \o x[2]>> : x \in Mounted(c), p \in prefixes}
  BY Names DEF AddBlueprint, Adopt
<1>2. /\ IsTree(nested') /\ Linked(nested', parent')
      /\ \A a \in All : Range(nested[a]) \subseteq Range(nested'[a])
      /\ <<c, prefixes>> \in Range(nested'[App])
  BY <1>1, Adopted
<1>3. IsTree(nested)
  BY DEF IInv, Structure, IsTree
<1>4. \A x, q : IsReached(nested, x, q) => IsReached(nested', x, q)
  BY <1>2, WayWider DEF IsReached
<1>5. ASSUME NEW y \in Mounted(c), NEW p \in prefixes
      PROVE  p \o y[2] \in Prefix /\ IsReached(nested', y[1], p \o y[2])
  <2> DEFINE d == <<c, prefixes>>
  <2>1. d \in Range(nested'[App]) /\ d[1] = c /\ p \in d[2]
    BY <1>2
  <2> HIDE DEF d
  <2>2. p \in Prefix
    BY <1>1, <1>2, <2>1, NestMembers
  <2>3. Way(nested', 0 + 1, d[1], <<>> \o p)
    BY <1>2, <2>1, WayStart, WayMore
  <2>4. Way(nested', 1, c, p)
    BY <2>1, <2>2, <2>3, JoinedPrefixes
  <2>5. y[2] \in Prefix /\ IsReached(nested', y[1], p \o y[2])
    BY <1>1, <1>2, <1>3, <2>4, MountedIsReached
  <2> QED
    BY <2>2, <2>5, JoinedPrefixes
<1>6. ASSUME NEW x \in table'
      PROVE  x = <<x[1], x[2]>> /\ x[2] \in Prefix /\ IsReached(nested', x[1], x[2])
  <2>1. CASE x \in table
    BY <1>4, <2>1 DEF RInv, OnWays
  <2>2. ASSUME NEW y \in Mounted(c), NEW p \in prefixes, x = <<y[1], p \o y[2]>>
        PROVE  x = <<x[1], x[2]>> /\ x[2] \in Prefix /\ IsReached(nested', x[1], x[2])
    <3>1. x[1] = y[1] /\ x[2] = p \o y[2]
      BY <2>2
    <3> QED
      BY <1>5, <2>2, <3>1
  <2> DEFINE mounted == Mounted(c)
  <2> HIDE DEF mounted
  <2> QED
    BY <1>1, <2>1, <2>2 DEF mounted
<1>7. OnWays(table)'
  BY <1>1, <1>6 DEF OnWays, IsReached
<1> QED
  BY <1>1, <1>2, <1>7 DEF RInv, Reached

(* Now the application registers all that it reaches. *)
LEMMA InitializeMounts ==
    ASSUME IInv, RInv, Initialize
    PROVE  RInv'
<1>1. /\ UNCHANGED <<parent, nested, routes>>
      /\ table' = table \cup Mounted(App)
  BY DEF Initialize, Registered
<1>2. TreeOfBlueprints /\ IsTree(nested)
  BY TreeFromIInv DEF TreeOfBlueprints
<1>3. ASSUME NEW x \in Mounted(App)
      PROVE  x = <<x[1], x[2]>> /\ x[2] \in Prefix /\ IsReached(nested, x[1], x[2])
  <2>1. App \in All /\ 0 \in Nat /\ Way(nested, 0, App, <<>>)
    BY Names, WayStart
  <2>2. /\ x = <<x[1], x[2]>> /\ x[2] \in Prefix
        /\ IsReached(nested, x[1], <<>> \o x[2])
    BY <1>2, <2>1, MountedIsReached
  <2> QED
    BY <2>2, JoinedPrefixes
<1> DEFINE mounted == Mounted(App)
<1>4. \A x \in mounted : x = <<x[1], x[2]>> /\ x[2] \in Prefix /\ IsReached(nested, x[1], x[2])
  BY <1>3
<1>5. ASSUME NEW b \in All, NEW r \in routes[b], NEW q \in MountPoints(b)
      PROVE  <<r, q>> \in mounted
  BY <1>2, MountsAreWays, ReachedIsMounted
<1>6. ASSUME NEW r, NEW q, IsReached(nested, r, q)
      PROVE  \E b \in All : r \in routes[b] /\ q \in MountPoints(b)
  BY <1>2, <1>6, WaysAreMounts DEF IsReached
<1> HIDE DEF mounted
<1>7. \A x \in table' : x = <<x[1], x[2]>> /\ x[2] \in Prefix /\ IsReached(nested, x[1], x[2])
  BY <1>1, <1>4 DEF RInv, OnWays, mounted
<1>8. OnWays(table)'
  BY <1>1, <1>7 DEF OnWays, IsReached
<1>9. table' = UNION {routes[b] \X MountPoints(b) : b \in All}
  <2>1. ASSUME NEW x \in table'
        PROVE  \E b \in All : x \in routes[b] \X MountPoints(b)
    <3>1. x = <<x[1], x[2]>> /\ IsReached(nested, x[1], x[2])
      BY <1>7
    <3>2. PICK b \in All : x[1] \in routes[b] /\ x[2] \in MountPoints(b)
      BY <1>6, <3>1
    <3> QED
      BY <3>1, <3>2
  <2>2. ASSUME NEW b \in All, NEW x \in routes[b] \X MountPoints(b)
        PROVE  x \in table'
    <3>1. PICK r \in routes[b], q \in MountPoints(b) : x = <<r, q>>
      BY <2>2
    <3> QED
      BY <1>1, <1>5, <3>1 DEF mounted
  <2> QED
    BY <2>1, <2>2
<1>10. \A b : MountPoints(b)' = MountPoints(b)
  BY <1>1, SameMounts
<1>11. Reached'
  BY <1>1, <1>9, <1>10 DEF Reached
<1> QED
  BY <1>1, <1>8, <1>11 DEF RInv

(* Every other step leaves the router and the tree alone. *)
LEMMA RouterStep ==
    ASSUME IInv, RInv, [Next]_vars
    PROVE  RInv'
<1>1. CASE UNCHANGED vars
  BY <1>1, SameRouter DEF vars
<1>2. ASSUME NEW b \in All, NEW h, Handle(b, h)
      PROVE  RInv'
  BY <1>2, SameRouter DEF Handle
<1>3. ASSUME NEW b \in All, NEW c, Catch(b, c)
      PROVE  RInv'
  BY <1>3, SameRouter DEF Catch
<1>4. ASSUME NEW t, AddComponent(t)
      PROVE  RInv'
  BY <1>4, SameRouter DEF AddComponent
<1>5. CASE Accept
  BY <1>5, SameRouter DEF Accept
<1>6. ASSUME NEW o, NEW r, Serve(r, o)
      PROVE  RInv'
  <2>1. UNCHANGED <<parent, nested, routes, table, phase>>
    BY <1>6, Zenon DEF Serve
  <2> QED
    BY <2>1, SameRouter
<1>7. ASSUME NEW o, StartHooks(o)
      PROVE  RInv'
  <2>1. UNCHANGED <<parent, nested, routes, table>> /\ phase = "starting"
    BY <1>7 DEF StartHooks
  <2> QED
    BY <2>1, SameRouter
<1> QED
  BY <1>1, <1>2, <1>3, <1>4, <1>5, <1>6, <1>7, RouteMounts, NestMounts, AddBlueprintMounts,
     InitializeMounts DEF Next, Step, Declaration

(* Whatever is declared in whatever order, the router of a server that      *)
(* starts has the routes of every blueprint that the application reaches,   *)
(* under each combination of prefixes on the way to it, and has no other    *)
(* (application.py:96-135).                                                 *)
THEOREM RoutesAreReached == Spec => []Reached
<1>1. Init => RInv
  BY RouterStarts
<1>2. IInv /\ RInv /\ [Next]_vars => RInv'
  BY RouterStep
<1>3. RInv => Reached
  BY DEF RInv
<1> QED
  BY <1>1, <1>2, <1>3, Invariance, PTL DEF Spec

-----------------------------------------------------------------------------
(* The order of exception handlers. *)

Distinct(list) == \A i, j \in DOMAIN list : list[i] = list[j] => i = j

(* No class comes before one that it is above of. *)
Sorted(list) == \A i, j \in DOMAIN list : i < j => list[i] \notin Above[list[j]]

(* A set of numbers that has a bound and is not empty has a greatest one. *)
LEMMA GreatestIsMax ==
    ASSUME NEW N \in Nat, NEW T, T \subseteq 1 .. N, T # {}
    PROVE  Max(T) \in T
<1> DEFINE U == {N - i : i \in T}
<1>1. U \subseteq Nat /\ U # {}
  <2>1. PICK i \in T : TRUE
    OBVIOUS
  <2>2. N - i \in U
    BY <2>1
  <2>3. \A j \in T : N - j \in Nat
    OBVIOUS
  <2> QED
    BY <2>2, <2>3
<1>2. PICK u \in U : \A v \in U : ~(v < u)
  <2> HIDE DEF U
  <2> QED
    BY <1>1, Least
<1>3. PICK m \in T : u = N - m
  BY <1>2
<1>4. ASSUME NEW i \in T
      PROVE  m >= i
  <2>1. ~(N - i < N - m)
    BY <1>2, <1>3
  <2> QED
    BY <2>1
<1> QED
  BY <1>4 DEF Max

LEMMA LeastIsMin ==
    ASSUME NEW T, T \subseteq Nat, T # {}
    PROVE  Min(T) \in T /\ \A i \in T : Min(T) <= i
<1>1. PICK n \in T : \A m \in T : ~(m < n)
  BY Least
<1>2. \A m \in T : n <= m
  BY <1>1
<1> QED
  BY <1>2 DEF Min

(* Since classes are ordered, some class in a list is below no other. *)
LEMMA SomeIsFree ==
    ASSUME NEW left \in Seq(Classes), Distinct(left), Len(left) # 0
    PROVE  Free(left) # {}
<1> DEFINE n == Len(left)
           R == Range(left)
           up(i) == R \cap Above[left[i]]
           size(i) == Cardinality(up(i))
           Sizes == {size(i) : i \in 1 .. n}
<1>1. n \in Nat /\ n # 0 /\ DOMAIN left = 1 .. n /\ \A i \in 1 .. n : left[i] \in Classes
  BY LenProperties, ElementOfSeq
<1>2. IsFiniteSet(R)
  <2>1. R = {left[i] : i \in 1 .. n}
    BY <1>1 DEF Range
  <2>2. IsFiniteSet(1 .. n)
    BY <1>1, FS_Interval
  <2> DEFINE g == [i \in 1 .. n |-> left[i]]
  <2>3. g \in Surjection(1 .. n, R)
    BY <2>1 DEF Surjection
  <2> QED
    BY <2>2, <2>3, FS_Surjection
<1>3. ASSUME NEW i \in 1 .. n
      PROVE  IsFiniteSet(up(i)) /\ size(i) \in Nat /\ left[i] \in up(i)
  <2>1. IsFiniteSet(up(i))
    BY <1>2, FS_Subset
  <2>2. left[i] \in R
    BY <1>1 DEF Range
  <2>3. left[i] \in Above[left[i]]
    BY <1>1, ClassesAssumption
  <2> QED
    BY <2>1, <2>2, <2>3, FS_CardinalityType
<1> HIDE DEF R, n
<1>4. Sizes \subseteq Nat /\ Sizes # {}
  <2>1. 1 \in 1 .. n
    BY <1>1
  <2> QED
    BY <1>3, <2>1
<1>5. PICK s \in Sizes : \A t \in Sizes : ~(t < s)
  <2> HIDE DEF Sizes
  <2> QED
    BY <1>4, Least
<1>6. PICK i \in 1 .. n : s = size(i)
  BY <1>5
<1>7. ASSUME NEW j \in 1 .. n, j # i, left[j] \in Above[left[i]]
      PROVE  FALSE
  <2>1. left[j] # left[i]
    BY <1>1, <1>7 DEF Distinct
  <2>2. Above[left[j]] \subseteq Above[left[i]] /\ left[i] \notin Above[left[j]]
    BY <1>1, <1>7, <2>1, ClassesAssumption
  <2>3. up(j) \subseteq up(i) /\ up(j) # up(i)
    BY <1>3, <2>2
  <2>4. size(j) < size(i)
    <3> DEFINE big == up(i)
               small == up(j)
    <3>1. IsFiniteSet(big) /\ small \subseteq big /\ small # big
      BY <1>3, <2>3
    <3> HIDE DEF big, small
    <3>3. IsFiniteSet(small) /\ Cardinality(small) \in Nat /\ Cardinality(big) \in Nat
      BY <3>1, FS_Subset, FS_CardinalityType
    <3>4. Cardinality(small) <= Cardinality(big) /\ Cardinality(small) # Cardinality(big)
      BY <3>1, FS_Subset
    <3>2. Cardinality(small) < Cardinality(big)
      BY <3>3, <3>4
    <3> QED
      BY <3>2 DEF big, small
  <2> QED
    BY <1>5, <1>6, <2>4
<1>8. i \in Free(left)
  BY <1>1, <1>7 DEF Free
<1> QED
  BY <1>8

(* A list without its i-th element, turned. *)
Turned(S, s, i, t) ==
    /\ t \in Seq(S) /\ Len(t) = Len(s) - 1
    /\ \A j \in DOMAIN t : \E k \in DOMAIN s \ {i} : t[j] = s[k]
    /\ Distinct(s) => Distinct(t)

LEMMA TurnedList ==
    ASSUME NEW S, NEW s \in Seq(S), NEW i \in 1 .. Len(s)
    PROVE  Turned(S, s, i, SubSeq(s, i + 1, Len(s)) \o SubSeq(s, 1, i - 1))
<1> DEFINE n == Len(s)
           x == SubSeq(s, i + 1, n)
           y == SubSeq(s, 1, i - 1)
           t == x \o y
           at(j) == IF j <= n - i THEN i + j ELSE j - (n - i)
<1>1. n \in Nat /\ DOMAIN s = 1 .. n /\ i \in 1 .. n
  BY LenProperties
<1>2. /\ x \in Seq(S) /\ Len(x) = n - i
      /\ \A j \in 1 .. n - i : x[j] = s[i + j]
  <2>1. /\ SubSeq(s, i + 1, n) \in Seq(S)
        /\ Len(SubSeq(s, i + 1, n)) = IF i + 1 <= n THEN n - (i + 1) + 1 ELSE 0
        /\ \A j \in 1 .. n - (i + 1) + 1 : SubSeq(s, i + 1, n)[j] = s[(i + 1) + j - 1]
    <3>1. i + 1 \in 1 .. n + 1 /\ n \in i .. n
      BY <1>1
    <3> QED
      BY <1>1, <3>1, SubSeqProperties
  <2>4. (IF i + 1 <= n THEN n - (i + 1) + 1 ELSE 0) = n - i
    <3> HIDE DEF n
    <3> QED
      BY <1>1
  <2>2. Len(x) = n - i
    BY <2>1, <2>4
  <2>3. ASSUME NEW j \in 1 .. n - i
        PROVE  x[j] = s[i + j]
    <3>1. j \in 1 .. n - (i + 1) + 1 /\ (i + 1) + j - 1 = i + j
      BY <1>1
    <3> QED
      BY <2>1, <3>1
  <2> QED
    BY <2>1, <2>2, <2>3
<1>3. /\ y \in Seq(S) /\ Len(y) = i - 1
      /\ \A j \in 1 .. i - 1 : y[j] = s[j]
  <2>1. 1 \in 1 .. n + 1 /\ i - 1 \in 0 .. n
    BY <1>1
  <2>2. /\ SubSeq(s, 1, i - 1) \in Seq(S)
        /\ Len(SubSeq(s, 1, i - 1)) = IF 1 <= i - 1 THEN (i - 1) - 1 + 1 ELSE 0
        /\ \A j \in 1 .. (i - 1) - 1 + 1 : SubSeq(s, 1, i - 1)[j] = s[1 + j - 1]
    BY <1>1, <2>1, SubSeqProperties
  <2>3. \A j \in 1 .. i - 1 : j \in 1 .. (i - 1) - 1 + 1 /\ 1 + j - 1 = j
    BY <1>1
  <2> QED
    BY <1>1, <2>2, <2>3
<1> HIDE DEF x, y
<1>4. /\ t \in Seq(S) /\ Len(t) = (n - i) + (i - 1)
      /\ \A j \in 1 .. (n - i) + (i - 1) : t[j] = IF j <= n - i THEN x[j] ELSE y[j - (n - i)]
  BY <1>2, <1>3, ConcatProperties
<1> HIDE DEF t
<1>5. Len(t) = n - 1 /\ DOMAIN t = 1 .. n - 1
  <2>1. (n - i) + (i - 1) = n - 1
    BY <1>1
  <2> QED
    BY <1>4, <2>1, LenProperties
<1> HIDE DEF n
<1>6. ASSUME NEW j \in 1 .. n - 1
      PROVE  at(j) \in 1 .. n /\ at(j) # i /\ t[j] = s[at(j)]
  <2>0. j \in 1 .. (n - i) + (i - 1)
    BY <1>1
  <2>1. CASE j <= n - i
    <3>1. j \in 1 .. n - i
      BY <1>1, <2>1
    <3>2. t[j] = x[j] /\ at(j) = i + j
      BY <1>4, <2>0, <2>1
    <3> QED
      BY <1>1, <1>2, <3>1, <3>2
  <2>2. CASE ~(j <= n - i)
    <3>1. j - (n - i) \in 1 .. i - 1
      BY <1>1, <2>2
    <3>2. t[j] = y[j - (n - i)] /\ at(j) = j - (n - i)
      BY <1>4, <2>0, <2>2
    <3>3. y[j - (n - i)] = s[j - (n - i)]
      BY <1>3, <3>1
    <3> QED
      BY <1>1, <3>1, <3>2, <3>3
  <2> QED
    BY <2>1, <2>2
<1>7. \A j, k \in 1 .. n - 1 : at(j) = at(k) => j = k
  BY <1>1
<1> HIDE DEF at
<1>8. Distinct(s) => Distinct(t)
  BY <1>1, <1>5, <1>6, <1>7 DEF Distinct
<1>9. \A j \in DOMAIN t : \E k \in DOMAIN s \ {i} : t[j] = s[k]
  BY <1>1, <1>5, <1>6
<1> QED
  BY <1>4, <1>5, <1>8, <1>9 DEF Turned, t, x, y, n

(* After n classes were taken out of L: what is left is above nothing that  *)
(* was taken.                                                               *)
Sorting(L, n, s) ==
    /\ s \in [left : Seq(Classes), taken : Seq(Classes)]
    /\ Len(s.left) = L - n /\ Distinct(s.left) /\ Sorted(s.taken)
    /\ \A i \in DOMAIN s.taken : \A j \in DOMAIN s.left : s.left[j] \notin Above[s.taken[i]]

LEMMA TakeOutKeeps ==
    ASSUME NEW L \in Nat, NEW n \in 1 .. L, NEW s, Sorting(L, n - 1, s)
    PROVE  Sorting(L, n, TakeOut(s))
<1> DEFINE left == s.left
           taken == s.taken
           i == Max(Free(left))
           rest == SubSeq(left, i + 1, Len(left)) \o SubSeq(left, 1, i - 1)
           e == left[i]
           more == <<e>> \o taken
<1>1. /\ left \in Seq(Classes) /\ taken \in Seq(Classes)
      /\ Len(left) = L - (n - 1) /\ Distinct(left) /\ Sorted(taken)
      /\ \A k \in DOMAIN taken : \A j \in DOMAIN left : left[j] \notin Above[taken[k]]
  BY DEF Sorting
<1>2. TakeOut(s) = [left |-> rest, taken |-> more]
  BY DEF TakeOut
<1> HIDE DEF left, taken
<1>3. Len(left) \in Nat /\ Len(left) # 0 /\ DOMAIN left = 1 .. Len(left) /\ Len(left) - 1 = L - n
  BY <1>1, LenProperties
<1>4. Free(left) # {} /\ Free(left) \subseteq 1 .. Len(left)
  BY <1>1, <1>3, SomeIsFree DEF Free
<1>5. i \in Free(left)
  BY <1>3, <1>4, GreatestIsMax
<1>6. i \in 1 .. Len(left) /\ \A j \in DOMAIN left \ {i} : left[j] \notin Above[e]
  BY <1>4, <1>5 DEF Free
<1> HIDE DEF i
<1>7. e \in Classes
  BY <1>1, <1>6, ElementOfSeq
<1>8. /\ rest \in Seq(Classes) /\ Len(rest) = Len(left) - 1
      /\ \A j \in DOMAIN rest : \E k \in DOMAIN left \ {i} : rest[j] = left[k]
      /\ Distinct(rest)
  <2>1. Turned(Classes, left, i, rest)
    BY <1>1, <1>6, TurnedList
  <2> HIDE DEF rest
  <2> QED
    BY <1>1, <2>1 DEF Turned
<1> HIDE DEF rest, e
<1>9. /\ more \in Seq(Classes) /\ Len(more) = 1 + Len(taken)
      /\ \A j \in 1 .. 1 + Len(taken) : more[j] = IF j <= 1 THEN <<e>>[j] ELSE taken[j - 1]
  <2>1. <<e>> \in Seq(Classes) /\ Len(<<e>>) = 1
    BY <1>7
  <2> QED
    BY <1>1, <2>1, ConcatProperties
<1>10. Len(taken) \in Nat /\ DOMAIN taken = 1 .. Len(taken) /\ DOMAIN more = 1 .. 1 + Len(taken)
  BY <1>1, <1>9, LenProperties
<1> HIDE DEF more
<1>11. ASSUME NEW j \in DOMAIN more
       PROVE  \/ j = 1 /\ more[j] = e
              \/ j > 1 /\ j - 1 \in DOMAIN taken /\ more[j] = taken[j - 1]
  <2>1. CASE j = 1
    <3>1. 1 \in 1 .. 1 + Len(taken) /\ 1 <= 1
      BY <1>10
    <3>2. more[1] = <<e>>[1]
      BY <1>9, <3>1
    <3>3. more[1] = e
      BY <3>2
    <3> QED
      BY <2>1, <3>3
  <2>2. CASE j # 1
    <3>1. j > 1 /\ j - 1 \in DOMAIN taken /\ ~(j <= 1)
      BY <1>10, <2>2
    <3> QED
      BY <1>9, <1>10, <3>1
  <2> QED
    BY <2>1, <2>2
<1>12. Sorted(more)
  <2> SUFFICES ASSUME NEW j \in DOMAIN more, NEW k \in DOMAIN more, j < k
               PROVE  more[j] \notin Above[more[k]]
    BY DEF Sorted
  <2>1. k > 1 /\ k - 1 \in DOMAIN taken /\ more[k] = taken[k - 1]
    BY <1>10, <1>11
  <2>2. CASE j = 1
    <3>1. more[j] = e
      BY <1>11, <2>2
    <3> QED
      BY <1>1, <1>3, <1>6, <2>1, <3>1 DEF e
  <2>3. CASE j # 1
    <3>1. j - 1 \in DOMAIN taken /\ more[j] = taken[j - 1]
      BY <1>11, <2>3
    <3>2. j - 1 < k - 1
      BY <1>10
    <3> QED
      BY <1>1, <2>1, <3>1, <3>2 DEF Sorted
  <2> QED
    BY <2>2, <2>3
<1>13. ASSUME NEW k \in DOMAIN more, NEW j \in DOMAIN rest
       PROVE  rest[j] \notin Above[more[k]]
  <2>1. PICK l \in DOMAIN left \ {i} : rest[j] = left[l]
    BY <1>8
  <2>2. more[k] = e \/ \E m \in DOMAIN taken : more[k] = taken[m]
    BY <1>11
  <2> QED
    BY <1>1, <1>6, <2>1, <2>2
<1>14. Len(rest) = L - n
  BY <1>3, <1>8
<1> DEFINE u == [left |-> rest, taken |-> more]
<1>15. u.left = rest /\ u.taken = more /\ u \in [left : Seq(Classes), taken : Seq(Classes)]
  BY <1>8, <1>9
<1> HIDE DEF u
<1>16. Sorting(L, n, u)
  BY <1>8, <1>12, <1>13, <1>14, <1>15 DEF Sorting
<1> QED
  BY <1>2, <1>16 DEF u

(* The classes above others come last. *)
LEMMA SortErrorHandlersSorts ==
    ASSUME NEW keys \in Seq(Classes), Distinct(keys)
    PROVE  SortErrorHandlers(keys) \in Seq(Classes) /\ Sorted(SortErrorHandlers(keys))
<1> DEFINE L == Len(keys)
           S == [left : Seq(Classes), taken : Seq(Classes)]
           zero == [left |-> keys, taken |-> <<>>]
           step == [s \in S |-> IF TakeOut(s) \in S THEN TakeOut(s) ELSE s]
           Turn(f, n) == IF n = 0 THEN zero ELSE TakeOut(f[n - 1])
           Chain(f) == f = [n \in 0 .. L |-> Turn(f, n)]
           Taken == CHOOSE f : Chain(f)
           Fine(f) == \A n \in 0 .. L : Sorting(L, n, f[n])
<1>1. L \in Nat
  BY LenProperties
<1>2. zero \in S /\ Sorting(L, 0, zero)
  <2>1. zero \in S
    OBVIOUS
  <2>2. Sorted(<<>>) /\ DOMAIN <<>> = {}
    BY DEF Sorted
  <2>3. zero.left = keys /\ zero.taken = <<>> /\ Len(keys) = L - 0
    BY <1>1
  <2> HIDE DEF zero, L
  <2> QED
    BY <2>1, <2>2, <2>3 DEF Sorting
<1>3. step \in [S -> S] /\ \A s \in S : TakeOut(s) \in S => step[s] = TakeOut(s)
  OBVIOUS
<1>4. \A n, s : Sorting(L, n, s) => s \in S
  BY DEF Sorting
<1> HIDE DEF L, S, zero, step
<1>5. ASSUME NEW f, f[0] = zero,
             \A n \in 1 .. L : Sorting(L, n - 1, f[n - 1]) => f[n] = TakeOut(f[n - 1])
      PROVE  Fine(f)
  <2> DEFINE T == {n \in 0 .. L : Sorting(L, n, f[n])}
  <2>1. 0 \in T
    BY <1>1, <1>2, <1>5
  <2>2. ASSUME NEW n \in 1 .. L, n - 1 \in T
        PROVE  n \in T
    <3>1. Sorting(L, n, TakeOut(f[n - 1]))
      BY <1>1, <2>2, TakeOutKeeps
    <3>2. n \in 0 .. L /\ f[n] = TakeOut(f[n - 1])
      BY <1>1, <1>5, <2>2
    <3> QED
      BY <3>1, <3>2
  <2>3. \A n \in 0 .. L : n \in T
    <3> HIDE DEF T
    <3> QED
      BY <1>1, <2>1, <2>2, UpTo
  <2> QED
    BY <2>3
<1>6. PICK f \in [0 .. L -> S] : f[0] = zero /\ \A n \in 1 .. L : f[n] = step[f[n - 1]]
  <2>1. \E f \in [0 .. L -> S] : Iterates(f, zero, step, L)
    BY <1>1, <1>2, <1>3, Iterated
  <2> QED
    BY <2>1 DEF Iterates
<1>7. Fine(f)
  <2>1. ASSUME NEW n \in 1 .. L, Sorting(L, n - 1, f[n - 1])
        PROVE  f[n] = TakeOut(f[n - 1])
    <3>1. Sorting(L, n, TakeOut(f[n - 1]))
      BY <1>1, <2>1, TakeOutKeeps
    <3>2. f[n - 1] \in S /\ TakeOut(f[n - 1]) \in S
      BY <1>4, <2>1, <3>1
    <3> QED
      BY <1>3, <1>6, <3>2
  <2> HIDE DEF Fine
  <2> QED
    BY <1>5, <1>6, <2>1
<1>8. ASSUME NEW n \in 0 .. L
      PROVE  f[n] = Turn(f, n)
  <2>1. CASE n = 0
    BY <1>6, <2>1
  <2>2. CASE n # 0
    <3>1. n \in 1 .. L /\ n - 1 \in 0 .. L
      BY <1>1, <2>2
    <3>2. Sorting(L, n - 1, f[n - 1])
      BY <1>7, <3>1
    <3>3. Sorting(L, n, TakeOut(f[n - 1]))
      BY <1>1, <3>1, <3>2, TakeOutKeeps
    <3>4. f[n - 1] \in S /\ TakeOut(f[n - 1]) \in S
      BY <1>4, <3>2, <3>3
    <3> QED
      BY <1>3, <1>6, <2>2, <3>1, <3>4
  <2> QED
    BY <2>1, <2>2
<1>9. Chain(f)
  <2> HIDE DEF Turn
  <2> QED
    BY <1>6, <1>8
<1>10. Chain(Taken)
  <2> HIDE DEF Chain
  <2> QED
    BY <1>9
<1>11. SortErrorHandlers(keys) = Taken[L].taken
  BY DEF SortErrorHandlers, L, zero
<1> HIDE DEF Taken
<1>12. \A n \in 0 .. L : Taken[n] = Turn(Taken, n)
  <2> HIDE DEF Turn
  <2> QED
    BY <1>10
<1>13. Fine(Taken)
  <2>1. Taken[0] = zero
    BY <1>1, <1>12
  <2>2. ASSUME NEW n \in 1 .. L
        PROVE  Taken[n] = TakeOut(Taken[n - 1])
    <3>1. n \in 0 .. L /\ n # 0
      BY <1>1
    <3> QED
      BY <1>12, <3>1
  <2> HIDE DEF Fine
  <2> QED
    BY <1>5, <2>1, <2>2
<1>14. Sorting(L, L, Taken[L])
  BY <1>1, <1>13
<1> QED
  BY <1>11, <1>14 DEF Sorting

LEMMA WithKeyKeeps ==
    ASSUME NEW keys \in Seq(Classes), Distinct(keys), NEW c \in Classes
    PROVE  WithKey(keys, c) \in Seq(Classes) /\ Distinct(WithKey(keys, c))
<1>1. CASE Contains(keys, c)
  BY <1>1 DEF WithKey
<1>2. CASE ~Contains(keys, c)
  <2> DEFINE t == Append(keys, c)
             n == Len(keys)
  <2>1. /\ t \in Seq(Classes) /\ Len(t) = n + 1
        /\ \A i \in 1 .. n : t[i] = keys[i]
        /\ t[n + 1] = c
    BY AppendProperties
  <2>2. DOMAIN t = 1 .. n + 1 /\ DOMAIN keys = 1 .. n /\ n \in Nat
    BY <2>1, LenProperties
  <2>3. \A i \in 1 .. n : keys[i] # c
    BY <1>2 DEF Contains
  <2>4. WithKey(keys, c) = t
    BY <1>2 DEF WithKey
  <2> HIDE DEF t, n
  <2>5. \A i \in 1 .. n + 1 : i \in 1 .. n \/ i = n + 1
    BY <2>2
  <2>6. Distinct(t)
    BY <2>1, <2>2, <2>3, <2>5 DEF Distinct
  <2> QED
    BY <2>1, <2>4, <2>6
<1> QED
  BY <1>1, <1>2

LEMMA WithDefaultsKeeps ==
    ASSUME NEW keys \in Seq(Classes), Distinct(keys)
    PROVE  WithDefaults(keys) \in Seq(Classes) /\ Distinct(WithDefaults(keys))
<1> DEFINE d == DefaultHandlers
<1>1. d[1] \in Classes /\ d[2] \in Classes /\ d[3] \in Classes /\ d[4] \in Classes
  <2>1. 1 \in DOMAIN d /\ 2 \in DOMAIN d /\ 3 \in DOMAIN d /\ 4 \in DOMAIN d
    BY DEF DefaultHandlers
  <2> HIDE DEF d
  <2> QED
    BY <2>1, ClassesAssumption DEF Range, d
<1> DEFINE k1 == WithKey(keys, d[1])
           k2 == WithKey(k1, d[2])
           k3 == WithKey(k2, d[3])
           k4 == WithKey(k3, d[4])
<1>2. WithDefaults(keys) = k4
  BY DEF WithDefaults
<1>3. k1 \in Seq(Classes) /\ Distinct(k1)
  BY <1>1, WithKeyKeeps
<1> HIDE DEF d, k1
<1>4. k2 \in Seq(Classes) /\ Distinct(k2)
  BY <1>1, <1>3, WithKeyKeeps
<1> HIDE DEF k2
<1>5. k3 \in Seq(Classes) /\ Distinct(k3)
  BY <1>1, <1>4, WithKeyKeeps
<1> HIDE DEF k3
<1>6. k4 \in Seq(Classes) /\ Distinct(k4)
  BY <1>1, <1>5, WithKeyKeeps
<1> QED
  BY <1>2, <1>6 DEF d, k1, k2, k3

(* Lineage, from the values for the blueprints one step further up. *)
LineageFrom(c, upper) == IF c = None THEN <<>> ELSE <<c>> \o upper[parent[c]]

LEMMA LineageType ==
    ASSUME parent \in [All -> All \cup {None}], NEW b \in All
    PROVE  Lineage(b) \in Seq(All)
<1> DEFINE N == Cardinality(All)
           Type == [All \cup {None} -> Seq(All)]
           zero == [c \in All \cup {None} |-> <<>>]
           step == [upper \in Type |-> [c \in All \cup {None} |-> LineageFrom(c, upper)]]
           Turn(f, n) ==
               [c \in All \cup {None} |->
                   IF n = 0 \/ c = None THEN <<>> ELSE <<c>> \o f[n - 1][parent[c]]]
           Chain(f) == f = [n \in 0 .. N |-> Turn(f, n)]
           Up == CHOOSE f : Chain(f)
           Typed == {n \in 0 .. N : Up[n] \in Type}
<1>1. N \in Nat
  BY AllCounted
<1>2. zero \in Type
  OBVIOUS
<1>3. ASSUME NEW upper \in Type
      PROVE  [c \in All \cup {None} |-> LineageFrom(c, upper)] \in Type
  <2>1. ASSUME NEW c \in All \cup {None}
        PROVE  LineageFrom(c, upper) \in Seq(All)
    <3>1. CASE c = None
      BY <3>1 DEF LineageFrom
    <3>2. CASE c # None
      <4>1. upper[parent[c]] \in Seq(All) /\ <<c>> \in Seq(All)
        BY <3>2
      <4>2. <<c>> \o upper[parent[c]] \in Seq(All)
        BY <4>1, ConcatProperties
      <4> QED
        BY <3>2, <4>2 DEF LineageFrom
    <3> QED
      BY <3>1, <3>2
  <2> QED
    BY <2>1
<1>4. step \in [Type -> Type]
  BY <1>3
<1>5. \A upper \in Type : step[upper] = [c \in All \cup {None} |-> LineageFrom(c, upper)]
  OBVIOUS
<1> HIDE DEF N, zero, step, Type
<1>6. PICK f \in [0 .. N -> Type] : f[0] = zero /\ \A n \in 1 .. N : f[n] = step[f[n - 1]]
  <2>1. \E f \in [0 .. N -> Type] : Iterates(f, zero, step, N)
    BY <1>1, <1>2, <1>4, Iterated
  <2> QED
    BY <2>1 DEF Iterates
<1>7. ASSUME NEW f_, NEW n \in 1 .. N
      PROVE  Turn(f_, n) = [c \in All \cup {None} |-> LineageFrom(c, f_[n - 1])]
  <2>1. n # 0
    BY <1>1
  <2> QED
    BY <2>1 DEF LineageFrom
<1>8. \A f_ : Turn(f_, 0) = zero
  BY DEF zero
<1>9. ASSUME NEW n \in 0 .. N
      PROVE  f[n] = Turn(f, n)
  <2>1. CASE n = 0
    <3> HIDE DEF Turn
    <3> QED
      BY <1>6, <1>8, <2>1
  <2>2. CASE n # 0
    <3>1. n \in 1 .. N /\ n - 1 \in 0 .. N
      BY <1>1, <2>2
    <3>2. f[n - 1] \in Type /\ f[n] = step[f[n - 1]]
      BY <1>6, <3>1
    <3>3. f[n] = [c \in All \cup {None} |-> LineageFrom(c, f[n - 1])]
      BY <1>5, <3>2
    <3> HIDE DEF Turn
    <3> QED
      BY <1>7, <3>1, <3>3
  <2> HIDE DEF Turn
  <2> QED
    BY <2>1, <2>2
<1>10. Chain(f)
  <2> HIDE DEF Turn
  <2> QED
    BY <1>6, <1>9
<1>11. Chain(Up)
  <2> HIDE DEF Chain
  <2> QED
    BY <1>10
<1>12. Lineage(b) = Up[N][b]
  BY DEF Lineage, N
<1> HIDE DEF Up
<1>13. \A n \in 0 .. N : Up[n] = Turn(Up, n)
  <2> HIDE DEF Turn
  <2> QED
    BY <1>11
<1> HIDE DEF Turn, Chain
<1>14. \A n \in 0 .. N : n \in Typed
  <2>1. 0 \in Typed
    BY <1>1, <1>2, <1>8, <1>13
  <2>2. ASSUME NEW n \in 1 .. N, n - 1 \in Typed
        PROVE  n \in Typed
    <3>1. n \in 0 .. N
      BY <1>1
    <3>2. Up[n] = [c \in All \cup {None} |-> LineageFrom(c, Up[n - 1])]
      BY <1>7, <1>13, <3>1
    <3> QED
      BY <1>3, <2>2, <3>1, <3>2
  <2> HIDE DEF Typed
  <2> QED
    BY <1>1, <2>1, <2>2, UpTo
<1>15. Up[N] \in Type
  BY <1>1, <1>14
<1> QED
  BY <1>12, <1>15 DEF Type

(* Once the server starts a lineage stays. *)
LineageIn(up, b) ==
    LET Up[n \in 0 .. Cardinality(All)] ==
            [c \in All \cup {None} |->
                IF n = 0 \/ c = None THEN <<>> ELSE <<c>> \o Up[n - 1][up[c]]]
    IN Up[Cardinality(All)][b]

LEMMA SameLineage ==
    ASSUME parent' = parent, routes' = routes, last' = last
    PROVE  Lineage(Owner(last.route))' = Lineage(Owner(last.route))
<1>1. Lineage(Owner(last.route)) = LineageIn(parent, OwnerIn(routes, last.route))
  BY DEF Lineage, LineageIn, Owner, OwnerIn
<1>2. Lineage(Owner(last.route))' = LineageIn(parent', OwnerIn(routes', last'.route))
  BY DEF Lineage, LineageIn, Owner, OwnerIn
<1> QED
  BY <1>1, <1>2

(* Nearest for a lineage and an answer; held has the handlers. *)
Fitting(up, held, c, silent) ==
    {t \in (DOMAIN up) \X Above[c] :
        Contains(held[up[t[1]]], t[2]) /\ <<up[t[1]], t[2]>> \notin silent}

IsNearest(up, held, c, silent, by) ==
    LET fit == Fitting(up, held, c, silent)
    IN IF fit = {} THEN by = <<>>
       ELSE \E t \in fit :
                /\ by = <<up[t[1]], t[2]>>
                /\ \A u \in fit :
                      /\ t[1] <= u[1]
                      /\ t[1] = u[1] /\ u[2] = c => t = u
                      /\ t[1] = u[1] /\ up[t[1]] = App /\ t # u => t[2] \notin Above[u[2]]

LEMMA AnsweringIsNearest ==
    ASSUME catches \in [All -> Seq(Classes)], Sorted(catches[App]),
           NEW at \in All, NEW c, NEW silent, Speaking(at, c, silent) # {}
    PROVE  /\ \E i \in Speaking(at, c, silent) : Answering(at, c, silent) = catches[at][i]
           /\ \A j \in Speaking(at, c, silent) :
                 /\ catches[at][j] = c => Answering(at, c, silent) = c
                 /\ at = App /\ catches[at][j] # Answering(at, c, silent)
                        => Answering(at, c, silent) \notin Above[catches[at][j]]
<1> DEFINE sp == Speaking(at, c, silent)
           keys == catches[at]
           m == Min(sp)
           a == Answering(at, c, silent)
<1>1. keys \in Seq(Classes) /\ DOMAIN keys = 1 .. Len(keys) /\ Len(keys) \in Nat
  BY LenProperties
<1>2. sp \subseteq DOMAIN keys /\ \A j \in sp : keys[j] \in Above[c] /\ keys[j] \in Classes
  BY <1>1, ElementOfSeq DEF Speaking
<1>3. m \in sp /\ \A j \in sp : m <= j
  <2>1. sp \subseteq Nat /\ sp # {}
    BY <1>1, <1>2
  <2> HIDE DEF sp
  <2> QED
    BY <2>1, LeastIsMin
<1>4. a = IF \E i \in sp : keys[i] = c THEN c ELSE keys[m]
  BY DEF Answering
<1> HIDE DEF a, m, sp
<1>5. \E i \in sp : a = keys[i]
  BY <1>3, <1>4
<1>6. ASSUME NEW j \in sp, at = App, keys[j] # a
      PROVE  a \notin Above[keys[j]]
  <2>1. CASE \E i \in sp : keys[i] = c
    <3>1. a = c /\ c \in Classes
      BY <1>2, <1>4, <2>1
    <3> QED
      BY <1>2, <1>6, <3>1, ClassesAssumption
  <2>2. CASE ~(\E i \in sp : keys[i] = c)
    <3>1. a = keys[m] /\ m # j /\ m <= j
      BY <1>3, <1>4, <1>6, <2>2
    <3>2. m \in DOMAIN keys /\ j \in DOMAIN keys /\ m < j
      BY <1>1, <1>2, <1>3, <3>1
    <3>3. Sorted(keys)
      BY <1>6
    <3> QED
      BY <3>1, <3>2, <3>3 DEF Sorted
  <2> QED
    BY <2>1, <2>2
<1> QED
  BY <1>4, <1>5, <1>6 DEF a, sp

LEMMA ProcessExceptionIsNearest ==
    ASSUME catches \in [All -> Seq(Classes)], Sorted(catches[App]),
           NEW up \in Seq(All), NEW b, up = Lineage(b), NEW c, NEW silent
    PROVE  IsNearest(up, catches, c, silent, ProcessException(b, c, silent))
<1> DEFINE able == {n \in DOMAIN up : Speaking(up[n], c, silent) # {}}
           fit == Fitting(up, catches, c, silent)
           n == Min(able)
           at == up[n]
           a == Answering(at, c, silent)
           by == ProcessException(b, c, silent)
           t == <<n, a>>
<1>1. DOMAIN up = 1 .. Len(up) /\ Len(up) \in Nat /\ \A k \in DOMAIN up : up[k] \in All
  BY LenProperties, ElementOfSeq
<1>2. by = IF able = {} THEN <<>> ELSE <<at, a>>
  BY DEF ProcessException
<1>3. ASSUME NEW u \in fit
      PROVE  /\ u[1] \in DOMAIN up /\ u = <<u[1], u[2]>>
             /\ \E j \in Speaking(up[u[1]], c, silent) : catches[up[u[1]]][j] = u[2]
  <2>1. /\ u[1] \in DOMAIN up /\ u = <<u[1], u[2]>> /\ u[2] \in Above[c]
        /\ Contains(catches[up[u[1]]], u[2]) /\ <<up[u[1]], u[2]>> \notin silent
    BY DEF Fitting
  <2>2. up[u[1]] \in All
    BY <1>1, <2>1
  <2>3. PICK j \in DOMAIN catches[up[u[1]]] : catches[up[u[1]]][j] = u[2]
    <3>1. catches[up[u[1]]] \in Seq(Classes)
      BY <2>2
    <3> QED
      BY <2>1, <3>1, LenProperties DEF Contains
  <2>4. j \in Speaking(up[u[1]], c, silent)
    BY <2>1, <2>3 DEF Speaking
  <2> QED
    BY <2>1, <2>3, <2>4
<1>4. \A u \in fit : u[1] \in able
  BY <1>3
<1>5. CASE able = {}
  <2>1. fit = {} /\ by = <<>>
    BY <1>2, <1>4, <1>5
  <2> QED
    BY <2>1 DEF IsNearest
<1>6. CASE able # {}
  <2>1. n \in able /\ \A k \in able : n <= k
    <3>1. able \subseteq Nat
      BY <1>1
    <3> HIDE DEF able
    <3> QED
      BY <1>6, <3>1, LeastIsMin
  <2>2. n \in DOMAIN up /\ at \in All /\ Speaking(at, c, silent) # {}
    BY <1>1, <2>1
  <2> HIDE DEF n
  <2>3. /\ \E i \in Speaking(at, c, silent) : a = catches[at][i]
        /\ \A j \in Speaking(at, c, silent) :
              /\ catches[at][j] = c => a = c
              /\ at = App /\ catches[at][j] # a => a \notin Above[catches[at][j]]
    BY <2>2, AnsweringIsNearest
  <2>4. a \in Above[c] /\ Contains(catches[at], a) /\ <<at, a>> \notin silent
    <3>1. PICK i \in Speaking(at, c, silent) : a = catches[at][i]
      BY <2>3
    <3>2. i \in DOMAIN catches[at] /\ a \in Above[c] /\ <<at, a>> \notin silent
      BY <3>1 DEF Speaking
    <3>3. catches[at] \in Seq(Classes)
      BY <2>2
    <3> QED
      BY <3>1, <3>2, <3>3, LenProperties DEF Contains
  <2>5. t[1] = n /\ t[2] = a /\ up[t[1]] = at
    OBVIOUS
  <2>6. t \in fit
    BY <2>2, <2>4 DEF Fitting
  <2> HIDE DEF a
  <2>7. ASSUME NEW u \in fit
        PROVE  /\ n <= u[1]
               /\ n = u[1] /\ u[2] = c => t = u
               /\ n = u[1] /\ at = App /\ t # u => a \notin Above[u[2]]
    <3>1. u[1] \in able /\ u = <<u[1], u[2]>>
      BY <1>3
    <3>2. ASSUME n = u[1]
          PROVE  \E j \in Speaking(at, c, silent) : catches[at][j] = u[2]
      BY <1>3, <3>2
    <3>3. n <= u[1]
      BY <2>1, <3>1
    <3>4. ASSUME n = u[1], u[2] = c
          PROVE  t = u
      BY <2>3, <3>1, <3>2, <3>4
    <3>5. ASSUME n = u[1], at = App, t # u
          PROVE  a \notin Above[u[2]]
      <4>1. u[2] # a
        BY <3>1, <3>5
      <4> QED
        BY <2>3, <3>2, <3>5, <4>1
    <3> QED
      BY <3>3, <3>4, <3>5
  <2>8. by = <<at, a>>
    BY <1>2, <1>6 DEF a
  <2> HIDE DEF t, fit, by
  <2>9. IsNearest(up, catches, c, silent, by)
    BY <2>5, <2>6, <2>7, <2>8 DEF IsNearest, fit
  <2> QED
    BY <2>9 DEF by
<1> QED
  BY <1>5, <1>6

-----------------------------------------------------------------------------
(* The handler that answers an exception. *)

(* What makes Nearest inductive: the handlers of a blueprint are distinct,  *)
(* so that those of the application can be sorted when the server starts,   *)
(* and no request is served before.                                         *)
HandlersListed ==
    /\ catches \in [All -> Seq(Classes)]
    /\ phase = "declaring" => last.raised = None /\ \A b \in All : Distinct(catches[b])
    /\ phase # "declaring" => Sorted(catches[App])

NInv == HandlersListed /\ Nearest

LEMMA NearestForm ==
    Nearest <=> (last.raised # None =>
        IsNearest(Lineage(Owner(last.route)), catches, last.raised, last.silent, last.by))
BY DEF Nearest, IsNearest, Fitting

LEMMA NearestFormNext ==
    Nearest' <=> (last'.raised # None =>
        IsNearest(Lineage(Owner(last.route))', catches', last'.raised, last'.silent, last'.by))
BY DEF Nearest, IsNearest, Fitting

(* No request, nothing to show. *)
LEMMA NothingRaised ==
    ASSUME last'.raised = None
    PROVE  Nearest'
BY DEF Nearest

LEMMA SameAnswer ==
    ASSUME NInv, UNCHANGED <<parent, catches, routes, phase, last>>
    PROVE  NInv'
<1>1. Lineage(Owner(last.route))' = Lineage(Owner(last.route))
  BY SameLineage
<1>2. Nearest'
  BY <1>1, NearestForm, NearestFormNext DEF NInv
<1> QED
  BY <1>2 DEF NInv, HandlersListed

LEMMA StillDeclaring ==
    ASSUME NInv, phase = "declaring", UNCHANGED <<catches, phase, last>>
    PROVE  NInv'
<1>1. last'.raised = None
  BY DEF NInv, HandlersListed
<1> QED
  BY <1>1, NothingRaised DEF NInv, HandlersListed

LEMMA AnswersStart ==
    ASSUME Init
    PROVE  NInv
<1>1. /\ catches = [b \in All |-> <<>>] /\ phase = "declaring" /\ last.raised = None
  BY DEF Init, NoRequest
<1>2. Distinct(<<>>)
  BY DEF Distinct
<1>3. HandlersListed
  BY <1>1, <1>2 DEF HandlersListed
<1>4. Nearest
  BY <1>1 DEF Nearest
<1> QED
  BY <1>3, <1>4 DEF NInv

LEMMA CatchAnswers ==
    ASSUME IInv, NInv, NEW b \in All, NEW c \in setting.catchable, Catch(b, c)
    PROVE  NInv'
<1>1. /\ phase = "declaring" /\ UNCHANGED <<phase, last>>
      /\ catches' = [catches EXCEPT ![b] = WithKey(@, c)]
  BY DEF Catch
<1>2. c \in Classes
  BY ClassesAssumption DEF IInv, Structure
<1>3. /\ catches \in [All -> Seq(Classes)] /\ last.raised = None
      /\ \A a \in All : Distinct(catches[a])
  BY <1>1 DEF NInv, HandlersListed
<1>4. WithKey(catches[b], c) \in Seq(Classes) /\ Distinct(WithKey(catches[b], c))
  BY <1>2, <1>3, WithKeyKeeps
<1>5. /\ catches' \in [All -> Seq(Classes)] /\ \A a \in All : Distinct(catches'[a])
  BY <1>1, <1>3, <1>4
<1>6. HandlersListed'
  BY <1>1, <1>3, <1>5 DEF HandlersListed
<1>7. Nearest'
  BY <1>1, <1>3, NothingRaised
<1> QED
  BY <1>6, <1>7 DEF NInv

(* Now the handlers of the application are sorted. *)
LEMMA InitializeAnswers ==
    ASSUME NInv, Initialize
    PROVE  NInv'
<1>1. /\ phase = "declaring" /\ phase' = "starting" /\ last' = last
      /\ catches' = [catches EXCEPT ![App] = SortErrorHandlers(WithDefaults(@))]
  BY DEF Initialize
<1>2. /\ catches \in [All -> Seq(Classes)] /\ last.raised = None
      /\ App \in All /\ Distinct(catches[App])
  BY <1>1, Names DEF NInv, HandlersListed
<1> DEFINE keys == WithDefaults(catches[App])
<1>3. keys \in Seq(Classes) /\ Distinct(keys)
  BY <1>2, WithDefaultsKeeps
<1> HIDE DEF keys
<1>4. SortErrorHandlers(keys) \in Seq(Classes) /\ Sorted(SortErrorHandlers(keys))
  BY <1>3, SortErrorHandlersSorts
<1>5. catches' = [catches EXCEPT ![App] = SortErrorHandlers(keys)]
  BY <1>1 DEF keys
<1>6. catches' \in [All -> Seq(Classes)] /\ Sorted(catches'[App])
  BY <1>2, <1>4, <1>5
<1>7. HandlersListed'
  BY <1>1, <1>6 DEF HandlersListed
<1>8. Nearest'
  BY <1>1, <1>2, NothingRaised
<1> QED
  BY <1>7, <1>8 DEF NInv

LEMMA StartHooksAnswers ==
    ASSUME NInv, NEW o, StartHooks(o)
    PROVE  NInv'
<1>1. /\ phase = "starting" /\ phase' \in {"dead", "serving"} /\ catches' = catches
      /\ last'.raised = None
  BY DEF StartHooks, NoRequest
<1>2. HandlersListed'
  BY <1>1 DEF NInv, HandlersListed
<1> QED
  BY <1>1, <1>2, NothingRaised DEF NInv

(* An exception of a request goes to the handlers as they are now. *)
LEMMA ServeAnswers ==
    ASSUME IInv, NInv, NEW r, NEW o, Serve(r, o)
    PROVE  NInv'
<1> DEFINE b == Owner(r)
           e == AddEphemeral(conn.engine, "Request")
           Called(event, comps) == IF event \in conn.flags
               THEN CallHooks(Targets(b, event), comps, o.answering)
               ELSE [ran |-> <<>>, answered |-> FALSE, failed |-> {}]
           before == Called("before", e)
           halted == before.answered \/ before.failed # {}
           wrong == IF o.raises # None THEN {o.raises}
                    ELSE UNION {Failures(e, t) : t \in o.wants}
           returned == ~halted /\ wrong = {}
           after == Called("after", AddEphemeral(e, "Response"))
           sends == returned /\ after.failed = {}
           sent == Called("sent", Reset(e))
           raised == CASE halted -> before.failed
                       [] ~halted /\ ~returned -> wrong
                       [] returned /\ ~sends -> after.failed
                       [] OTHER -> sent.failed
           class == IF raised = {} THEN None ELSE CHOOSE c \in raised : TRUE
           answer == ProcessException(b, class, o.silent)
           by == IF raised = {} THEN <<>> ELSE answer
           ran == before.ran \o (IF returned THEN after.ran ELSE <<>>)
                      \o (IF sends THEN sent.ran ELSE <<>>)
           cut == after.answered \/ after.failed # {}
           answers == (IF before.answered \/ sends THEN 1 ELSE 0) + (IF by = <<>> THEN 0 ELSE 1)
<1>1. /\ UNCHANGED <<parent, nested, hooks, catches, routes, table, engine, phase, conn,
                     declared, count>>
      /\ conn # None /\ \E p \in table : p[1] = r
      /\ last' = [route |-> r, ran |-> ran, returned |-> returned, cut |-> cut,
                  raised |-> class, by |-> by, silent |-> o.silent, answers |-> answers]
  BY Zenon DEF Serve
<1>2. raised = {} => class = None
  OBVIOUS
<1>3. raised # {} => by = answer
  OBVIOUS
<1> HIDE DEF raised, class, by, ran, returned, cut, answers, answer
<1>4. /\ last'.route = r /\ last'.raised = class /\ last'.by = by /\ last'.silent = o.silent
  BY <1>1
<1>5. b \in All
  <2>1. \E c \in All : r \in routes[c]
    BY <1>1 DEF IInv, Known
  <2> QED
    BY <2>1 DEF Owner
<1>6. phase = "serving"
  BY <1>1 DEF IInv, Accepted
<1>7. /\ parent \in [All -> All \cup {None}] /\ catches \in [All -> Seq(Classes)]
      /\ Sorted(catches[App])
  BY <1>6 DEF IInv, Structure, NInv, HandlersListed
<1>8. Lineage(b) \in Seq(All)
  BY <1>5, <1>7, LineageType
<1>9. IsNearest(Lineage(b), catches, class, o.silent, answer)
  BY <1>7, <1>8, ProcessExceptionIsNearest DEF answer
<1>10. Lineage(Owner(last.route))' = Lineage(b)
  <2>1. Lineage(Owner(last.route))' = LineageIn(parent', OwnerIn(routes', last'.route))
    BY DEF Lineage, LineageIn, Owner, OwnerIn
  <2>2. Lineage(b) = LineageIn(parent, OwnerIn(routes, r))
    BY DEF Lineage, LineageIn, Owner, OwnerIn
  <2> QED
    BY <1>1, <1>4, <2>1, <2>2
<1>11. Nearest'
  <2> SUFFICES ASSUME last'.raised # None
               PROVE  IsNearest(Lineage(Owner(last.route))', catches', last'.raised,
                                last'.silent, last'.by)
    BY NearestFormNext
  <2>1. by = answer
    BY <1>2, <1>3, <1>4
  <2> QED
    BY <1>1, <1>4, <1>9, <1>10, <2>1
<1>12. HandlersListed'
  <2>1. phase' = "serving" /\ catches' = catches
    BY <1>1, <1>6
  <2> QED
    BY <1>7, <2>1 DEF HandlersListed
<1> QED
  BY <1>11, <1>12 DEF NInv

LEMMA AnswersStep ==
    ASSUME IInv, NInv, [Next]_vars
    PROVE  NInv'
<1>1. CASE UNCHANGED vars
  BY <1>1, SameAnswer DEF vars
<1>2. ASSUME NEW b \in All, NEW h, Handle(b, h)
      PROVE  NInv'
  BY <1>2, SameAnswer DEF Handle
<1>3. ASSUME NEW b \in All, NEW r, Route(b, r)
      PROVE  NInv'
  BY <1>3, StillDeclaring DEF Route
<1>4. ASSUME NEW b \in Blueprints, NEW c \in Blueprints, NEW prefixes, Nest(b, c, prefixes)
      PROVE  NInv'
  <2>1. phase = "declaring" /\ UNCHANGED <<catches, phase, last>>
    BY <1>4 DEF Nest, Adopt
  <2> QED
    BY <2>1, StillDeclaring
<1>5. ASSUME NEW c \in Blueprints, NEW prefixes, AddBlueprint(c, prefixes)
      PROVE  NInv'
  <2>1. phase = "declaring" /\ UNCHANGED <<catches, phase, last>>
    BY <1>5 DEF AddBlueprint, Adopt
  <2> QED
    BY <2>1, StillDeclaring
<1>6. ASSUME NEW t, AddComponent(t)
      PROVE  NInv'
  BY <1>6, SameAnswer DEF AddComponent
<1>7. CASE Accept
  BY <1>7, SameAnswer DEF Accept
<1> QED
  BY <1>1, <1>2, <1>3, <1>4, <1>5, <1>6, <1>7, CatchAnswers, InitializeAnswers,
     StartHooksAnswers, ServeAnswers DEF Next, Step, Declaration

(* Whatever exceptions there are and whatever handlers are declared for     *)
(* them, in whatever order and on blueprints nested in whatever way, an     *)
(* exception is answered by the nearest blueprint that can, there by the    *)
(* handler of its own class if there is one, and on the application by the  *)
(* most specific (blueprints.py:96-124, server.py:170-187).                 *)
THEOREM HandlersAreNearest == Spec => []Nearest
<1>1. Init => NInv
  BY AnswersStart
<1>2. IInv /\ NInv /\ [Next]_vars => NInv'
  BY AnswersStep
<1>3. NInv => Nearest
  BY DEF NInv
<1> QED
  BY <1>1, <1>2, <1>3, Invariance, PTL DEF Spec

=============================================================================
