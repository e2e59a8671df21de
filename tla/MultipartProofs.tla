--------------------------- MODULE MultipartProofs ---------------------------
(* Whatever form is posted and however its body is cut into chunks, every   *)
(* value arrives as it was sent, unless a flush parts the line end of a     *)
(* delimiter.                                                               *)
EXTENDS Multipart, SequenceTheorems, WellFoundedInduction, TLAPS

Symbols == Bytes \cup Names \cup {"CR", "LF", "-"}

(* Where the section of part i starts; that of the closing comes last. *)
Start(form, i) == Len(Sections(form)[i - 1])

(* A set of numbers that is not empty has a least element. *)
LEMMA Least ==
    ASSUME NEW T, T \subseteq Nat, T # {}
    PROVE  \E n \in T : \A m \in T : n =< m
<1>1. PICK n \in T : \A y \in T : ~(<<y, n>> \in OpToRel(<, Nat))
  BY WFMin, NatLessThanWellFounded
<1>2. \A x, y \in Nat : x < y => <<x, y>> \in OpToRel(<, Nat)
  BY DEF OpToRel
<1>3. \A m \in T : n =< m
  <2> TAKE m \in T
  <2>1. ~(m < n) /\ m \in Nat /\ n \in Nat
    BY <1>1, <1>2
  <2> QED
    BY <2>1
<1> QED
  BY <1>3

(* Induction up to N, over a set instead of a predicate. *)
LEMMA UpTo ==
    ASSUME NEW N \in Nat, NEW T, 0 \in T,
           \A n \in 1 .. N : n - 1 \in T => n \in T
    PROVE  \A n \in 0 .. N : n \in T
<1> DEFINE Bad == {n \in 0 .. N : n \notin T}
<1> SUFFICES ASSUME Bad # {} PROVE FALSE
  OBVIOUS
<1>1. Bad \subseteq Nat
  OBVIOUS
<1>2. PICK n \in Bad : \A m \in Bad : n =< m
  <2> HIDE DEF Bad
  <2> QED
    BY <1>1, Least
<1>3. n \in 1 .. N /\ n - 1 \in 0 .. N /\ ~(n =< n - 1)
  BY <1>2
<1>4. n - 1 \in T
  BY <1>2, <1>3
<1> QED
  BY <1>2, <1>3, <1>4

-----------------------------------------------------------------------------
(* How a form is laid out in its body. *)

(* The recursive function of Sections exists. *)
LEMMA SectionsExist ==
    ASSUME NEW form, Len(form) \in Nat
    PROVE  /\ Sections(form)[0] = <<>>
           /\ \A n \in 1 .. Len(form) :
                 Sections(form)[n] = Sections(form)[n - 1] \o Section(form[n])
<1> DEFINE N == Len(form)
           Turn(f, n) == IF n = 0 THEN <<>> ELSE f[n - 1] \o Section(form[n])
           Chain(f, k) == f = [n \in 0 .. k |-> Turn(f, n)]
           Exist == {k \in 0 .. N : \E f : Chain(f, k)}
           Taken == CHOOSE f : Chain(f, N)
<1>1. N \in Nat
  OBVIOUS
<1>2. 0 \in Exist
  <2> DEFINE g == [n \in 0 .. 0 |-> <<>>]
  <2>1. g = [n \in 0 .. 0 |-> Turn(g, n)]
    OBVIOUS
  <2>2. Chain(g, 0)
    BY <2>1
  <2> HIDE DEF g, Chain
  <2> QED
    BY <1>1, <2>2
<1>3. ASSUME NEW k \in 1 .. N, k - 1 \in Exist
      PROVE  k \in Exist
  <2>1. PICK f : Chain(f, k - 1)
    BY <1>3
  <2>2. k \in Nat /\ k # 0 /\ k \in 0 .. N
    BY <1>1
  <2> DEFINE g == [n \in 0 .. k |-> IF n = k THEN Turn(f, k) ELSE f[n]]
  <2>3. ASSUME NEW n \in 0 .. k
        PROVE  g[n] = Turn(g, n)
    <3>1. CASE n = k
      <4>1. k - 1 \in 0 .. k /\ k - 1 # k
        BY <2>2
      <4> QED
        BY <2>2, <3>1, <4>1
    <3>2. CASE n # k
      <4>1. n \in 0 .. k - 1 /\ (n # 0 => n - 1 \in 0 .. k /\ n - 1 # k)
        BY <2>2, <3>2
      <4>2. f[n] = Turn(f, n)
        BY <2>1, <4>1
      <4> QED
        BY <3>2, <4>1, <4>2
    <3> QED
      BY <3>1, <3>2
  <2>4. Chain(g, k)
    BY <2>3
  <2> HIDE DEF g, Chain
  <2> QED
    BY <2>2, <2>4
<1>4. N \in Exist
  <2> HIDE DEF Exist, N
  <2>1. \A k \in 0 .. N : k \in Exist
    BY <1>1, <1>2, <1>3, UpTo
  <2> QED
    BY <1>1, <2>1
<1>5. Chain(Taken, N)
  <2> HIDE DEF Chain
  <2> QED
    BY <1>4
<1>6. Sections(form) = Taken
  BY DEF Sections
<1>7. \A n \in 0 .. N : Taken[n] = Turn(Taken, n)
  <2> HIDE DEF Taken, Turn
  <2> QED
    BY <1>5
<1> HIDE DEF Taken
<1>8. Taken[0] = <<>>
  BY <1>1, <1>7
<1>9. ASSUME NEW n \in 1 .. N
      PROVE  Taken[n] = Taken[n - 1] \o Section(form[n])
  BY <1>1, <1>7, n # 0, n \in 0 .. N
<1> QED
  BY <1>6, <1>8, <1>9

(* Where the bytes of two sequences are once they are joined. *)
LEMMA Joined ==
    ASSUME NEW S, NEW s \in Seq(S), NEW t \in Seq(S)
    PROVE  /\ s \o t \in Seq(S)
           /\ Len(s) \in Nat /\ Len(t) \in Nat
           /\ Len(s \o t) = Len(s) + Len(t)
           /\ \A j \in 1 .. Len(s) : (s \o t)[j] = s[j]
           /\ \A j \in 1 .. Len(t) : (s \o t)[Len(s) + j] = t[j]
<1>1. /\ s \o t \in Seq(S) /\ Len(s \o t) = Len(s) + Len(t)
      /\ \A i \in 1 .. Len(s) + Len(t) : (s \o t)[i] = IF i <= Len(s) THEN s[i] ELSE t[i - Len(s)]
  BY ConcatProperties
<1>2. Len(s) \in Nat /\ Len(t) \in Nat
  OBVIOUS
<1> DEFINE u == s \o t
<1> HIDE DEF u
<1>3. \A i \in 1 .. Len(s) + Len(t) : u[i] = IF i <= Len(s) THEN s[i] ELSE t[i - Len(s)]
  BY <1>1 DEF u
<1>4. \A j \in 1 .. Len(s) : u[j] = s[j]
  BY <1>2, <1>3
<1>5. \A j \in 1 .. Len(t) : u[Len(s) + j] = t[j]
  <2> TAKE j \in 1 .. Len(t)
  <2>1. Len(s) + j \in 1 .. Len(s) + Len(t) /\ ~(Len(s) + j <= Len(s)) /\ (Len(s) + j) - Len(s) = j
    BY <1>2
  <2> QED
    BY <1>3, <2>1
<1> QED
  BY <1>1, <1>2, <1>4, <1>5 DEF u

LEMMA BoundaryType ==
    /\ Boundary \in Seq(Symbols) /\ BoundaryLength \in Nat \ {0}
    /\ Len(Boundary) = BoundaryLength
    /\ \A j \in 1 .. BoundaryLength : Boundary[j] \in Bytes /\ Boundary[j] # "CR" /\ Boundary[j] # "LF"
<1>1. Boundary \in Seq(Bytes \ {"CR", "LF"}) /\ Boundary # <<>>
  BY BoundaryAssumption
<1>2. Len(Boundary) \in Nat /\ Len(Boundary) # 0
  BY <1>1
<1>3. \A j \in 1 .. Len(Boundary) : Boundary[j] \in Bytes \ {"CR", "LF"}
  BY <1>1
<1>4. Boundary \in Seq(Symbols)
  <2>1. Bytes \ {"CR", "LF"} \subseteq Symbols
    BY DEF Symbols
  <2> QED
    BY <1>1, <2>1, SeqMonotonic
<1> QED
  BY <1>2, <1>3, <1>4 DEF BoundaryLength

(* The bytes of one section. *)
LEMMA SectionBytes ==
    ASSUME NEW part, part.name \in Names, part.content \in Seq(Bytes)
    PROVE  LET s == Section(part)
               b == BoundaryLength
               c == Len(part.content)
           IN  /\ s \in Seq(Symbols) /\ c \in Nat /\ Len(s) = b + c + 9
               /\ \A j \in 1 .. b : s[j] = Boundary[j]
               /\ s[b + 1] = "CR" /\ s[b + 2] = "LF" /\ s[b + 3] = part.name
               /\ s[b + 4] = "CR" /\ s[b + 5] = "LF" /\ s[b + 6] = "CR" /\ s[b + 7] = "LF"
               /\ \A j \in 1 .. c : s[b + 7 + j] = part.content[j]
               /\ s[b + c + 8] = "CR" /\ s[b + c + 9] = "LF"
<1> DEFINE b == BoundaryLength
           c == Len(part.content)
           s1 == Boundary \o CRLF
           s2 == s1 \o <<part.name>>
           s3 == s2 \o CRLF
           s4 == s3 \o CRLF
           s5 == s4 \o part.content
           s6 == s5 \o CRLF
<1>0. /\ CRLF \in Seq(Symbols) /\ Len(CRLF) = 2 /\ CRLF[1] = "CR" /\ CRLF[2] = "LF"
      /\ <<part.name>> \in Seq(Symbols) /\ Len(<<part.name>>) = 1 /\ <<part.name>>[1] = part.name
  BY DEF CRLF, Symbols
<1>1. part.content \in Seq(Symbols) /\ c \in Nat
  <2>1. Bytes \subseteq Symbols
    BY DEF Symbols
  <2> QED
    BY <2>1, SeqMonotonic
<1>2. /\ s1 \in Seq(Symbols) /\ Len(s1) = b + 2 /\ b \in Nat
      /\ \A j \in 1 .. b : s1[j] = Boundary[j]
      /\ s1[b + 1] = "CR" /\ s1[b + 2] = "LF"
  <2>1. /\ s1 \in Seq(Symbols) /\ Len(s1) = Len(Boundary) + Len(CRLF)
        /\ \A j \in 1 .. Len(Boundary) : s1[j] = Boundary[j]
        /\ \A j \in 1 .. Len(CRLF) : s1[Len(Boundary) + j] = CRLF[j]
    <3>1. Boundary \in Seq(Symbols) /\ CRLF \in Seq(Symbols)
      BY <1>0, BoundaryType
    <3> QED
      BY <3>1, Joined
  <2> HIDE DEF s1
  <2> QED
    BY <1>0, <2>1, BoundaryType
<1> HIDE DEF s1
<1>3. /\ s2 \in Seq(Symbols) /\ Len(s2) = b + 3
      /\ \A j \in 1 .. b + 2 : s2[j] = s1[j]
      /\ s2[b + 3] = part.name
  <2>1. /\ s2 \in Seq(Symbols) /\ Len(s2) = Len(s1) + Len(<<part.name>>)
        /\ \A j \in 1 .. Len(s1) : s2[j] = s1[j]
        /\ \A j \in 1 .. Len(<<part.name>>) : s2[Len(s1) + j] = <<part.name>>[j]
    BY <1>0, <1>2, Joined
  <2> HIDE DEF s2, b
  <2> QED
    BY <1>0, <1>2, <2>1
<1> HIDE DEF s2
<1>4. /\ s3 \in Seq(Symbols) /\ Len(s3) = b + 5
      /\ \A j \in 1 .. b + 3 : s3[j] = s2[j]
      /\ s3[b + 4] = "CR" /\ s3[b + 5] = "LF"
  <2>1. /\ s3 \in Seq(Symbols) /\ Len(s3) = Len(s2) + Len(CRLF)
        /\ \A j \in 1 .. Len(s2) : s3[j] = s2[j]
        /\ \A j \in 1 .. Len(CRLF) : s3[Len(s2) + j] = CRLF[j]
    <3>1. s2 \in Seq(Symbols) /\ CRLF \in Seq(Symbols)
      BY <1>0, <1>3
    <3> QED
      BY <3>1, Joined
  <2> HIDE DEF s3, b
  <2> QED
    BY <1>0, <1>2, <1>3, <2>1
<1> HIDE DEF s3
<1>5. /\ s4 \in Seq(Symbols) /\ Len(s4) = b + 7
      /\ \A j \in 1 .. b + 5 : s4[j] = s3[j]
      /\ s4[b + 6] = "CR" /\ s4[b + 7] = "LF"
  <2>1. /\ s4 \in Seq(Symbols) /\ Len(s4) = Len(s3) + Len(CRLF)
        /\ \A j \in 1 .. Len(s3) : s4[j] = s3[j]
        /\ \A j \in 1 .. Len(CRLF) : s4[Len(s3) + j] = CRLF[j]
    <3>1. s3 \in Seq(Symbols) /\ CRLF \in Seq(Symbols)
      BY <1>0, <1>4
    <3> QED
      BY <3>1, Joined
  <2> HIDE DEF s4, b
  <2> QED
    BY <1>0, <1>2, <1>4, <2>1
<1> HIDE DEF s4
<1>6. /\ s5 \in Seq(Symbols) /\ Len(s5) = b + 7 + c
      /\ \A j \in 1 .. b + 7 : s5[j] = s4[j]
      /\ \A j \in 1 .. c : s5[b + 7 + j] = part.content[j]
  <2>1. /\ s5 \in Seq(Symbols) /\ Len(s5) = Len(s4) + c
        /\ \A j \in 1 .. Len(s4) : s5[j] = s4[j]
        /\ \A j \in 1 .. c : s5[Len(s4) + j] = part.content[j]
    <3>1. s4 \in Seq(Symbols) /\ part.content \in Seq(Symbols)
      BY <1>1, <1>5
    <3> QED
      BY <3>1, Joined
  <2> HIDE DEF s5, b
  <2> QED
    BY <1>2, <1>5, <2>1
<1> HIDE DEF s5
<1>7. /\ s6 \in Seq(Symbols) /\ Len(s6) = b + c + 9
      /\ \A j \in 1 .. b + 7 + c : s6[j] = s5[j]
      /\ s6[b + c + 8] = "CR" /\ s6[b + c + 9] = "LF"
  <2>1. /\ s6 \in Seq(Symbols) /\ Len(s6) = Len(s5) + Len(CRLF)
        /\ \A j \in 1 .. Len(s5) : s6[j] = s5[j]
        /\ \A j \in 1 .. Len(CRLF) : s6[Len(s5) + j] = CRLF[j]
    <3>1. s5 \in Seq(Symbols) /\ CRLF \in Seq(Symbols)
      BY <1>0, <1>6
    <3> QED
      BY <3>1, Joined
  <2> HIDE DEF s6, b, c
  <2>2. Len(s5) + 1 = b + c + 8 /\ Len(s5) + 2 = b + c + 9
    BY <1>1, <1>2, <1>6
  <2> QED
    BY <1>0, <1>1, <1>2, <1>6, <2>1, <2>2
<1>8. Section(part) = s6
  BY DEF Section, CreateHeaders, s1, s2, s3, s4, s5
<1> HIDE DEF s6, b, c
<1>9. /\ \A j \in 1 .. b : s6[j] = Boundary[j]
      /\ s6[b + 1] = "CR" /\ s6[b + 2] = "LF" /\ s6[b + 3] = part.name
      /\ s6[b + 4] = "CR" /\ s6[b + 5] = "LF" /\ s6[b + 6] = "CR" /\ s6[b + 7] = "LF"
  <2>1. \A j \in 1 .. b + 7 : s6[j] = s4[j]
    BY <1>1, <1>2, <1>6, <1>7
  <2>2. \A j \in 1 .. b + 5 : s6[j] = s3[j]
    BY <1>2, <1>5, <2>1
  <2>3. \A j \in 1 .. b + 3 : s6[j] = s2[j]
    BY <1>2, <1>4, <2>2
  <2>4. \A j \in 1 .. b + 2 : s6[j] = s1[j]
    BY <1>2, <1>3, <2>3
  <2>5. \A j \in 1 .. b : s6[j] = Boundary[j]
    BY <1>2, <2>4
  <2>6. s6[b + 1] = "CR" /\ s6[b + 2] = "LF"
    BY <1>2, <2>4
  <2>7. s6[b + 3] = part.name
    BY <1>2, <1>3, <2>3
  <2>8. s6[b + 4] = "CR" /\ s6[b + 5] = "LF"
    BY <1>2, <1>4, <2>2
  <2>9. s6[b + 6] = "CR" /\ s6[b + 7] = "LF"
    BY <1>2, <1>5, <2>1
  <2> QED
    BY <2>5, <2>6, <2>7, <2>8, <2>9
<1>10. \A j \in 1 .. c : s6[b + 7 + j] = part.content[j]
  BY <1>1, <1>2, <1>6, <1>7
<1> QED
  BY <1>1, <1>7, <1>8, <1>9, <1>10 DEF b, c

LEMMA FormType ==
    ASSUME NEW form \in Forms
    PROVE  /\ Len(form) \in Nat \ {0}
           /\ \A i \in 1 .. Len(form) :
                 form[i].name \in Names /\ form[i].content \in Seq(Bytes) /\ Len(form[i].content) \in Nat
<1>1. form \in Seq([name : Names, content : Seq(Bytes)]) /\ form # <<>>
  BY FormsAssumption
<1> DEFINE R == [name : Names, content : Seq(Bytes)]
<1>2. Len(form) \in Nat \ {0} /\ \A i \in 1 .. Len(form) : form[i] \in R
  <2>1. form \in Seq(R) /\ form # <<>>
    BY <1>1
  <2> HIDE DEF R
  <2> QED
    BY <2>1
<1>3. \A r \in R : r.name \in Names /\ r.content \in Seq(Bytes) /\ Len(r.content) \in Nat
  OBVIOUS
<1> HIDE DEF R
<1> QED
  BY <1>2, <1>3

(* Each sequence of sections begins with the ones before it. *)
LEMMA SectionsType ==
    ASSUME NEW form \in Forms
    PROVE  \A n \in 0 .. Len(form) :
              /\ Sections(form)[n] \in Seq(Symbols) /\ Len(Sections(form)[n]) \in Nat
              /\ \A m \in 0 .. n :
                    /\ Len(Sections(form)[m]) \in Nat
                    /\ Len(Sections(form)[m]) <= Len(Sections(form)[n])
                    /\ \A j \in 1 .. Len(Sections(form)[m]) :
                          Sections(form)[n][j] = Sections(form)[m][j]
<1> DEFINE N == Len(form)
           f == Sections(form)
           Good(n) == /\ f[n] \in Seq(Symbols) /\ Len(f[n]) \in Nat
                      /\ \A m \in 0 .. n :
                            /\ Len(f[m]) \in Nat
                            /\ Len(f[m]) <= Len(f[n])
                            /\ \A j \in 1 .. Len(f[m]) : f[n][j] = f[m][j]
           T == {n \in 0 .. N : Good(n)}
<1>1. N \in Nat
  BY FormType
<1>2. f[0] = <<>> /\ \A n \in 1 .. N : f[n] = f[n - 1] \o Section(form[n])
  BY <1>1, SectionsExist
<1>3. 0 \in T
  <2>1. Good(0)
    <3> HIDE DEF f
    <3>1. f[0] = <<>> /\ <<>> \in Seq(Symbols) /\ Len(<<>>) = 0
      BY <1>2
    <3>2. \A m \in 0 .. 0 : m = 0
      OBVIOUS
    <3> QED
      BY <3>1, <3>2
  <2> QED
    BY <1>1, <2>1
<1>4. ASSUME NEW n \in 1 .. N, n - 1 \in T
      PROVE  n \in T
  <2>1. Section(form[n]) \in Seq(Symbols)
    BY FormType, SectionBytes
  <2>2. Good(n - 1)
    BY <1>4
  <2> DEFINE s == f[n - 1]
             t == Section(form[n])
             u == f[n]
  <2>3. s \in Seq(Symbols) /\ t \in Seq(Symbols)
    BY <2>1, <2>2
  <2>4. u = s \o t
    BY <1>2
  <2> HIDE DEF s, t, u
  <2>5. /\ u \in Seq(Symbols) /\ Len(s) \in Nat /\ Len(t) \in Nat
        /\ Len(u) = Len(s) + Len(t)
        /\ \A j \in 1 .. Len(s) : u[j] = s[j]
    BY <2>3, <2>4, Joined
  <2>6. ASSUME NEW m \in 0 .. n
        PROVE  /\ Len(f[m]) \in Nat
               /\ Len(f[m]) <= Len(u)
               /\ \A j \in 1 .. Len(f[m]) : u[j] = f[m][j]
    <3>1. CASE m = n
      <4>1. f[m] = u
        BY <3>1 DEF u
      <4> HIDE DEF f
      <4> QED
        BY <2>5, <4>1
    <3>2. CASE m # n
      <4>1. m \in 0 .. n - 1
        BY <1>1, <3>2
      <4>2. /\ Len(f[m]) \in Nat /\ Len(f[m]) <= Len(s)
            /\ \A j \in 1 .. Len(f[m]) : s[j] = f[m][j]
        BY <2>2, <4>1 DEF s
      <4> HIDE DEF f
      <4> QED
        BY <2>5, <4>2
    <3> QED
      BY <3>1, <3>2
  <2>7. Good(n)
    <3>1. u \in Seq(Symbols) /\ Len(u) \in Nat
      BY <2>5
    <3> QED
      BY <2>6, <3>1 DEF u
  <2> HIDE DEF Good
  <2> QED
    BY <1>1, <2>7
<1>5. \A n \in 0 .. N : n \in T
  <2> HIDE DEF T, N
  <2> QED
    BY <1>1, <1>3, <1>4, UpTo
<1> QED
  BY <1>5

LEMMA ClosingBytes ==
    LET t == Boundary \o <<"-", "-">>
    IN  /\ t \in Seq(Symbols) /\ Len(t) = BoundaryLength + 2
        /\ \A j \in 1 .. BoundaryLength : t[j] = Boundary[j]
        /\ t[BoundaryLength + 1] = "-" /\ t[BoundaryLength + 2] = "-"
<1> DEFINE d == <<"-", "-">>
           t == Boundary \o d
<1>1. d \in Seq(Symbols) /\ Boundary \in Seq(Symbols)
  BY BoundaryType DEF Symbols
<1>2. Len(d) = 2 /\ d[1] = "-" /\ d[2] = "-"
  OBVIOUS
<1> HIDE DEF d
<1>3. /\ t \in Seq(Symbols) /\ Len(t) = Len(Boundary) + Len(d)
      /\ \A j \in 1 .. Len(Boundary) : t[j] = Boundary[j]
      /\ \A j \in 1 .. Len(d) : t[Len(Boundary) + j] = d[j]
  BY <1>1, Joined
<1> HIDE DEF t
<1>4. /\ t \in Seq(Symbols) /\ Len(t) = BoundaryLength + 2
      /\ \A j \in 1 .. BoundaryLength : t[j] = Boundary[j]
      /\ t[BoundaryLength + 1] = "-" /\ t[BoundaryLength + 2] = "-"
  BY <1>2, <1>3, BoundaryType
<1> QED
  BY <1>4 DEF t, d

(* The body: the sections of all parts, then the closing delimiter ... *)
LEMMA BodyBytes ==
    ASSUME NEW form \in Forms
    PROVE  LET E == Encode(form)
               N == Len(form)
               e == Start(form, Len(form) + 1)
           IN  /\ E \in Seq(Symbols) /\ e \in Nat /\ Len(E) = e + BoundaryLength + 2
               /\ \A j \in 1 .. BoundaryLength : E[e + j] = Boundary[j]
               /\ E[e + BoundaryLength + 1] = "-" /\ E[e + BoundaryLength + 2] = "-"
               /\ \A n \in 0 .. N : \A j \in 1 .. Len(Sections(form)[n]) : E[j] = Sections(form)[n][j]
<1> DEFINE N == Len(form)
           s == Sections(form)[N]
           t == Boundary \o <<"-", "-">>
           E == Encode(form)
<1>1. N \in Nat /\ N \in 0 .. N /\ (N + 1) - 1 = N
  BY FormType
<1>2. s \in Seq(Symbols) /\ t \in Seq(Symbols)
  <2>1. s \in Seq(Symbols)
    BY <1>1, SectionsType
  <2> QED
    BY <2>1, ClosingBytes
<1>3. E = s \o t /\ Len(s) = Start(form, N + 1)
  BY <1>1 DEF Encode, Start
<1>4. /\ Len(t) = BoundaryLength + 2
      /\ \A j \in 1 .. BoundaryLength : t[j] = Boundary[j]
      /\ t[BoundaryLength + 1] = "-" /\ t[BoundaryLength + 2] = "-"
  BY ClosingBytes
<1> HIDE DEF t, E, s
<1>5. /\ E \in Seq(Symbols) /\ Len(s) \in Nat /\ Len(E) = Len(s) + Len(t)
      /\ \A j \in 1 .. Len(s) : E[j] = s[j]
      /\ \A j \in 1 .. Len(t) : E[Len(s) + j] = t[j]
  <2>1. E = s \o t
    BY <1>3
  <2>2. /\ s \o t \in Seq(Symbols) /\ Len(s) \in Nat /\ Len(s \o t) = Len(s) + Len(t)
        /\ \A j \in 1 .. Len(s) : (s \o t)[j] = s[j]
        /\ \A j \in 1 .. Len(t) : (s \o t)[Len(s) + j] = t[j]
    BY <1>2, Joined
  <2> QED
    BY <2>1, <2>2
<1>6. ASSUME NEW n \in 0 .. N, NEW j \in 1 .. Len(Sections(form)[n])
      PROVE  E[j] = Sections(form)[n][j]
  <2>1. /\ Len(Sections(form)[n]) \in Nat /\ Len(Sections(form)[n]) <= Len(s)
        /\ s[j] = Sections(form)[n][j]
    BY <1>1, SectionsType DEF s
  <2> QED
    BY <1>5, <2>1
<1> DEFINE e == Start(form, N + 1)
<1>7. /\ e \in Nat /\ Len(E) = e + BoundaryLength + 2
      /\ \A j \in 1 .. BoundaryLength : E[e + j] = Boundary[j]
      /\ E[e + BoundaryLength + 1] = "-" /\ E[e + BoundaryLength + 2] = "-"
  <2> HIDE DEF e
  <2>1. /\ e = Len(s) /\ BoundaryLength \in Nat
    BY <1>3, BoundaryType DEF e
  <2>2. Len(E) = e + BoundaryLength + 2
    BY <1>4, <1>5, <2>1
  <2>3. \A j \in 1 .. BoundaryLength : E[e + j] = Boundary[j]
    BY <1>4, <1>5, <2>1
  <2>4. E[e + BoundaryLength + 1] = "-" /\ E[e + BoundaryLength + 2] = "-"
    <3>1. /\ e + BoundaryLength + 1 = Len(s) + (BoundaryLength + 1)
          /\ e + BoundaryLength + 2 = Len(s) + (BoundaryLength + 2)
          /\ BoundaryLength + 1 \in 1 .. Len(t) /\ BoundaryLength + 2 \in 1 .. Len(t)
      BY <1>4, <1>5, <2>1
    <3> QED
      BY <1>4, <1>5, <3>1
  <2> QED
    BY <1>5, <2>1, <2>2, <2>3, <2>4
<1> QED
  BY <1>5, <1>6, <1>7 DEF E

(* ... and a section for each part. *)
LEMMA SectionPlace ==
    ASSUME NEW form \in Forms, NEW i \in 1 .. Len(form)
    PROVE  LET s == Start(form, i)
               x == Section(form[i])
           IN  /\ s \in Nat /\ Len(x) \in Nat /\ Start(form, i + 1) = s + Len(x)
               /\ s + Len(x) <= Len(Encode(form))
               /\ \A j \in 1 .. Len(x) : Encode(form)[s + j] = x[j]
<1> DEFINE f == Sections(form)
           s == f[i - 1]
           x == Section(form[i])
           u == f[i]
           E == Encode(form)
           N == Len(form)
<1>1. N \in Nat /\ i \in Nat /\ i - 1 \in 0 .. N /\ i \in 0 .. N /\ (i + 1) - 1 = i
  BY FormType
<1>2. u = s \o x
  BY SectionsExist, <1>1
<1>3. s \in Seq(Symbols) /\ x \in Seq(Symbols)
  BY <1>1, SectionsType, FormType, SectionBytes
<1>4. Start(form, i) = Len(s) /\ Start(form, i + 1) = Len(u)
  BY <1>1 DEF Start
<1>5. /\ \A j \in 1 .. Len(u) : E[j] = u[j]
  BY <1>1, BodyBytes
<1>6. Len(u) <= Start(form, N + 1) /\ Len(u) \in Nat
  <2>1. N \in 0 .. N /\ i \in 0 .. N /\ (N + 1) - 1 = N
    BY <1>1
  <2> QED
    BY <2>1, SectionsType DEF Start
<1>7. Len(E) = Start(form, N + 1) + BoundaryLength + 2 /\ Start(form, N + 1) \in Nat
  BY BodyBytes
<1> HIDE DEF s, x, u, E
<1>8. /\ Len(s) \in Nat /\ Len(x) \in Nat /\ Len(s \o x) = Len(s) + Len(x)
      /\ \A j \in 1 .. Len(x) : (s \o x)[Len(s) + j] = x[j]
  BY <1>3, Joined
<1>9. \A j \in 1 .. Len(x) : E[Len(s) + j] = x[j]
  <2> TAKE j \in 1 .. Len(x)
  <2>1. Len(s) + j \in 1 .. Len(u)
    BY <1>2, <1>8
  <2>2. u[Len(s) + j] = x[j]
    BY <1>2, <1>8
  <2> QED
    BY <1>5, <2>1, <2>2
<1>10. Len(s) + Len(x) <= Len(E)
  BY <1>2, <1>6, <1>7, <1>8, BoundaryType
<1> QED
  BY <1>2, <1>4, <1>8, <1>9, <1>10 DEF x, E

(* A delimiter starts each section, and the closing. *)
LEMMA DelimiterPlace ==
    ASSUME NEW form \in Forms, NEW i \in 1 .. Len(form) + 1
    PROVE  /\ Start(form, i) \in Nat
           /\ Start(form, i) + BoundaryLength + 2 <= Len(Encode(form))
           /\ \A j \in 1 .. BoundaryLength : Encode(form)[Start(form, i) + j] = Boundary[j]
<1>1. CASE i = Len(form) + 1
  <2>1. /\ Start(form, i) \in Nat /\ Len(Encode(form)) = Start(form, i) + BoundaryLength + 2
        /\ \A j \in 1 .. BoundaryLength : Encode(form)[Start(form, i) + j] = Boundary[j]
    BY <1>1, BodyBytes
  <2> QED
    BY <2>1, BoundaryType
<1>2. CASE i # Len(form) + 1
  <2> DEFINE x == Section(form[i])
  <2>1. i \in 1 .. Len(form)
    BY <1>2, FormType
  <2>2. /\ Len(form[i].content) \in Nat /\ Len(x) = BoundaryLength + Len(form[i].content) + 9
        /\ \A j \in 1 .. BoundaryLength : x[j] = Boundary[j]
    BY <2>1, FormType, SectionBytes
  <2>3. /\ Start(form, i) \in Nat /\ Start(form, i) + Len(x) <= Len(Encode(form))
        /\ \A j \in 1 .. Len(x) : Encode(form)[Start(form, i) + j] = x[j]
    BY <2>1, SectionPlace
  <2> HIDE DEF x
  <2>4. Len(Encode(form)) \in Nat
    <3>1. Encode(form) \in Seq(Symbols)
      BY BodyBytes
    <3> QED
      BY <3>1
  <2>5. BoundaryLength \in Nat
    BY BoundaryType
  <2>6. \A j \in 1 .. BoundaryLength : Encode(form)[Start(form, i) + j] = Boundary[j]
    BY <2>2, <2>3, <2>5
  <2>7. Start(form, i) + BoundaryLength + 2 <= Len(Encode(form))
    <3> DEFINE s == Start(form, i)
               e == Len(Encode(form))
               b == BoundaryLength
               c == Len(form[i].content)
    <3>1. s \in Nat /\ e \in Nat /\ b \in Nat /\ c \in Nat /\ s + (b + c + 9) <= e
      BY <2>2, <2>3, <2>4, <2>5
    <3> HIDE DEF s, e, b, c
    <3>2. s + b + 2 <= e
      BY <3>1
    <3> QED
      BY <3>2 DEF s, e, b
  <2> QED
    BY <2>3, <2>6, <2>7
<1> QED
  BY <1>1, <1>2

(* The bytes of part i, up to the delimiter after it. *)
LEMMA PartBytes ==
    ASSUME NEW form \in Forms, NEW i \in 1 .. Len(form)
    PROVE  LET E == Encode(form)
               s == Start(form, i)
               b == BoundaryLength
               c == Len(form[i].content)
           IN  /\ s \in Nat /\ c \in Nat /\ Start(form, i + 1) = s + b + c + 9
               /\ s + b + c + 9 + b <= Len(E)
               /\ \A j \in 1 .. b : E[s + j] = Boundary[j]
               /\ E[s + b + 1] = "CR" /\ E[s + b + 2] = "LF" /\ E[s + b + 3] = form[i].name
               /\ E[s + b + 4] = "CR" /\ E[s + b + 5] = "LF"
               /\ E[s + b + 6] = "CR" /\ E[s + b + 7] = "LF"
               /\ \A j \in 1 .. c : E[s + b + 7 + j] = form[i].content[j]
               /\ E[s + b + c + 8] = "CR" /\ E[s + b + c + 9] = "LF"
<1> DEFINE E == Encode(form)
           s == Start(form, i)
           b == BoundaryLength
           c == Len(form[i].content)
           x == Section(form[i])
<1>1. /\ s \in Nat /\ Start(form, i + 1) = s + Len(x)
      /\ \A j \in 1 .. Len(x) : E[s + j] = x[j]
  BY SectionPlace
<1>2. /\ c \in Nat /\ Len(x) = b + c + 9 /\ b \in Nat
      /\ \A j \in 1 .. b : x[j] = Boundary[j]
      /\ x[b + 1] = "CR" /\ x[b + 2] = "LF" /\ x[b + 3] = form[i].name
      /\ x[b + 4] = "CR" /\ x[b + 5] = "LF" /\ x[b + 6] = "CR" /\ x[b + 7] = "LF"
      /\ \A j \in 1 .. c : x[b + 7 + j] = form[i].content[j]
      /\ x[b + c + 8] = "CR" /\ x[b + c + 9] = "LF"
  <2>1. form[i].name \in Names /\ form[i].content \in Seq(Bytes)
    BY FormType
  <2>2. b \in Nat
    BY BoundaryType
  <2> QED
    BY <2>1, <2>2, SectionBytes
<1>3. Start(form, i + 1) + b + 2 <= Len(E)
  <2>1. i + 1 \in 1 .. Len(form) + 1
    BY FormType
  <2> QED
    BY <2>1, DelimiterPlace
<1>4. Len(E) \in Nat
  <2>1. E \in Seq(Symbols)
    BY BodyBytes
  <2> QED
    BY <2>1
<1> HIDE DEF E, s, b, c, x
<1>5. /\ s + b + 1 = s + (b + 1) /\ s + b + 2 = s + (b + 2) /\ s + b + 3 = s + (b + 3)
      /\ s + b + 4 = s + (b + 4) /\ s + b + 5 = s + (b + 5) /\ s + b + 6 = s + (b + 6)
      /\ s + b + 7 = s + (b + 7)
      /\ s + b + c + 8 = s + (b + c + 8) /\ s + b + c + 9 = s + (b + c + 9)
  BY <1>1, <1>2
<1>6. /\ 1 .. b \subseteq 1 .. Len(x)
      /\ b + 1 \in 1 .. Len(x) /\ b + 2 \in 1 .. Len(x) /\ b + 3 \in 1 .. Len(x)
      /\ b + 4 \in 1 .. Len(x) /\ b + 5 \in 1 .. Len(x) /\ b + 6 \in 1 .. Len(x)
      /\ b + 7 \in 1 .. Len(x) /\ b + c + 8 \in 1 .. Len(x) /\ b + c + 9 \in 1 .. Len(x)
  <2>1. b \in Nat /\ c \in Nat /\ Len(x) = b + c + 9
    BY <1>2
  <2> QED
    BY <2>1
<1>7. /\ E[s + b + 1] = "CR" /\ E[s + b + 2] = "LF" /\ E[s + b + 3] = form[i].name
      /\ E[s + b + 4] = "CR" /\ E[s + b + 5] = "LF"
      /\ E[s + b + 6] = "CR" /\ E[s + b + 7] = "LF"
      /\ E[s + b + c + 8] = "CR" /\ E[s + b + c + 9] = "LF"
  <2>1. \A j \in 1 .. Len(x) : E[s + j] = x[j]
    BY <1>1
  <2>2. /\ E[s + (b + 1)] = "CR" /\ E[s + (b + 2)] = "LF" /\ E[s + (b + 3)] = form[i].name
        /\ E[s + (b + 4)] = "CR" /\ E[s + (b + 5)] = "LF"
    BY <1>2, <1>6, <2>1
  <2>3. /\ E[s + (b + 6)] = "CR" /\ E[s + (b + 7)] = "LF"
        /\ E[s + (b + c + 8)] = "CR" /\ E[s + (b + c + 9)] = "LF"
    BY <1>2, <1>6, <2>1
  <2> QED
    BY <1>5, <2>2, <2>3
<1>8. \A j \in 1 .. b : E[s + j] = Boundary[j]
  BY <1>1, <1>2, <1>6
<1>9. \A j \in 1 .. c : E[s + b + 7 + j] = form[i].content[j]
  <2> TAKE j \in 1 .. c
  <2>1. b + 7 + j \in 1 .. Len(x) /\ s + b + 7 + j = s + (b + 7 + j)
    BY <1>1, <1>2
  <2> QED
    BY <1>1, <1>2, <2>1
<1>10. Start(form, i + 1) = s + b + c + 9 /\ s + b + c + 9 + b <= Len(E)
  <2>1. /\ s \in Nat /\ b \in Nat /\ c \in Nat /\ Len(E) \in Nat
        /\ Start(form, i + 1) = s + (b + c + 9)
    BY <1>1, <1>2, <1>4
  <2> QED
    BY <1>3, <2>1
<1> QED
  BY <1>1, <1>2, <1>7, <1>8, <1>9, <1>10 DEF E, s, b, c

-----------------------------------------------------------------------------
(* What find() returns. *)

Matches(s, t, p) == \A j \in 1 .. Len(t) : s[p + j] = t[j]

LEMMA Finds ==
    ASSUME NEW s \in Seq(Symbols), NEW t \in Seq(Symbols)
    PROVE  /\ Found(s, t) <=> \E p \in 0 .. Len(s) - Len(t) : Matches(s, t, p)
           /\ Found(s, t) => /\ Find(s, t) \in 0 .. Len(s) - Len(t)
                             /\ Matches(s, t, Find(s, t))
                             /\ \A p \in 0 .. Len(s) - Len(t) : Matches(s, t, p) => Find(s, t) =< p
<1> DEFINE T == Occurrences(s, t)
<1>1. Len(s) \in Nat /\ Len(t) \in Nat
  OBVIOUS
<1>2. ASSUME NEW p \in 0 .. Len(s) - Len(t)
      PROVE  SubSeq(s, p + 1, p + Len(t)) = t <=> Matches(s, t, p)
  <2> DEFINE u == SubSeq(s, p + 1, p + Len(t))
  <2>1. \A j \in p + 1 .. p + Len(t) : s[j] \in Symbols
    BY <1>1
  <2>2. p \in Nat /\ p + 1 \in Int /\ p + Len(t) \in Int
    BY <1>1
  <2>3. /\ u \in Seq(Symbols)
        /\ Len(u) = IF p + 1 <= p + Len(t) THEN (p + Len(t)) - (p + 1) + 1 ELSE 0
        /\ \A j \in 1 .. (p + Len(t)) - (p + 1) + 1 : u[j] = s[(p + 1) + j - 1]
    BY <2>1, <2>2, SubSeqProperties
  <2> HIDE DEF u
  <2>4. Len(u) = Len(t) /\ \A j \in 1 .. Len(t) : u[j] = s[p + j]
    <3>1. Len(u) = Len(t)
      BY <1>1, <2>2, <2>3
    <3>2. ASSUME NEW j \in 1 .. Len(t)
          PROVE  u[j] = s[p + j]
      <4>1. j \in 1 .. (p + Len(t)) - (p + 1) + 1 /\ (p + 1) + j - 1 = p + j
        BY <1>1, <2>2
      <4> QED
        BY <2>3, <4>1
    <3> QED
      BY <3>1, <3>2
  <2>5. Matches(s, t, p) => u = t
    BY <2>3, <2>4, SeqEqual DEF Matches
  <2>6. u = t => Matches(s, t, p)
    BY <2>4 DEF Matches
  <2> QED
    BY <2>5, <2>6 DEF u
<1>3. T = {p \in 0 .. Len(s) - Len(t) : Matches(s, t, p)}
  <2> HIDE DEF T
  <2>1. T = {p \in 0 .. Len(s) - Len(t) : SubSeq(s, p + 1, p + Len(t)) = t}
    BY DEF T, Occurrences
  <2> QED
    BY <1>2, <2>1
<1>4. Found(s, t) <=> T # {}
  BY DEF Found
<1>5. ASSUME T # {}
      PROVE  Find(s, t) \in T /\ \A p \in T : Find(s, t) =< p
  <2>1. T \subseteq Nat
    BY <1>1, <1>3
  <2> HIDE DEF T
  <2>2. \E n \in T : \A m \in T : n =< m
    BY <1>5, <2>1, Least
  <2> QED
    BY <2>2 DEF Find, Min, T
<1> HIDE DEF T
<1> QED
  BY <1>3, <1>4, <1>5

(* d is what feed() has not taken yet: the body from at to where it is fed. *)
Window(form, at, d) ==
    /\ d \in Seq(Symbols) /\ at \in Nat /\ Len(d) \in Nat
    /\ at + Len(d) <= Len(Encode(form))
    /\ \A j \in 1 .. Len(d) : d[j] = Encode(form)[at + j]

(* A delimiter is not found before the end of the value. *)
LEMMA BoundaryFirst ==
    ASSUME NEW form \in Forms, NEW i \in 1 .. Len(form), NEW d,
           NEW k \in 0 .. Len(form[i].content) + 1,
           Window(form, Start(form, i) + BoundaryLength + 7 + k, d)
    PROVE  LET q == Len(form[i].content) + 2 - k
           IN  /\ q \in Nat /\ q # 0
               /\ Found(d, Boundary) <=> q + BoundaryLength <= Len(d)
               /\ Found(d, Boundary) => Find(d, Boundary) = q
<1> DEFINE E == Encode(form)
           s == Start(form, i)
           b == BoundaryLength
           v == form[i].content
           c == Len(v)
           q == c + 2 - k
           at == s + b + 7 + k
<1>1. /\ s \in Nat /\ c \in Nat /\ b \in Nat \ {0} /\ k \in Nat /\ k <= c + 1
      /\ Len(Boundary) = b /\ Boundary \in Seq(Symbols)
  <2>1. s \in Nat /\ c \in Nat
    BY PartBytes
  <2>2. k \in Nat /\ k <= c + 1
    BY <2>1
  <2> QED
    BY <2>1, <2>2, BoundaryType
<1>2. /\ \A j \in 1 .. c : E[s + b + 7 + j] = v[j]
      /\ E[s + b + c + 8] = "CR" /\ E[s + b + c + 9] = "LF"
  BY PartBytes
<1>3. \A j \in 1 .. b : E[s + b + c + 9 + j] = Boundary[j]
  <2>1. i + 1 \in 1 .. Len(form) + 1
    BY FormType
  <2>2. Start(form, i + 1) = s + b + c + 9
    BY PartBytes
  <2>3. \A j \in 1 .. b : E[Start(form, i + 1) + j] = Boundary[j]
    BY <2>1, DelimiterPlace
  <2> QED
    BY <2>2, <2>3
<1>4. /\ d \in Seq(Symbols) /\ Len(d) \in Nat
      /\ \A j \in 1 .. Len(d) : d[j] = E[at + j]
  BY DEF Window
<1>5. \A j \in 1 .. b : Boundary[j] # "CR" /\ Boundary[j] # "LF"
  BY BoundaryType
<1>6. v \in Seq(Symbols) /\ ~Found(v, Boundary)
  <2>1. v \in Seq(Bytes) /\ Bytes \subseteq Symbols
    BY FormType DEF Symbols
  <2>2. v \in Seq(Symbols)
    BY <2>1, SeqMonotonic
  <2> QED
    BY <2>2, FormsAssumption
<1> HIDE DEF E, s, b, c, v
<1>7. \A p \in 0 .. c - b : ~Matches(v, Boundary, p)
  BY <1>1, <1>6, Finds DEF c
<1>8. q \in Nat /\ q # 0
  BY <1>1
<1>9. ASSUME NEW p \in 0 .. Len(d) - b, Matches(d, Boundary, p)
      PROVE  q <= p
  <2>0. p \in Nat /\ p + b <= Len(d)
    BY <1>1, <1>4
  <2>1. \A j \in 1 .. b : E[at + (p + j)] = Boundary[j]
    <3> TAKE j \in 1 .. b
    <3>1. p + j \in 1 .. Len(d)
      BY <1>1, <1>4, <2>0
    <3>2. d[p + j] = Boundary[j]
      BY <1>1, <1>9 DEF Matches
    <3> QED
      BY <1>4, <3>1, <3>2
  <2>2. CASE p + b < q - 1
    <3>1. k + p \in 0 .. c - b
      BY <1>1, <2>0, <2>2
    <3>2. \A j \in 1 .. b : v[(k + p) + j] = Boundary[j]
      <4> TAKE j \in 1 .. b
      <4>1. k + p + j \in 1 .. c /\ s + b + 7 + (k + p + j) = at + (p + j) /\ (k + p) + j = k + p + j
        BY <1>1, <2>0, <2>2
      <4> QED
        BY <1>2, <2>1, <4>1
    <3>3. Matches(v, Boundary, k + p)
      BY <1>1, <3>2 DEF Matches
    <3> QED
      BY <1>7, <3>1, <3>3
  <2>3. CASE p + b = q - 1
    <3>1. at + (p + b) = s + b + c + 8 /\ b \in 1 .. b
      BY <1>1, <2>0, <2>3
    <3>2. E[at + (p + b)] = Boundary[b] /\ Boundary[b] # "CR"
      BY <1>5, <2>1, <3>1
    <3> QED
      BY <1>2, <3>1, <3>2
  <2>4. CASE p < q /\ q <= p + b
    <3>1. q - p \in 1 .. b /\ at + (p + (q - p)) = s + b + c + 9
      BY <1>1, <2>0, <2>4
    <3> QED
      BY <1>2, <1>5, <2>1, <3>1
  <2> QED
    BY <1>1, <1>8, <2>0, <2>2, <2>3, <2>4
<1>10. ASSUME q + b <= Len(d)
       PROVE  q \in 0 .. Len(d) - b /\ Matches(d, Boundary, q)
  <2>1. ASSUME NEW j \in 1 .. b
        PROVE  d[q + j] = Boundary[j]
    <3>1. q + j \in 1 .. Len(d) /\ at + (q + j) = s + b + c + 9 + j
      BY <1>1, <1>4, <1>10
    <3> QED
      BY <1>3, <1>4, <3>1
  <2>2. Matches(d, Boundary, q)
    BY <1>1, <2>1 DEF Matches
  <2> QED
    BY <1>1, <1>4, <1>8, <1>10, <2>2
<1>11. /\ Found(d, Boundary) <=> \E p \in 0 .. Len(d) - b : Matches(d, Boundary, p)
       /\ Found(d, Boundary) => /\ Find(d, Boundary) \in 0 .. Len(d) - b
                                /\ Matches(d, Boundary, Find(d, Boundary))
                                /\ \A p \in 0 .. Len(d) - b : Matches(d, Boundary, p) => Find(d, Boundary) =< p
  BY <1>1, <1>4, Finds
<1> HIDE DEF q
<1>12. ASSUME Found(d, Boundary)
       PROVE  q + b <= Len(d) /\ Find(d, Boundary) = q
  <2> DEFINE p == Find(d, Boundary)
  <2>1. p \in 0 .. Len(d) - b /\ Matches(d, Boundary, p)
    BY <1>11, <1>12
  <2> HIDE DEF p
  <2>2. q <= p
    BY <1>9, <2>1
  <2>3. q + b <= Len(d)
    BY <1>1, <1>4, <1>8, <2>1, <2>2
  <2>4. p =< q
    BY <1>10, <1>11, <1>12, <2>3 DEF p
  <2>5. p = q
    BY <1>4, <1>1, <1>8, <2>1, <2>2, <2>4
  <2> QED
    BY <2>3, <2>5 DEF p
<1>13. ASSUME q + b <= Len(d)
       PROVE  Found(d, Boundary)
  BY <1>10, <1>11, <1>13
<1> QED
  BY <1>8, <1>12, <1>13 DEF q, b, c, v

LEMMA HeaderEnd ==
    /\ CRLF \o CRLF \in Seq(Symbols) /\ Len(CRLF \o CRLF) = 4
    /\ (CRLF \o CRLF)[1] = "CR" /\ (CRLF \o CRLF)[2] = "LF"
    /\ (CRLF \o CRLF)[3] = "CR" /\ (CRLF \o CRLF)[4] = "LF"
<1>1. CRLF \in Seq(Symbols) /\ Len(CRLF) = 2 /\ CRLF[1] = "CR" /\ CRLF[2] = "LF"
  BY DEF CRLF, Symbols
<1> DEFINE t == CRLF \o CRLF
<1>2. /\ t \in Seq(Symbols) /\ Len(t) = Len(CRLF) + Len(CRLF)
      /\ \A j \in 1 .. Len(CRLF) : t[j] = CRLF[j]
      /\ \A j \in 1 .. Len(CRLF) : t[Len(CRLF) + j] = CRLF[j]
  <2>1. CRLF \in Seq(Symbols)
    BY <1>1
  <2> QED
    BY <2>1, Joined
<1> HIDE DEF t
<1>3. /\ t \in Seq(Symbols) /\ Len(t) = 4
      /\ t[1] = "CR" /\ t[2] = "LF" /\ t[3] = "CR" /\ t[4] = "LF"
  BY <1>1, <1>2
<1> QED
  BY <1>3 DEF t

(* The header of a part ends three bytes after its delimiter: the name of a *)
(* part is no line end.                                                     *)
LEMMA HeaderFirst ==
    ASSUME NEW form \in Forms, NEW i \in 1 .. Len(form), NEW d,
           Window(form, Start(form, i) + BoundaryLength, d)
    PROVE  /\ Found(d, CRLF \o CRLF) <=> 7 <= Len(d)
           /\ Found(d, CRLF \o CRLF) => Find(d, CRLF \o CRLF) = 3
           /\ 3 <= Len(d) => d[3] = form[i].name
           /\ 1 <= Len(d) => d[1] = "CR"
           /\ 2 <= Len(d) => d[2] = "LF"
<1> DEFINE E == Encode(form)
           s == Start(form, i)
           b == BoundaryLength
           h == CRLF \o CRLF
           name == form[i].name
<1>1. /\ s \in Nat /\ b \in Nat
      /\ E[s + b + 1] = "CR" /\ E[s + b + 2] = "LF" /\ E[s + b + 3] = name
      /\ E[s + b + 4] = "CR" /\ E[s + b + 5] = "LF"
      /\ E[s + b + 6] = "CR" /\ E[s + b + 7] = "LF"
  BY PartBytes, BoundaryType
<1>2. name # "CR" /\ name # "LF"
  <2>1. name \in Names
    BY FormType
  <2> QED
    BY <2>1, FormsAssumption
<1>3. /\ d \in Seq(Symbols) /\ Len(d) \in Nat
      /\ \A j \in 1 .. Len(d) : d[j] = E[s + b + j]
  BY DEF Window
<1>4. h \in Seq(Symbols) /\ Len(h) = 4 /\ h[1] = "CR" /\ h[2] = "LF" /\ h[3] = "CR" /\ h[4] = "LF"
  BY HeaderEnd
<1> HIDE DEF E, s, b, h, name
<1>5. /\ 1 <= Len(d) => d[1] = "CR"
      /\ 2 <= Len(d) => d[2] = "LF"
      /\ 3 <= Len(d) => d[3] = name
      /\ 4 <= Len(d) => d[4] = "CR"
      /\ 5 <= Len(d) => d[5] = "LF"
      /\ 6 <= Len(d) => d[6] = "CR"
      /\ 7 <= Len(d) => d[7] = "LF"
  <2>1. \A j \in 1 .. 7 : j <= Len(d) => d[j] = E[s + b + j]
    BY <1>3
  <2>2. 1 <= Len(d) => d[1] = E[s + b + 1]
    BY <2>1, 1 \in 1 .. 7
  <2>3. 2 <= Len(d) => d[2] = E[s + b + 2]
    BY <2>1, 2 \in 1 .. 7
  <2>4. 3 <= Len(d) => d[3] = E[s + b + 3]
    BY <2>1, 3 \in 1 .. 7
  <2>5. 4 <= Len(d) => d[4] = E[s + b + 4]
    BY <2>1, 4 \in 1 .. 7
  <2>6. 5 <= Len(d) => d[5] = E[s + b + 5]
    BY <2>1, 5 \in 1 .. 7
  <2>7. 6 <= Len(d) => d[6] = E[s + b + 6]
    BY <2>1, 6 \in 1 .. 7
  <2>8. 7 <= Len(d) => d[7] = E[s + b + 7]
    BY <2>1, 7 \in 1 .. 7
  <2> QED
    BY <1>1, <2>2, <2>3, <2>4, <2>5, <2>6, <2>7, <2>8
<1>6. ASSUME NEW p \in 0 .. Len(d) - 4
      PROVE  Matches(d, h, p) <=> /\ d[p + 1] = "CR" /\ d[p + 2] = "LF"
                                  /\ d[p + 3] = "CR" /\ d[p + 4] = "LF"
  <2>1. \A j \in 1 .. 4 : j = 1 \/ j = 2 \/ j = 3 \/ j = 4
    OBVIOUS
  <2> QED
    BY <1>4, <2>1 DEF Matches
<1>7. ASSUME NEW p \in 0 .. Len(d) - 4, Matches(d, h, p)
      PROVE  3 <= p
  <2>0. p \in Nat /\ p + 4 <= Len(d)
    BY <1>3
  <2>1. p # 0
    BY <1>2, <1>5, <1>6, <1>7, <2>0
  <2>2. p # 1
    BY <1>5, <1>6, <1>7, <2>0
  <2>3. p # 2
    BY <1>2, <1>5, <1>6, <1>7, <2>0
  <2> QED
    BY <2>0, <2>1, <2>2, <2>3
<1>8. 7 <= Len(d) => 3 \in 0 .. Len(d) - 4 /\ Matches(d, h, 3)
  <2> SUFFICES ASSUME 7 <= Len(d) PROVE 3 \in 0 .. Len(d) - 4 /\ Matches(d, h, 3)
    OBVIOUS
  <2>1. 3 \in 0 .. Len(d) - 4
    BY <1>3
  <2> QED
    BY <1>3, <1>5, <1>6, <2>1
<1>9. /\ Found(d, h) <=> \E p \in 0 .. Len(d) - 4 : Matches(d, h, p)
      /\ Found(d, h) => /\ Find(d, h) \in 0 .. Len(d) - 4
                        /\ Matches(d, h, Find(d, h))
                        /\ \A p \in 0 .. Len(d) - 4 : Matches(d, h, p) => Find(d, h) =< p
  BY <1>3, <1>4, Finds
<1>10. Found(d, h) => 7 <= Len(d) /\ Find(d, h) = 3
  <2> SUFFICES ASSUME Found(d, h) PROVE 7 <= Len(d) /\ Find(d, h) = 3
    OBVIOUS
  <2> DEFINE p == Find(d, h)
  <2>1. p \in 0 .. Len(d) - 4 /\ Matches(d, h, p)
    BY <1>9
  <2>2. 3 <= p
    BY <1>7, <2>1
  <2> HIDE DEF p
  <2>3. 7 <= Len(d) /\ p \in Nat
    BY <1>3, <2>1, <2>2
  <2>4. p =< 3
    BY <1>8, <1>9, <2>3 DEF p
  <2>5. p = 3
    BY <2>2, <2>3, <2>4
  <2> QED
    BY <2>3, <2>5 DEF p
<1>11. 7 <= Len(d) => Found(d, h)
  BY <1>8, <1>9
<1> QED
  BY <1>5, <1>10, <1>11 DEF h, name

(* No header follows the closing delimiter. *)
LEMMA NoHeader ==
    ASSUME NEW form \in Forms, NEW d,
           Window(form, Start(form, Len(form) + 1) + BoundaryLength, d)
    PROVE  Len(d) <= 2 /\ ~Found(d, CRLF \o CRLF)
<1>1. Len(d) \in Nat /\ Len(d) <= 2 /\ d \in Seq(Symbols)
  <2> DEFINE e == Start(form, Len(form) + 1)
  <2>1. /\ e \in Nat /\ BoundaryLength \in Nat /\ Len(d) \in Nat /\ d \in Seq(Symbols)
        /\ Len(Encode(form)) = e + BoundaryLength + 2
        /\ e + BoundaryLength + Len(d) <= Len(Encode(form))
    BY BodyBytes, BoundaryType DEF Window
  <2> HIDE DEF e
  <2> QED
    BY <2>1
<1>2. Found(d, CRLF \o CRLF) <=> \E p \in 0 .. Len(d) - 4 : Matches(d, CRLF \o CRLF, p)
  BY <1>1, HeaderEnd, Finds
<1> QED
  BY <1>1, <1>2

(* What starts with a delimiter: it is found at once. *)
LEMMA BoundaryThere ==
    ASSUME NEW form \in Forms, NEW i \in 1 .. Len(form) + 1, NEW d,
           Window(form, Start(form, i), d), BoundaryLength <= Len(d)
    PROVE  Found(d, Boundary) /\ Find(d, Boundary) = 0
<1> DEFINE b == BoundaryLength
<1>1. b \in Nat /\ Len(Boundary) = b /\ Boundary \in Seq(Symbols)
  BY BoundaryType
<1>2. /\ d \in Seq(Symbols) /\ Len(d) \in Nat
      /\ \A j \in 1 .. Len(d) : d[j] = Encode(form)[Start(form, i) + j]
  BY DEF Window
<1>3. \A j \in 1 .. b : Encode(form)[Start(form, i) + j] = Boundary[j]
  BY DelimiterPlace
<1>4. b <= Len(d)
  OBVIOUS
<1> HIDE DEF b
<1>5. 0 \in 0 .. Len(d) - b /\ Matches(d, Boundary, 0)
  <2>1. \A j \in 1 .. b : d[0 + j] = Boundary[j]
    BY <1>1, <1>2, <1>3, <1>4
  <2> QED
    BY <1>1, <1>2, <1>4, <2>1 DEF Matches
<1>6. Found(d, Boundary) /\ Find(d, Boundary) \in 0 .. Len(d) - b /\ Find(d, Boundary) =< 0
  BY <1>1, <1>2, <1>5, Finds
<1> QED
  BY <1>6

(* feed() never returns because the buffer is an end boundary: the encoder  *)
(* writes none, and nothing in a body looks like one.                       *)
LEMMA EndBoundaryType ==
    /\ EndBoundary \in Seq(Symbols) /\ Len(EndBoundary) = BoundaryLength + 4
    /\ \A j \in 1 .. BoundaryLength : EndBoundary[j] = Boundary[j]
    /\ EndBoundary[BoundaryLength + 1] = "-"
<1> DEFINE t == Boundary \o <<"-", "-">>
<1>1. /\ t \in Seq(Symbols) /\ Len(t) = BoundaryLength + 2
      /\ \A j \in 1 .. BoundaryLength : t[j] = Boundary[j]
      /\ t[BoundaryLength + 1] = "-" /\ BoundaryLength \in Nat
  BY ClosingBytes, BoundaryType
<1>2. CRLF \in Seq(Symbols) /\ Len(CRLF) = 2
  BY DEF CRLF, Symbols
<1> DEFINE u == t \o CRLF
<1>3. u = EndBoundary
  BY DEF EndBoundary
<1> HIDE DEF t
<1>4. /\ u \in Seq(Symbols) /\ Len(u) = Len(t) + Len(CRLF)
      /\ \A j \in 1 .. Len(t) : u[j] = t[j]
  <2>1. t \in Seq(Symbols) /\ CRLF \in Seq(Symbols)
    BY <1>1, <1>2
  <2> QED
    BY <2>1, Joined
<1> HIDE DEF u
<1>5. /\ Len(u) = BoundaryLength + 4
      /\ \A j \in 1 .. BoundaryLength : u[j] = Boundary[j]
      /\ u[BoundaryLength + 1] = "-"
  BY <1>1, <1>2, <1>4
<1> QED
  BY <1>3, <1>4, <1>5

LEMMA NotEndAtDelimiter ==
    ASSUME NEW form \in Forms, NEW i \in 1 .. Len(form) + 1, NEW d,
           Window(form, Start(form, i), d)
    PROVE  d # EndBoundary
<1> SUFFICES ASSUME d = EndBoundary PROVE FALSE
  OBVIOUS
<1> DEFINE b == BoundaryLength
<1>1. b \in Nat /\ Len(d) = b + 4 /\ d[b + 1] = "-"
  BY BoundaryType, EndBoundaryType
<1>2. CASE i = Len(form) + 1
  <2>1. /\ Start(form, i) \in Nat /\ Len(Encode(form)) = Start(form, i) + b + 2
        /\ Start(form, i) + Len(d) <= Len(Encode(form))
    BY <1>2, BodyBytes DEF Window
  <2> QED
    BY <1>1, <2>1
<1>3. CASE i # Len(form) + 1
  <2>1. i \in 1 .. Len(form)
    BY <1>3, FormType
  <2>2. Start(form, i) \in Nat /\ Encode(form)[Start(form, i) + b + 1] = "CR"
    BY <2>1, PartBytes
  <2>3. b + 1 \in 1 .. Len(d) /\ Start(form, i) + (b + 1) = Start(form, i) + b + 1
    BY <1>1, <2>2
  <2>4. d[b + 1] = "CR"
    BY <2>2, <2>3 DEF Window
  <2> QED
    BY <1>1, <2>4
<1> QED
  BY <1>2, <1>3

LEMMA NotEndAtHeader ==
    ASSUME NEW form \in Forms, NEW i \in 1 .. Len(form) + 1, NEW d,
           Window(form, Start(form, i) + BoundaryLength, d)
    PROVE  d # EndBoundary
<1> SUFFICES ASSUME d = EndBoundary PROVE FALSE
  OBVIOUS
<1> DEFINE b == BoundaryLength
<1>1. b \in Nat \ {0} /\ Len(d) = b + 4 /\ d[1] = Boundary[1] /\ Boundary[1] # "CR"
  <2>1. b \in Nat \ {0} /\ 1 \in 1 .. b
    BY BoundaryType
  <2> QED
    BY <2>1, BoundaryType, EndBoundaryType
<1>2. CASE i = Len(form) + 1
  <2>1. Len(d) <= 2
    BY <1>2, NoHeader
  <2> QED
    BY <1>1, <2>1
<1>3. CASE i # Len(form) + 1
  <2>1. i \in 1 .. Len(form)
    BY <1>3, FormType
  <2>2. 1 <= Len(d) => d[1] = "CR"
    BY <2>1, HeaderFirst
  <2> QED
    BY <1>1, <2>2
<1> QED
  BY <1>2, <1>3

LEMMA NotEndInValue ==
    ASSUME NEW form \in Forms, NEW i \in 1 .. Len(form), NEW d,
           NEW k \in 0 .. Len(form[i].content) + 1,
           Window(form, Start(form, i) + BoundaryLength + 7 + k, d)
    PROVE  d # EndBoundary
<1> SUFFICES ASSUME d = EndBoundary PROVE FALSE
  OBVIOUS
<1> DEFINE q == Len(form[i].content) + 2 - k
<1>1. /\ q \in Nat /\ q # 0
      /\ Found(d, Boundary) => Find(d, Boundary) = q
  BY BoundaryFirst
<1> HIDE DEF q
<1>2. /\ d \in Seq(Symbols) /\ Len(d) = BoundaryLength + 4 /\ BoundaryLength \in Nat
      /\ \A j \in 1 .. BoundaryLength : d[j] = Boundary[j]
      /\ Boundary \in Seq(Symbols) /\ Len(Boundary) = BoundaryLength
  BY BoundaryType, EndBoundaryType
<1>3. 0 \in 0 .. Len(d) - Len(Boundary) /\ Matches(d, Boundary, 0)
  BY <1>2 DEF Matches
<1>4. Found(d, Boundary) /\ Find(d, Boundary) =< 0
  BY <1>2, <1>3, Finds
<1> QED
  BY <1>1, <1>4

-----------------------------------------------------------------------------
(* What makes Parses inductive: where in the body the parser is, whatever   *)
(* was fed.                                                                 *)

Types ==
    /\ Parts \in Forms /\ fed \in Nat /\ pointer \in Nat
    /\ status \in {"boundary", "headers", "buffer"} /\ pc \in {"idle", "top", "body"}
    /\ failed \in BOOLEAN /\ torn \in BOOLEAN
    /\ \A name \in DOMAIN values : values[name] \in Seq(Symbols)
    /\ got \in Seq(Symbols)

(* What was not taken yet begins at a place of the body. *)
Rest(at) == Window(Parts, at, data) /\ at + Len(data) = fed

(* The first n parts are those whose header was read, ... *)
Begun(n) == DOMAIN values = {Parts[j].name : j \in 1 .. n}

(* ... and were written whole. *)
Whole(n) == ~torn => \A j \in 1 .. n : values[Parts[j].name] = Parts[j].content

AtDelimiter(i) ==
    /\ i \in 1 .. Len(Parts) + 1 /\ status = "boundary" /\ current = 0
    /\ Rest(Start(Parts, i)) /\ Begun(i - 1) /\ Whole(i - 1)

AtHeader(i) ==
    /\ i \in 1 .. Len(Parts) + 1 /\ status = "headers" /\ current = 0
    /\ Rest(Start(Parts, i) + BoundaryLength) /\ Begun(i - 1) /\ Whole(i - 1)

(* A torn delimiter has its CR written. *)
InValue(i, k) ==
    /\ i \in 1 .. Len(Parts) /\ status = "buffer" /\ current = i
    /\ k \in 0 .. Len(Parts[i].content) + 1
    /\ Rest(Start(Parts, i) + BoundaryLength + 7 + k) /\ Begun(i) /\ Whole(i - 1)
    /\ ~torn => /\ k <= Len(Parts[i].content) /\ Len(values[Parts[i].name]) = k
                /\ \A j \in 1 .. k : values[Parts[i].name][j] = Parts[i].content[j]

Placed ==
    \/ \E i \in Nat : AtDelimiter(i) \/ AtHeader(i)
    \/ \E i, k \in Nat : InValue(i, k)

(* feed() returns when there is nothing more it can do. *)
Exhausted ==
    pc = "idle" /\ ~failed =>
        /\ status = "boundary" => Len(data) < BoundaryLength
        /\ status = "headers" => ~Found(data, CRLF \o CRLF)
        /\ status = "buffer" => ~Found(data, Boundary)

TooLong ==
    failed /\ ~torn => \E i \in 1 .. Len(Parts) : Len(Parts[i].content) > InMemoryLimit

ReadInOrder ==
    /\ got = <<>> => pointer = 0
    /\ got # <<>> => /\ fed = Len(Encoded) /\ pc = "idle" /\ ~failed
                     /\ Len(got) <= Len(Uploaded)
                     /\ \A j \in 1 .. Len(got) : got[j] = Uploaded[j]
                     /\ pointer = Len(got) \/ Len(got) = Len(Uploaded)

IInv == Types /\ Placed /\ Exhausted /\ TooLong /\ ReadInOrder

-----------------------------------------------------------------------------
(* Slices of what was not taken yet. *)

LEMMA FromType ==
    ASSUME NEW s \in Seq(Symbols), NEW p \in 0 .. Len(s)
    PROVE  /\ From(s, p) \in Seq(Symbols) /\ Len(From(s, p)) = Len(s) - p
           /\ \A j \in 1 .. Len(s) - p : From(s, p)[j] = s[p + j]
<1> DEFINE u == From(s, p)
<1>1. Len(s) \in Nat /\ p \in Nat /\ p <= Len(s)
  OBVIOUS
<1>2. /\ u \in Seq(Symbols)
      /\ Len(u) = IF p + 1 <= Len(s) THEN Len(s) - (p + 1) + 1 ELSE 0
      /\ \A j \in 1 .. Len(s) - (p + 1) + 1 : u[j] = s[(p + 1) + j - 1]
  <2>1. p + 1 \in Int /\ Len(s) \in Int /\ \A j \in p + 1 .. Len(s) : s[j] \in Symbols
    BY <1>1
  <2> QED
    BY <2>1, SubSeqProperties DEF From
<1> HIDE DEF u
<1>3. Len(u) = Len(s) - p
  BY <1>1, <1>2
<1>4. ASSUME NEW j \in 1 .. Len(s) - p
      PROVE  u[j] = s[p + j]
  <2>1. j \in 1 .. Len(s) - (p + 1) + 1 /\ (p + 1) + j - 1 = p + j
    BY <1>1
  <2> QED
    BY <1>2, <2>1
<1> QED
  BY <1>2, <1>3, <1>4 DEF u

LEMMA UptoType ==
    ASSUME NEW s \in Seq(Symbols), NEW p \in Int, p <= Len(s)
    PROVE  /\ Upto(s, p) \in Seq(Symbols)
           /\ 0 <= p => /\ Len(Upto(s, p)) = p
                        /\ \A j \in 1 .. p : Upto(s, p)[j] = s[j]
<1> DEFINE q == IF p >= 0 THEN p ELSE Len(s) + p
           u == SubSeq(s, 1, q)
<1>1. Len(s) \in Nat /\ q \in Int /\ q <= Len(s) /\ (0 <= p => q = p)
  OBVIOUS
<1>2. Upto(s, p) = u
  BY DEF Upto
<1> HIDE DEF q
<1>3. /\ u \in Seq(Symbols)
      /\ Len(u) = IF 1 <= q THEN q - 1 + 1 ELSE 0
      /\ \A j \in 1 .. q - 1 + 1 : u[j] = s[1 + j - 1]
  <2>1. 1 \in Int /\ \A j \in 1 .. q : s[j] \in Symbols
    BY <1>1
  <2> QED
    BY <1>1, <2>1, SubSeqProperties
<1> HIDE DEF u
<1>4. ASSUME 0 <= p, NEW j \in 1 .. p
      PROVE  u[j] = s[j]
  <2>1. j \in 1 .. q - 1 + 1 /\ 1 + j - 1 = j
    BY <1>1, <1>4
  <2> QED
    BY <1>3, <2>1
<1>5. 0 <= p => Len(u) = p
  BY <1>1, <1>3
<1> QED
  BY <1>2, <1>3, <1>4, <1>5

(* Taking the first bytes moves on, ... *)
LEMMA WindowDrop ==
    ASSUME NEW form, NEW at, NEW d, Window(form, at, d), NEW p \in 0 .. Len(d)
    PROVE  /\ Window(form, at + p, From(d, p))
           /\ (at + p) + Len(From(d, p)) = at + Len(d)
           /\ Len(From(d, p)) = Len(d) - p
<1> DEFINE u == From(d, p)
           E == Encode(form)
<1>1. /\ d \in Seq(Symbols) /\ at \in Nat /\ Len(d) \in Nat /\ at + Len(d) <= Len(E)
      /\ \A j \in 1 .. Len(d) : d[j] = E[at + j]
  BY DEF Window
<1>2. /\ u \in Seq(Symbols) /\ Len(u) = Len(d) - p
      /\ \A j \in 1 .. Len(d) - p : u[j] = d[p + j]
  BY <1>1, FromType
<1> HIDE DEF u, E
<1>3. p \in Nat /\ p <= Len(d)
  BY <1>1
<1>4. ASSUME NEW j \in 1 .. Len(u)
      PROVE  u[j] = E[(at + p) + j]
  <2>1. p + j \in 1 .. Len(d) /\ at + (p + j) = (at + p) + j
    BY <1>1, <1>2, <1>3
  <2> QED
    BY <1>1, <1>2, <2>1
<1>5. at + p \in Nat /\ Len(u) \in Nat /\ (at + p) + Len(u) = at + Len(d)
  BY <1>1, <1>2, <1>3
<1>6. Window(form, at + p, u)
  BY <1>1, <1>2, <1>4, <1>5 DEF Window, E
<1> QED
  BY <1>2, <1>5, <1>6 DEF u

(* ... and a chunk of the body is put behind the others. *)
LEMMA WindowFeed ==
    ASSUME NEW form, NEW at, NEW d, Window(form, at, d), Encode(form) \in Seq(Symbols),
           NEW n \in Nat, at + Len(d) + n <= Len(Encode(form))
    PROVE  LET u == d \o SubSeq(Encode(form), at + Len(d) + 1, at + Len(d) + n)
           IN  Window(form, at, u) /\ Len(u) = Len(d) + n
<1> DEFINE E == Encode(form)
           e == at + Len(d)
           x == SubSeq(E, e + 1, e + n)
           u == d \o x
<1>1. /\ d \in Seq(Symbols) /\ at \in Nat /\ Len(d) \in Nat /\ e \in Nat
      /\ e + n <= Len(E) /\ E \in Seq(Symbols) /\ Len(E) \in Nat
      /\ \A j \in 1 .. Len(d) : d[j] = E[at + j]
  BY DEF Window
<1> HIDE DEF E
<1>2. /\ x \in Seq(Symbols)
      /\ Len(x) = IF e + 1 <= e + n THEN (e + n) - (e + 1) + 1 ELSE 0
      /\ \A j \in 1 .. (e + n) - (e + 1) + 1 : x[j] = E[(e + 1) + j - 1]
  <2>1. e + 1 \in Int /\ e + n \in Int /\ \A j \in e + 1 .. e + n : E[j] \in Symbols
    BY <1>1
  <2> HIDE DEF e
  <2> QED
    BY <2>1, SubSeqProperties
<1> HIDE DEF x
<1>3. Len(x) = n
  BY <1>1, <1>2
<1>4. /\ u \in Seq(Symbols) /\ Len(u) = Len(d) + Len(x)
      /\ \A j \in 1 .. Len(d) : u[j] = d[j]
      /\ \A j \in 1 .. Len(x) : u[Len(d) + j] = x[j]
  <2>1. d \in Seq(Symbols) /\ x \in Seq(Symbols)
    BY <1>1, <1>2
  <2> QED
    BY <2>1, Joined
<1> HIDE DEF u
<1>5. ASSUME NEW j \in 1 .. Len(u)
      PROVE  u[j] = E[at + j]
  <2>1. CASE j \in 1 .. Len(d)
    BY <1>1, <1>4, <2>1
  <2>2. CASE j \notin 1 .. Len(d)
    <3>1. j - Len(d) \in 1 .. n /\ Len(d) + (j - Len(d)) = j
      BY <1>1, <1>3, <1>4, <2>2
    <3>2. u[j] = x[j - Len(d)]
      BY <1>3, <1>4, <3>1
    <3>3. /\ j - Len(d) \in 1 .. (e + n) - (e + 1) + 1
          /\ (e + 1) + (j - Len(d)) - 1 = at + j
      BY <1>1, <3>1
    <3> QED
      BY <1>2, <3>2, <3>3
  <2> QED
    BY <2>1, <2>2
<1>6. Window(form, at, u) /\ Len(u) = Len(d) + n
  BY <1>1, <1>3, <1>4, <1>5 DEF Window, E
<1> QED
  BY <1>6 DEF u, x, e, E

-----------------------------------------------------------------------------
(* The steps. *)

LEMMA NotRead ==
    ASSUME ReadInOrder, pc # "idle" \/ fed # Len(Encoded)
    PROVE  got = <<>> /\ pointer = 0
  BY DEF ReadInOrder

LEMMA EncodedType ==
    ASSUME Types
    PROVE  Encoded = Encode(Parts) /\ Encoded \in Seq(Symbols) /\ Len(Encoded) \in Nat
<1>1. Encode(Parts) \in Seq(Symbols)
  BY BodyBytes DEF Types
<1> QED
  BY <1>1 DEF Encoded

(* A step that leaves the place of the parser alone. *)
LEMMA SamePlace ==
    ASSUME Placed, UNCHANGED <<Parts, status, current, values, torn>>,
           \A at : Rest(at) => Rest(at)'
    PROVE  Placed'
<1>1. \A i : AtDelimiter(i) => AtDelimiter(i)'
  BY DEF AtDelimiter, Begun, Whole
<1>2. \A i : AtHeader(i) => AtHeader(i)'
  BY DEF AtHeader, Begun, Whole
<1>3. \A i, k : InValue(i, k) => InValue(i, k)'
  BY DEF InValue, Begun, Whole
<1> QED
  BY <1>1, <1>2, <1>3 DEF Placed

LEMMA InitHolds ==
    ASSUME Init PROVE IInv
<1>1. Types
  <2>1. DOMAIN values = {} /\ got \in Seq(Symbols)
    BY DEF Init
  <2>2. \A name \in DOMAIN values : values[name] \in Seq(Symbols)
    BY <2>1
  <2> QED
    BY <2>1, <2>2 DEF Init, Types
<1>2. AtDelimiter(1)
  <2>1. Len(Parts) \in Nat \ {0} /\ 1 \in 1 .. Len(Parts) + 1
    BY <1>1, FormType DEF Types
  <2>2. Start(Parts, 1) = 0
    <3>1. Sections(Parts)[0] = <<>>
      BY <2>1, SectionsExist
    <3> QED
      BY <3>1 DEF Start
  <2>3. Rest(0)
    <3>1. data \in Seq(Symbols) /\ Len(data) = 0 /\ fed = 0
      BY DEF Init
    <3>2. Len(Encode(Parts)) \in Nat
      BY <1>1, EncodedType
    <3> QED
      BY <3>1, <3>2 DEF Rest, Window
  <2>4. Begun(0)
    <3>1. DOMAIN values = {}
      BY DEF Init
    <3>2. {Parts[j].name : j \in 1 .. 0} = {}
      OBVIOUS
    <3> QED
      BY <3>1, <3>2 DEF Begun
  <2>5. Whole(0)
    BY DEF Whole
  <2>6. status = "boundary" /\ current = 0 /\ 1 - 1 = 0
    BY DEF Init
  <2> QED
    BY <2>1, <2>2, <2>3, <2>4, <2>5, <2>6 DEF AtDelimiter
<1>3. Placed
  BY <1>2 DEF Placed
<1>4. Exhausted
  BY BoundaryType DEF Init, Exhausted
<1>5. TooLong /\ ReadInOrder
  BY DEF Init, TooLong, ReadInOrder
<1> QED
  BY <1>1, <1>3, <1>4, <1>5 DEF IInv

LEMMA FeedStep ==
    ASSUME IInv, NEW n \in 1 .. MaxChunk, Feed(n)
    PROVE  IInv'
<1>0. Types /\ Placed /\ ReadInOrder
  BY DEF IInv
<1>1. n \in Nat /\ n # 0
  BY LimitsAssumption
<1>2. /\ Encoded = Encode(Parts) /\ Encoded \in Seq(Symbols) /\ Len(Encoded) \in Nat
      /\ Parts' = Parts /\ fed \in Nat /\ fed + n <= Len(Encoded)
  BY <1>0, EncodedType DEF Feed, kept, Types
<1>3. got = <<>> /\ pointer = 0
  <2>1. fed # Len(Encoded)
    BY <1>1, <1>2
  <2> QED
    BY <1>0, <2>1, NotRead
<1>4. Types'
  <2>1. fed' \in Nat /\ pc' = "top"
    BY <1>1, <1>2 DEF Feed
  <2> QED
    BY <1>0, <2>1 DEF Types, Feed, kept
<1>5. ASSUME NEW at, Rest(at)
      PROVE  Rest(at)'
  <2>1. Window(Parts, at, data) /\ at + Len(data) = fed
    BY <1>5 DEF Rest
  <2>2. /\ Window(Parts, at, data \o SubSeq(Encode(Parts), fed + 1, fed + n))
        /\ Len(data \o SubSeq(Encode(Parts), fed + 1, fed + n)) = Len(data) + n
    <3>1. at + Len(data) + n <= Len(Encode(Parts))
      BY <1>2, <2>1
    <3> QED
      BY <1>1, <1>2, <2>1, <3>1, WindowFeed
  <2>3. data' = data \o SubSeq(Encode(Parts), fed + 1, fed + n) /\ fed' = fed + n
    BY <1>2 DEF Feed
  <2>4. at \in Nat /\ Len(data) \in Nat
    BY <2>1 DEF Window
  <2>5. Window(Parts, at, data') /\ at + Len(data') = fed'
    BY <1>1, <2>1, <2>2, <2>3, <2>4
  <2> QED
    BY <1>2, <2>5 DEF Rest
<1>6. Placed'
  <2>1. UNCHANGED <<Parts, status, current, values, torn>>
    BY DEF Feed, kept
  <2> QED
    BY <1>0, <1>5, <2>1, SamePlace
<1>7. Exhausted'
  BY DEF Exhausted, Feed
<1>8. TooLong' /\ ReadInOrder'
  BY <1>3 DEF Feed, kept, TooLong, ReadInOrder
<1> QED
  BY <1>4, <1>6, <1>7, <1>8 DEF IInv

(* Nothing is lost when feed() returns to its caller. *)
LEMMA Idle ==
    ASSUME IInv, pc # "idle", UNCHANGED <<Parts, fed, data, status, values, current, failed, torn, pointer, got>>,
           pc' \in {"idle", "top", "body"},
           pc' = "idle" => /\ status = "boundary" => Len(data) < BoundaryLength
                           /\ status = "headers" => ~Found(data, CRLF \o CRLF)
                           /\ status = "buffer" => ~Found(data, Boundary)
    PROVE  IInv'
<1>1. Types'
  BY DEF IInv, Types
<1>2. Placed'
  <2>1. \A at : Rest(at) => Rest(at)'
    BY DEF Rest
  <2> QED
    BY <2>1, SamePlace DEF IInv
<1>3. Exhausted'
  BY DEF Exhausted
<1>4. TooLong'
  BY DEF IInv, TooLong
<1>5. ReadInOrder'
  <2>1. got = <<>> /\ pointer = 0
    BY NotRead DEF IInv
  <2> QED
    BY <2>1 DEF ReadInOrder
<1> QED
  BY <1>1, <1>2, <1>3, <1>4, <1>5 DEF IInv

(* What is found in an empty buffer: nothing. *)
LEMMA EmptyBuffer ==
    ASSUME data = <<>>
    PROVE  Len(data) < BoundaryLength /\ ~Found(data, CRLF \o CRLF) /\ ~Found(data, Boundary)
<1>1. data \in Seq(Symbols) /\ Len(data) = 0
  OBVIOUS
<1>2. 0 .. 0 - 4 = {} /\ 0 .. 0 - BoundaryLength = {}
  BY BoundaryType
<1>3. ~Found(data, CRLF \o CRLF)
  BY <1>1, <1>2, HeaderEnd, Finds
<1>4. ~Found(data, Boundary)
  BY <1>1, <1>2, BoundaryType, Finds
<1> QED
  BY <1>1, <1>3, <1>4, BoundaryType

LEMMA NeverEndBoundary ==
    ASSUME Types, Placed
    PROVE  data # EndBoundary
<1>1. Parts \in Forms
  BY DEF Types
<1>2. ASSUME NEW i, AtDelimiter(i)
      PROVE  data # EndBoundary
  BY <1>1, <1>2, NotEndAtDelimiter DEF AtDelimiter, Rest
<1>3. ASSUME NEW i, AtHeader(i)
      PROVE  data # EndBoundary
  BY <1>1, <1>3, NotEndAtHeader DEF AtHeader, Rest
<1>4. ASSUME NEW i, NEW k, InValue(i, k)
      PROVE  data # EndBoundary
  BY <1>1, <1>4, NotEndInValue DEF InValue, Rest
<1> QED
  BY <1>2, <1>3, <1>4 DEF Placed

LEMMA TopStep ==
    ASSUME IInv, Top PROVE IInv'
<1>1. data # EndBoundary
  BY NeverEndBoundary DEF IInv
<1>2. pc' = IF data = <<>> THEN "idle" ELSE "body"
  BY <1>1 DEF Top
<1>3. UNCHANGED <<Parts, fed, data, status, values, current, failed, torn, pointer, got>> /\ pc # "idle"
  BY DEF Top, kept
<1> QED
  BY <1>2, <1>3, EmptyBuffer, Idle

LEMMA ExpectingBoundaryStep ==
    ASSUME IInv, ExpectingBoundary PROVE IInv'
<1>0. /\ Types /\ Placed /\ TooLong /\ ReadInOrder /\ Parts \in Forms
      /\ pc = "body" /\ status = "boundary" /\ UNCHANGED <<fed, Parts, pointer, got>>
  BY DEF IInv, Types, ExpectingBoundary, kept
<1>1. PICK i \in Nat : AtDelimiter(i)
  BY <1>0 DEF Placed, AtHeader, InValue
<1>2. /\ i \in 1 .. Len(Parts) + 1 /\ current = 0 /\ Begun(i - 1) /\ Whole(i - 1)
      /\ Window(Parts, Start(Parts, i), data) /\ Start(Parts, i) + Len(data) = fed
  BY <1>1 DEF AtDelimiter, Rest
<1>3. Len(data) \in Nat /\ BoundaryLength \in Nat
  BY <1>2, BoundaryType DEF Window
<1>4. CASE Len(data) < BoundaryLength
  <2>1. Return
    BY <1>3, <1>4 DEF ExpectingBoundary
  <2>2. /\ UNCHANGED <<Parts, fed, data, status, values, current, failed, torn, pointer, got>>
        /\ pc' = "idle" /\ pc # "idle"
    BY <1>0, <2>1 DEF Return
  <2> QED
    BY <1>0, <1>4, <2>2, Idle
<1>5. CASE Len(data) >= BoundaryLength
  <2>1. Found(data, Boundary) /\ Find(data, Boundary) = 0
    BY <1>0, <1>2, <1>3, <1>5, BoundaryThere
  <2>2. ~(Len(data) < BoundaryLength)
    BY <1>3, <1>5
  <2>3. /\ data' = From(data, BoundaryLength)
        /\ status' = "headers"
        /\ UNCHANGED <<values, current, pc, failed, torn>>
    <3>1. /\ data' = From(data, Find(data, Boundary) + BoundaryLength)
          /\ status' = "headers"
          /\ UNCHANGED <<values, current, pc, failed, torn>>
      BY <1>5, <2>1, <2>2 DEF ExpectingBoundary
    <3> QED
      BY <1>3, <2>1, <3>1
  <2>4. Window(Parts, Start(Parts, i) + BoundaryLength, data')
        /\ (Start(Parts, i) + BoundaryLength) + Len(data') = fed
    <3>1. BoundaryLength \in 0 .. Len(data)
      BY <1>3, <1>5
    <3> QED
      BY <1>2, <2>3, <3>1, WindowDrop
  <2>5. AtHeader(i)'
    BY <1>0, <1>2, <2>3, <2>4 DEF AtHeader, Rest, Begun, Whole
  <2>6. Placed'
    BY <2>5 DEF Placed
  <2>7. Types'
    BY <1>0, <2>3 DEF Types
  <2>8. Exhausted'
    BY <1>0, <2>3 DEF Exhausted
  <2>9. TooLong'
    BY <1>0, <2>3 DEF TooLong
  <2>10. ReadInOrder'
    BY <1>0, NotRead DEF ReadInOrder
  <2> QED
    BY <2>6, <2>7, <2>8, <2>9, <2>10 DEF IInv
<1> QED
  BY <1>3, <1>4, <1>5

(* The name in a header is the one of its part. *)
LEMMA HeaderName ==
    ASSUME NEW form \in Forms, NEW i \in 1 .. Len(form), NEW h,
           Len(h) = 3, h[1] = "CR", h[2] = "LF", h[3] = form[i].name
    PROVE  (CHOOSE j \in 1 .. Len(form) : Contains(h, form[j].name)) = i
<1>1. \A j \in 1 .. Len(form) : form[j].name # "CR" /\ form[j].name # "LF"
  BY FormType, FormsAssumption
<1>2. \A j \in 1 .. Len(form) : form[j].name = form[i].name => j = i
  BY FormsAssumption
<1>3. Contains(h, form[i].name)
  BY DEF Contains
<1>4. ASSUME NEW j \in 1 .. Len(form), Contains(h, form[j].name)
      PROVE  j = i
  <2>1. PICK n \in 1 .. 3 : h[n] = form[j].name
    BY <1>4 DEF Contains
  <2>2. n = 1 \/ n = 2 \/ n = 3
    OBVIOUS
  <2> QED
    BY <1>1, <1>2, <2>1, <2>2
<1> QED
  BY <1>3, <1>4

LEMMA ExpectingHeadersStep ==
    ASSUME IInv, ExpectingHeaders PROVE IInv'
<1>0. /\ Types /\ Placed /\ TooLong /\ ReadInOrder /\ Parts \in Forms
      /\ pc = "body" /\ status = "headers" /\ UNCHANGED <<fed, Parts, pointer, got>>
  BY DEF IInv, Types, ExpectingHeaders, kept
<1>1. PICK i \in Nat : AtHeader(i)
  BY <1>0 DEF Placed, AtDelimiter, InValue
<1> DEFINE at == Start(Parts, i) + BoundaryLength
<1>2. /\ i \in 1 .. Len(Parts) + 1 /\ current = 0 /\ Begun(i - 1) /\ Whole(i - 1)
      /\ Window(Parts, at, data) /\ at + Len(data) = fed
  BY <1>1 DEF AtHeader, Rest
<1>3. Len(data) \in Nat /\ at \in Nat /\ data \in Seq(Symbols) /\ Len(Parts) \in Nat
  BY <1>0, <1>2, FormType DEF Window
<1>4. CASE ~Found(data, CRLF \o CRLF)
  <2>1. Return
    BY <1>4 DEF ExpectingHeaders
  <2>2. /\ UNCHANGED <<Parts, fed, data, status, values, current, failed, torn, pointer, got>>
        /\ pc' = "idle" /\ pc # "idle"
    BY <1>0, <2>1 DEF Return
  <2> QED
    BY <1>0, <1>4, <2>2, Idle
<1>5. CASE Found(data, CRLF \o CRLF)
  <2>1. i \in 1 .. Len(Parts)
    <3>1. i # Len(Parts) + 1
      BY <1>0, <1>2, <1>5, NoHeader
    <3> QED
      BY <1>2, <1>3, <3>1
  <2> DEFINE name == Parts[i].name
  <2>2. /\ 7 <= Len(data) /\ Find(data, CRLF \o CRLF) = 3
        /\ data[1] = "CR" /\ data[2] = "LF" /\ data[3] = name
    <3>1. 7 <= Len(data) /\ Find(data, CRLF \o CRLF) = 3
      BY <1>0, <1>2, <1>5, <2>1, HeaderFirst
    <3>2. 1 <= Len(data) /\ 2 <= Len(data) /\ 3 <= Len(data)
      BY <1>3, <3>1
    <3> QED
      BY <1>0, <1>2, <2>1, <3>1, <3>2, HeaderFirst
  <2>3. /\ ParseHeader(Upto(data, 3)) /\ data' = From(data, 7) /\ status' = "buffer"
        /\ UNCHANGED <<pc, failed, torn>>
    BY <1>5, <2>2 DEF ExpectingHeaders
  <2>4. (CHOOSE j \in 1 .. Len(Parts) : Contains(Upto(data, 3), Parts[j].name)) = i
    <3>1. /\ Len(Upto(data, 3)) = 3
          /\ \A j \in 1 .. 3 : Upto(data, 3)[j] = data[j]
      <4>1. 3 \in Int /\ 3 <= Len(data) /\ 0 <= 3
        BY <1>3, <2>2
      <4> QED
        BY <1>3, <4>1, UptoType
    <3> QED
      BY <1>0, <2>1, <2>2, <3>1, HeaderName
  <2>5. /\ current' = i
        /\ values' = [n \in DOMAIN values \cup {name} |-> IF n = name THEN <<>> ELSE values[n]]
    BY <2>3, <2>4 DEF ParseHeader
  <2> HIDE DEF name
  <2>6. /\ DOMAIN values' = DOMAIN values \cup {name} /\ values'[name] = <<>>
        /\ \A n \in DOMAIN values : n # name => values'[n] = values[n]
    BY <2>5
  <2>7. \A j \in 1 .. i - 1 : Parts[j].name # name /\ Parts[j].name \in DOMAIN values
    <3> TAKE j \in 1 .. i - 1
    <3>1. j \in 1 .. Len(Parts) /\ j # i
      BY <1>3, <2>1
    <3>2. Parts[j].name # name
      BY <1>0, <2>1, <3>1, FormsAssumption DEF name
    <3> QED
      BY <1>2, <3>2 DEF Begun
  <2>8. Begun(i)'
    <3>1. \A j \in 1 .. i : j \in 1 .. i - 1 \/ j = i
      BY <2>1
    <3>2. 1 .. i - 1 \subseteq 1 .. i /\ i \in 1 .. i
      BY <2>1
    <3>3. {Parts[j].name : j \in 1 .. i} = {Parts[j].name : j \in 1 .. i - 1} \cup {Parts[i].name}
      BY <3>1, <3>2
    <3> QED
      BY <1>0, <1>2, <2>6, <3>3 DEF Begun, name
  <2>9. Whole(i - 1)'
    BY <1>0, <1>2, <2>3, <2>6, <2>7 DEF Whole
  <2>10. Window(Parts, at + 7, data') /\ (at + 7) + Len(data') = fed
    <3>1. 7 \in 0 .. Len(data)
      BY <1>3, <2>2
    <3> HIDE DEF at
    <3> QED
      BY <1>2, <2>3, <3>1, WindowDrop
  <2>11. InValue(i, 0)'
    <3>1. /\ Len(Parts[i].content) \in Nat /\ 0 <= Len(Parts[i].content)
          /\ 0 \in 0 .. Len(Parts[i].content) + 1
      BY <1>0, <2>1, FormType
    <3>2. Start(Parts, i) + BoundaryLength + 7 + 0 = at + 7
      BY <1>3
    <3>3. Rest(Start(Parts, i) + BoundaryLength + 7 + 0)'
      BY <1>0, <2>10, <3>2 DEF Rest
    <3>4. Len(values'[Parts[i].name]) = 0 /\ 1 .. 0 = {}
      BY <2>6 DEF name
    <3>5. /\ i \in 1 .. Len(Parts') /\ status' = "buffer" /\ current' = i
          /\ 0 \in 0 .. Len(Parts'[i].content) + 1
      BY <1>0, <2>1, <2>3, <2>5, <3>1
    <3> HIDE DEF at
    <3> QED
      BY <1>0, <2>8, <2>9, <3>1, <3>3, <3>4, <3>5 DEF InValue
  <2>12. Placed'
    BY <2>1, <2>11 DEF Placed
  <2>13. Types'
    <3>1. \A n \in DOMAIN values : values[n] \in Seq(Symbols)
      BY <1>0 DEF Types
    <3>2. <<>> \in Seq(Symbols)
      OBVIOUS
    <3>3. \A n \in DOMAIN values' : values'[n] \in Seq(Symbols)
      BY <2>6, <3>1, <3>2
    <3> QED
      BY <1>0, <2>3, <3>3 DEF Types
  <2>14. Exhausted' /\ TooLong' /\ ReadInOrder'
    BY <1>0, <2>3, NotRead DEF Exhausted, TooLong, ReadInOrder
  <2> QED
    BY <2>12, <2>13, <2>14 DEF IInv
<1> QED
  BY <1>4, <1>5

LEMMA WriteEffect ==
    ASSUME Types, NEW i \in 1 .. Len(Parts), current = i, Parts[i].name \in DOMAIN values,
           NEW chunk \in Seq(Symbols), Write(chunk)
    PROVE  LET name == Parts[i].name
           IN  /\ failed' \in BOOLEAN /\ DOMAIN values' = DOMAIN values
               /\ \A n \in DOMAIN values : n # name => values'[n] = values[n]
               /\ \A n \in DOMAIN values : values'[n] \in Seq(Symbols)
               /\ failed' => values' = values /\ Len(values[name]) + Len(chunk) > InMemoryLimit
               /\ ~failed' => values'[name] = values[name] \o chunk
<1> DEFINE name == Parts[i].name
           fits == Len(values[name]) + Len(chunk) <= InMemoryLimit
<1>1. /\ failed' = ~fits
      /\ values' = IF fits THEN [values EXCEPT ![name] = values[name] \o chunk] ELSE values
  BY DEF Write
<1>2. \A n \in DOMAIN values : values[n] \in Seq(Symbols)
  BY DEF Types
<1>3. name \in DOMAIN values /\ values[name] \in Seq(Symbols)
  BY <1>2
<1>4. values[name] \o chunk \in Seq(Symbols) /\ Len(values[name]) \in Nat /\ Len(chunk) \in Nat
  BY <1>3, Joined
<1>5. CASE fits
  <2>1. failed' = FALSE /\ values' = [values EXCEPT ![name] = values[name] \o chunk]
    BY <1>1, <1>5
  <2> HIDE DEF fits, name
  <2>2. /\ DOMAIN values' = DOMAIN values /\ values'[name] = values[name] \o chunk
        /\ \A n \in DOMAIN values : n # name => values'[n] = values[n]
    BY <1>3, <2>1
  <2>3. \A n \in DOMAIN values : values'[n] \in Seq(Symbols)
    BY <1>2, <1>4, <2>2
  <2> QED
    BY <2>1, <2>2, <2>3 DEF name
<1>6. CASE ~fits
  <2>1. failed' = TRUE /\ values' = values
    BY <1>1, <1>6
  <2>2. Len(values[name]) + Len(chunk) > InMemoryLimit
    BY <1>4, <1>6, LimitsAssumption
  <2> QED
    BY <1>2, <2>1, <2>2
<1> QED
  BY <1>5, <1>6

(* at is where k bytes of the value of part i are behind the parser. *)
Inside(form, i, k, at) == at = Start(form, i) + BoundaryLength + 7 + k

(* The next p bytes of d still belong to the value, of which k are taken. *)
Takes(form, i, k, d, p) == p \in Nat /\ p <= Len(d) /\ k + p <= Len(form[i].content)

(* What is taken so far is the beginning of the value. *)
Begins(form, i, k, old) ==
    /\ old \in Seq(Symbols) /\ Len(old) = k
    /\ \A j \in 1 .. k : old[j] = form[i].content[j]

(* What is taken of a value is its next bytes. *)
LEMMA ValueGrows ==
    ASSUME NEW form \in Forms, NEW i \in 1 .. Len(form), NEW k \in Nat, NEW d,
           NEW at, Window(form, at, d), Inside(form, i, k, at),
           NEW p, Takes(form, i, k, d, p), NEW old, Begins(form, i, k, old)
    PROVE  Begins(form, i, k + p, old \o Upto(d, p))
<1> USE DEF Takes, Begins
<1> SUFFICES /\ old \o Upto(d, p) \in Seq(Symbols)
             /\ Len(old \o Upto(d, p)) = k + p
             /\ \A j \in 1 .. k + p : (old \o Upto(d, p))[j] = form[i].content[j]
  OBVIOUS
<1> DEFINE E == Encode(form)
           s == Start(form, i)
           b == BoundaryLength
           v == form[i].content
           x == Upto(d, p)
           new == old \o x
<1>1. s \in Nat /\ b \in Nat /\ Len(v) \in Nat /\ \A j \in 1 .. Len(v) : E[s + b + 7 + j] = v[j]
  BY PartBytes, BoundaryType
<1>2. /\ d \in Seq(Symbols) /\ Len(d) \in Nat
      /\ \A j \in 1 .. Len(d) : d[j] = E[at + j]
      /\ at = s + b + 7 + k
  BY DEF Window, Inside
<1>3. x \in Seq(Symbols) /\ Len(x) = p /\ \A j \in 1 .. p : x[j] = d[j]
  <2>1. p \in Int /\ 0 <= p
    OBVIOUS
  <2> QED
    BY <1>2, <2>1, UptoType
<1>4. k + p <= Len(v) /\ \A j \in 1 .. k : old[j] = v[j]
  OBVIOUS
<1> HIDE DEF E, s, b, v, x
<1>5. /\ new \in Seq(Symbols) /\ Len(new) = k + p
      /\ \A j \in 1 .. k : new[j] = old[j]
      /\ \A j \in 1 .. p : new[k + j] = x[j]
  <2>1. /\ new \in Seq(Symbols) /\ Len(new) = Len(old) + Len(x)
        /\ \A j \in 1 .. Len(old) : new[j] = old[j]
        /\ \A j \in 1 .. Len(x) : new[Len(old) + j] = x[j]
    <3>1. \A y, z \in Seq(Symbols) :
             /\ y \o z \in Seq(Symbols) /\ Len(y \o z) = Len(y) + Len(z)
             /\ \A j \in 1 .. Len(y) : (y \o z)[j] = y[j]
             /\ \A j \in 1 .. Len(z) : (y \o z)[Len(y) + j] = z[j]
      BY Joined
    <3> QED
      BY <1>3, <3>1, Zenon
  <2> HIDE DEF new
  <2> QED
    BY <1>3, <2>1
<1> HIDE DEF new
<1>6. ASSUME NEW j \in 1 .. k + p
      PROVE  new[j] = v[j]
  <2>1. CASE j \in 1 .. k
    BY <1>4, <1>5, <2>1
  <2>2. CASE j \notin 1 .. k
    <3>1. /\ j - k \in 1 .. p /\ k + (j - k) = j /\ j - k \in 1 .. Len(d) /\ j \in 1 .. Len(v)
          /\ at + (j - k) = s + b + 7 + j
      <4>1. /\ s \in Nat /\ b \in Nat /\ Len(v) \in Nat /\ Len(d) \in Nat
            /\ at = s + b + 7 + k /\ k + p <= Len(v) /\ p <= Len(d)
        BY <1>1, <1>2, <1>4
      <4> QED
        BY <2>2, <4>1
    <3>2. new[j] = x[j - k] /\ x[j - k] = d[j - k]
      BY <1>3, <1>5, <3>1
    <3>3. d[j - k] = E[s + b + 7 + j]
      BY <1>2, <3>1
    <3> QED
      BY <1>1, <3>1, <3>2, <3>3
  <2> QED
    BY <2>1, <2>2
<1> QED
  BY <1>5, <1>6 DEF new, x, v

LEMMA ContentType ==
    ASSUME NEW form \in Forms, NEW i \in 1 .. Len(form)
    PROVE  form[i].content \in Seq(Symbols) /\ Len(form[i].content) \in Nat
<1>1. form[i].content \in Seq(Bytes) /\ Bytes \subseteq Symbols
  BY FormType DEF Symbols
<1> QED
  BY <1>1, SeqMonotonic

LEMMA TakePartStep ==
    ASSUME IInv, TakePart PROVE IInv'
<1>0. /\ Types /\ Placed /\ TooLong /\ ReadInOrder /\ Parts \in Forms
      /\ pc = "body" /\ status = "buffer" /\ UNCHANGED <<fed, torn, Parts, pointer, got>>
      /\ Found(data, Boundary)
  BY DEF IInv, Types, TakePart, kept
<1>1. PICK i \in Nat, k \in Nat : InValue(i, k)
  BY <1>0 DEF Placed, AtDelimiter, AtHeader
<1> DEFINE at == Start(Parts, i) + BoundaryLength + 7 + k
           c == Len(Parts[i].content)
           q == c + 2 - k
           name == Parts[i].name
           chunk == Upto(data, q - 2)
<1>2. /\ i \in 1 .. Len(Parts) /\ current = i /\ k \in 0 .. c + 1 /\ Begun(i) /\ Whole(i - 1)
      /\ Window(Parts, at, data) /\ at + Len(data) = fed
      /\ ~torn => /\ k <= c /\ Len(values[name]) = k
                  /\ \A j \in 1 .. k : values[name][j] = Parts[i].content[j]
  BY <1>1 DEF InValue, Rest
<1>3. /\ q \in Nat /\ q # 0 /\ q + BoundaryLength <= Len(data) /\ Find(data, Boundary) = q
  BY <1>0, <1>2, BoundaryFirst
<1>4. /\ Len(data) \in Nat /\ data \in Seq(Symbols) /\ at \in Nat /\ BoundaryLength \in Nat
      /\ Start(Parts, i) \in Nat /\ c \in Nat /\ Start(Parts, i + 1) = Start(Parts, i) + BoundaryLength + c + 9
  <2>1. Len(data) \in Nat /\ data \in Seq(Symbols) /\ at \in Nat
    BY <1>2 DEF Window
  <2>2. /\ Start(Parts, i) \in Nat /\ c \in Nat
        /\ Start(Parts, i + 1) = Start(Parts, i) + BoundaryLength + c + 9
    BY <1>0, <1>2, PartBytes
  <2> QED
    BY <2>1, <2>2, BoundaryType
<1>5. name \in DOMAIN values
  BY <1>2 DEF Begun
<1>6. chunk \in Seq(Symbols) /\ q \in 0 .. Len(data)
  <2>1. q - 2 \in Int /\ q - 2 <= Len(data) /\ q \in 0 .. Len(data)
    <3> HIDE DEF q
    <3> QED
      BY <1>3, <1>4
  <2> HIDE DEF q
  <2> QED
    BY <1>4, <2>1, UptoType
<1>7. /\ Write(chunk)
      /\ failed' => pc' = "idle" /\ UNCHANGED <<data, status, current>>
      /\ ~failed' => /\ data' = From(data, q) /\ pc' = "top"
                     /\ status' = "boundary" /\ current' = 0
  BY <1>3 DEF TakePart
<1>8. /\ failed' \in BOOLEAN /\ DOMAIN values' = DOMAIN values
      /\ \A n \in DOMAIN values : n # name => values'[n] = values[n]
      /\ \A n \in DOMAIN values : values'[n] \in Seq(Symbols)
      /\ failed' => values' = values /\ Len(values[name]) + Len(chunk) > InMemoryLimit
      /\ ~failed' => values'[name] = values[name] \o chunk
  <2> HIDE DEF chunk
  <2> QED
    BY <1>0, <1>2, <1>5, <1>6, <1>7, WriteEffect
<1>9. ASSUME ~torn
      PROVE  /\ Len(chunk) = c - k /\ Len(values[name]) = k
             /\ values[name] \o chunk = Parts[i].content
  <2>1. /\ q - 2 = c - k /\ c - k \in Nat /\ c - k <= Len(data) /\ k + (c - k) = c /\ k \in Nat
    <3>1. k <= c /\ k \in Nat
      BY <1>2, <1>9
    <3>2. Len(data) \in Nat /\ BoundaryLength \in Nat /\ c \in Nat
      BY <1>4
    <3>3. (c + 2 - k) + BoundaryLength <= Len(data)
      BY <1>3
    <3> HIDE DEF c
    <3> QED
      BY <3>1, <3>2, <3>3
  <2>2. values[name] \in Seq(Symbols)
    BY <1>0, <1>5 DEF Types
  <2>3. /\ Len(values[name]) = k
        /\ \A j \in 1 .. k : values[name][j] = Parts[i].content[j]
    BY <1>2, <1>9
  <2> DEFINE p == c - k
             new == values[name] \o Upto(data, p)
  <2>4. Upto(data, p) = chunk
    BY <2>1
  <2>5. /\ new \in Seq(Symbols) /\ Len(new) = k + p
        /\ \A j \in 1 .. k + p : new[j] = Parts[i].content[j]
    <3>1. Takes(Parts, i, k, data, p)
      BY <1>4, <2>1 DEF Takes
    <3>2. k \in Nat /\ Window(Parts, at, data) /\ Inside(Parts, i, k, at)
      BY <1>2 DEF Inside
    <3>3. Parts \in Forms /\ i \in 1 .. Len(Parts)
      BY <1>0, <1>2
    <3> HIDE DEF p, at, q, chunk, name, c
    <3>4. Begins(Parts, i, k, values[name])
      BY <2>2, <2>3 DEF Begins
    <3>5. Begins(Parts, i, k + p, values[name] \o Upto(data, p))
      BY <3>1, <3>2, <3>3, <3>4, ValueGrows
    <3> QED
      BY <3>5 DEF Begins
  <2>6. Parts[i].content \in Seq(Symbols)
    BY <1>0, <1>2, ContentType
  <2>7. new = Parts[i].content
    <3>1. k + p = Len(Parts[i].content)
      BY <2>1
    <3> HIDE DEF new
    <3> QED
      BY <2>5, <2>6, <3>1, SeqEqual
  <2>8. Len(chunk) = p
    <3>1. p \in Int /\ p <= Len(data) /\ 0 <= p
      BY <2>1
    <3> HIDE DEF p
    <3> QED
      BY <1>4, <2>4, <3>1, UptoType
  <2> QED
    BY <2>3, <2>4, <2>7, <2>8
<1>10. Types'
  BY <1>0, <1>7, <1>8 DEF Types
<1>11. ReadInOrder'
  BY <1>0, NotRead DEF ReadInOrder
<1>12. CASE failed'
  <2>1. UNCHANGED <<Parts, fed, data, status, current, values, torn>>
    BY <1>0, <1>7, <1>8, <1>12
  <2>2. Placed'
    <3>1. \A x : Rest(x) => Rest(x)'
      BY <2>1 DEF Rest
    <3> QED
      BY <1>0, <2>1, <3>1, SamePlace
  <2>3. TooLong'
    <3>1. ~torn => c > InMemoryLimit
      <4> SUFFICES ASSUME ~torn PROVE c > InMemoryLimit
        OBVIOUS
      <4>1. Len(chunk) = c - k /\ Len(values[name]) = k
        BY <1>9
      <4>2. Len(values[name]) + Len(chunk) > InMemoryLimit
        BY <1>8, <1>12
      <4> HIDE DEF chunk, c, name, at
      <4> QED
        BY <1>4, <4>1, <4>2, LimitsAssumption
    <3> QED
      BY <1>0, <1>2, <3>1 DEF TooLong
  <2>4. Exhausted'
    BY <1>12 DEF Exhausted
  <2> QED
    BY <1>10, <1>11, <2>2, <2>3, <2>4 DEF IInv
<1>13. CASE ~failed'
  <2>1. Window(Parts, at + q, data') /\ (at + q) + Len(data') = fed
    <3> HIDE DEF at, q
    <3> QED
      BY <1>2, <1>6, <1>7, <1>13, WindowDrop
  <2>2. at + q = Start(Parts, i + 1)
    <3>1. k \in Nat
      OBVIOUS
    <3> HIDE DEF c
    <3> QED
      BY <1>4, <3>1
  <2>3. Rest(Start(Parts, i + 1))'
    <3> HIDE DEF at, q
    <3> QED
      BY <1>0, <2>1, <2>2 DEF Rest
  <2>4. Begun(i)'
    BY <1>0, <1>2, <1>8 DEF Begun
  <2>5. Whole(i)'
    <3> SUFFICES ASSUME ~torn, NEW j \in 1 .. i
                 PROVE  values'[Parts[j].name] = Parts[j].content
      BY <1>0 DEF Whole
    <3>1. CASE j = i
      BY <1>8, <1>9, <1>13, <3>1
    <3>2. CASE j # i
      <4>1. j \in 1 .. i - 1 /\ j \in 1 .. Len(Parts)
        BY <1>0, <1>2, <3>2, FormType
      <4>2. Parts[j].name # name /\ Parts[j].name \in DOMAIN values
        BY <1>0, <1>2, <3>2, <4>1, FormsAssumption DEF Begun
      <4>3. values[Parts[j].name] = Parts[j].content
        BY <1>2, <4>1 DEF Whole
      <4> QED
        BY <1>8, <4>2, <4>3
    <3> QED
      BY <3>1, <3>2
  <2>6. AtDelimiter(i + 1)'
    <3>1. i + 1 \in 1 .. Len(Parts) + 1 /\ (i + 1) - 1 = i
      BY <1>0, <1>2, FormType
    <3>2. status' = "boundary" /\ current' = 0 /\ Parts' = Parts
      BY <1>0, <1>7, <1>13
    <3> QED
      BY <2>3, <2>4, <2>5, <3>1, <3>2 DEF AtDelimiter
  <2>7. Placed'
    <3>1. i + 1 \in Nat
      OBVIOUS
    <3> QED
      BY <2>6, <3>1 DEF Placed
  <2>8. Exhausted' /\ TooLong'
    BY <1>7, <1>13 DEF Exhausted, TooLong
  <2> QED
    BY <1>10, <1>11, <2>7, <2>8 DEF IInv
<1> QED
  BY <1>12, <1>13

(* A flush that goes one byte too far is the one that leaves the LF of a    *)
(* delimiter behind.                                                        *)
LEMMA TearsDelimiter ==
    ASSUME NEW form \in Forms, NEW i \in 1 .. Len(form),
           NEW at, at = Start(form, i) + BoundaryLength + 7 + Len(form[i].content) + 1
    PROVE  IsPrefix(<<"LF">> \o Boundary, From(Encode(form), at))
<1> DEFINE E == Encode(form)
           b == BoundaryLength
           t == <<"LF">> \o Boundary
           u == From(E, at)
           s == Start(form, i)
           c == Len(form[i].content)
<1>1. /\ s \in Nat /\ c \in Nat /\ E[s + b + c + 9] = "LF" /\ Start(form, i + 1) = s + b + c + 9
      /\ b \in Nat /\ s + b + c + 9 + b <= Len(E)
  BY PartBytes, BoundaryType
<1>2. \A j \in 1 .. b : E[s + b + c + 9 + j] = Boundary[j]
  <2>1. i + 1 \in 1 .. Len(form) + 1
    BY FormType
  <2>2. \A j \in 1 .. b : E[Start(form, i + 1) + j] = Boundary[j]
    BY <2>1, DelimiterPlace
  <2> QED
    BY <1>1, <2>2
<1>3. E \in Seq(Symbols)
  BY BodyBytes
<1>4. /\ t \in Seq(Symbols) /\ Len(t) = 1 + b /\ t[1] = "LF"
      /\ \A j \in 1 .. b : t[1 + j] = Boundary[j]
  <2> DEFINE lf == <<"LF">>
  <2>1. lf \in Seq(Symbols) /\ Boundary \in Seq(Symbols)
    BY BoundaryType DEF Symbols
  <2>2. Len(lf) = 1 /\ lf[1] = "LF"
    OBVIOUS
  <2> HIDE DEF lf
  <2>3. /\ t \in Seq(Symbols) /\ Len(t) = Len(lf) + Len(Boundary)
        /\ \A j \in 1 .. Len(lf) : t[j] = lf[j]
        /\ \A j \in 1 .. Len(Boundary) : t[Len(lf) + j] = Boundary[j]
    <3>1. lf \o Boundary = t
      BY DEF lf
    <3>2. /\ lf \o Boundary \in Seq(Symbols) /\ Len(lf \o Boundary) = Len(lf) + Len(Boundary)
          /\ \A j \in 1 .. Len(lf) : (lf \o Boundary)[j] = lf[j]
          /\ \A j \in 1 .. Len(Boundary) : (lf \o Boundary)[Len(lf) + j] = Boundary[j]
      BY <2>1, Joined
    <3> HIDE DEF t
    <3> QED
      BY <3>1, <3>2
  <2> HIDE DEF t
  <2> QED
    BY <2>2, <2>3, BoundaryType
<1> HIDE DEF E, t, s, c, b
<1>5. at = s + b + c + 8 /\ at \in 0 .. Len(E) /\ Len(E) \in Nat
  <2>1. at = s + b + 7 + c + 1
    BY DEF s, b, c
  <2>2. Len(E) \in Nat
    BY <1>3
  <2> QED
    BY <1>1, <2>1, <2>2
<1>6. /\ u \in Seq(Symbols) /\ Len(u) = Len(E) - at
      /\ \A j \in 1 .. Len(E) - at : u[j] = E[at + j]
  BY <1>3, <1>5, FromType
<1> HIDE DEF u
<1>7. Len(t) <= Len(u)
  BY <1>1, <1>4, <1>5, <1>6
<1>8. ASSUME NEW j \in 1 .. Len(t)
      PROVE  u[j] = t[j]
  <2>1. u[j] = E[at + j]
    <3>1. j \in 1 .. Len(E) - at
      BY <1>4, <1>5, <1>6, <1>7
    <3> QED
      BY <1>6, <3>1
  <2>2. CASE j = 1
    BY <1>1, <1>4, <1>5, <2>1, <2>2
  <2>3. CASE j # 1
    <3>1. j - 1 \in 1 .. b /\ 1 + (j - 1) = j /\ at + j = s + b + c + 9 + (j - 1)
      <4>1. s \in Nat /\ c \in Nat /\ b \in Nat /\ Len(t) = 1 + b /\ at = s + b + c + 8
        BY <1>1, <1>4, <1>5
      <4> QED
        BY <2>3, <4>1
    <3> QED
      BY <1>2, <1>4, <2>1, <3>1
  <2> QED
    BY <2>2, <2>3
<1>9. SubSeq(t, 1, Len(t)) = SubSeq(u, 1, Len(t))
  <2> DEFINE n == Len(t)
             x == SubSeq(t, 1, n)
             y == SubSeq(u, 1, n)
  <2>1. n \in Int /\ 1 \in Int /\ \A j \in 1 .. n : t[j] \in Symbols /\ u[j] \in Symbols
    <3>1. n \in Nat /\ \A j \in 1 .. n : t[j] \in Symbols
      BY <1>4
    <3> QED
      BY <1>8, <3>1
  <2> HIDE DEF n
  <2>2. /\ x \in Seq(Symbols) /\ Len(x) = (IF 1 <= n THEN n - 1 + 1 ELSE 0)
        /\ \A j \in 1 .. n - 1 + 1 : x[j] = t[1 + j - 1]
    BY <2>1, SubSeqProperties
  <2>3. /\ y \in Seq(Symbols) /\ Len(y) = (IF 1 <= n THEN n - 1 + 1 ELSE 0)
        /\ \A j \in 1 .. n - 1 + 1 : y[j] = u[1 + j - 1]
    BY <2>1, SubSeqProperties
  <2> HIDE DEF x, y
  <2>4. \A j \in 1 .. Len(x) : x[j] = y[j]
    <3> TAKE j \in 1 .. Len(x)
    <3>1. j \in 1 .. n - 1 + 1 /\ 1 + j - 1 = j /\ j \in 1 .. n
      BY <2>1, <2>2
    <3>2. x[j] = t[j] /\ y[j] = u[j]
      BY <2>2, <2>3, <3>1
    <3> QED
      BY <1>8, <3>1, <3>2 DEF n
  <2>5. x = y
    BY <2>2, <2>3, <2>4, SeqEqual
  <2> QED
    BY <2>5 DEF x, y, n
<1> QED
  BY <1>7, <1>9 DEF IsPrefix, t, u, E

LEMMA WaitStep ==
    ASSUME IInv, Wait PROVE IInv'
<1>1. /\ UNCHANGED <<Parts, fed, data, status, values, current, failed, torn, pointer, got>>
      /\ pc' = "idle" /\ pc # "idle" /\ status = "buffer" /\ ~Found(data, Boundary)
  BY DEF Wait, Return, kept
<1> QED
  BY <1>1, Idle

LEMMA FlushStep ==
    ASSUME IInv, Flush PROVE IInv'
<1>0. /\ Types /\ Placed /\ TooLong /\ ReadInOrder /\ Parts \in Forms
      /\ pc = "body" /\ status = "buffer" /\ UNCHANGED <<fed, status, current, Parts, pointer, got>>
      /\ ~Found(data, Boundary) /\ Len(data) >= BoundaryLength * FlushFactor /\ pc' = "idle"
  BY DEF IInv, Types, Flush, kept
<1>1. PICK i \in Nat, k \in Nat : InValue(i, k)
  BY <1>0 DEF Placed, AtDelimiter, AtHeader
<1> DEFINE b == BoundaryLength
           s == Start(Parts, i)
           at == s + b + 7 + k
           c == Len(Parts[i].content)
           name == Parts[i].name
<1>2. /\ i \in 1 .. Len(Parts) /\ current = i /\ k \in 0 .. c + 1 /\ Begun(i) /\ Whole(i - 1)
      /\ Window(Parts, at, data) /\ at + Len(data) = fed
      /\ ~torn => /\ k <= c /\ Len(values[name]) = k
                  /\ \A j \in 1 .. k : values[name][j] = Parts[i].content[j]
  BY <1>1 DEF InValue, Rest
<1>3. /\ Len(data) \in Nat /\ data \in Seq(Symbols) /\ b \in Nat \ {0} /\ s \in Nat /\ c \in Nat
  <2>1. Len(data) \in Nat /\ data \in Seq(Symbols)
    BY <1>2 DEF Window
  <2>2. s \in Nat /\ c \in Nat
    BY <1>0, <1>2, PartBytes
  <2> QED
    BY <2>1, <2>2, BoundaryType
<1>15. PICK p \in Int : p = Len(data) - BoundaryLength
  BY <1>3
<1> DEFINE chunk == Upto(data, p)
<1>4. p \in Nat /\ p \in 0 .. Len(data) /\ p <= Len(data) /\ k + p <= c + 1
  <2>1. b <= Len(data)
    <3>1. b * FlushFactor >= b
      <4> HIDE DEF b
      <4>1. FlushFactor \in Nat /\ FlushFactor >= 1
        BY LimitsAssumption
      <4>2. \A x, y \in Nat : y >= 1 => x * y >= x
        OBVIOUS
      <4> QED
        BY <1>3, <4>1, <4>2
    <3>2. b * FlushFactor \in Nat
      BY <1>3, LimitsAssumption
    <3>3. Len(data) >= b * FlushFactor
      BY <1>0
    <3> QED
      BY <1>3, <3>1, <3>2, <3>3
  <2>2. ~((c + 2 - k) + b <= Len(data))
    BY <1>0, <1>2, BoundaryFirst
  <2>3. k \in Nat /\ k <= c + 1 /\ p = Len(data) - b
    <3> HIDE DEF c
    <3> QED
      BY <1>2, <1>3, <1>15
  <2>4. Len(data) \in Nat /\ b \in Nat /\ c \in Nat
    BY <1>3
  <2> HIDE DEF b, c
  <2> QED
    BY <2>1, <2>2, <2>3, <2>4
<1>5. name \in DOMAIN values
  BY <1>2 DEF Begun
<1>6. chunk \in Seq(Symbols) /\ Len(chunk) = p
  <2>1. p \in Int /\ 0 <= p
    BY <1>4
  <2> QED
    BY <1>3, <1>4, <2>1, UptoType
<1>7. /\ Write(chunk)
      /\ failed' => data' = data
      /\ ~failed' => data' = From(data, p)
      /\ torn' = (torn \/ IsPrefix(<<"LF">> \o Boundary, From(Encoded, fed - b)))
  BY <1>15 DEF Flush
<1>8. /\ failed' \in BOOLEAN /\ DOMAIN values' = DOMAIN values
      /\ \A n \in DOMAIN values : n # name => values'[n] = values[n]
      /\ \A n \in DOMAIN values : values'[n] \in Seq(Symbols)
      /\ failed' => values' = values /\ Len(values[name]) + Len(chunk) > InMemoryLimit
      /\ ~failed' => values'[name] = values[name] \o chunk
  <2> HIDE DEF chunk
  <2> QED
    BY <1>0, <1>2, <1>5, <1>6, <1>7, WriteEffect
<1>9. ASSUME ~torn'
      PROVE  ~torn /\ k + p <= c
  <2>1. ~torn /\ ~IsPrefix(<<"LF">> \o Boundary, From(Encode(Parts), fed - b))
    BY <1>7, <1>9 DEF Encoded
  <2>2. CASE k + p = c + 1
    <3>1. fed - b = s + b + 7 + c + 1
      <4>1. at + Len(data) = fed /\ p = Len(data) - b /\ k \in Nat
        BY <1>2, <1>15
      <4> HIDE DEF s, b, c
      <4> QED
        BY <1>3, <2>2, <4>1
    <3>2. IsPrefix(<<"LF">> \o Boundary, From(Encode(Parts), fed - b))
      BY <1>0, <1>2, <3>1, TearsDelimiter
    <3> QED
      BY <2>1, <3>2
  <2> HIDE DEF c
  <2> QED
    BY <1>3, <1>4, <2>1, <2>2
<1>10. Types'
  BY <1>0, <1>7, <1>8 DEF Types
<1>11. ReadInOrder'
  BY <1>0, NotRead DEF ReadInOrder
<1>12. CASE failed'
  <2>1. UNCHANGED <<Parts, fed, data, status, current, values>>
    BY <1>0, <1>7, <1>8, <1>12
  <2>2. InValue(i, k)'
    <3>1. Rest(at)'
      BY <1>2, <2>1 DEF Rest
    <3>2. Begun(i)' /\ Whole(i - 1)'
      BY <1>2, <1>9, <2>1 DEF Begun, Whole
    <3>3. ~torn' => ~torn
      BY <1>9
    <3> QED
      BY <1>0, <1>2, <2>1, <3>1, <3>2, <3>3 DEF InValue
  <2>3. TooLong'
    <3>1. ~torn' => c > InMemoryLimit
      <4> SUFFICES ASSUME ~torn' PROVE c > InMemoryLimit
        OBVIOUS
      <4>1. k + p <= c /\ Len(values[name]) = k
        BY <1>2, <1>9
      <4>2. Len(values[name]) + Len(chunk) > InMemoryLimit
        BY <1>8, <1>12
      <4> HIDE DEF chunk, c, name
      <4> QED
        BY <1>3, <1>4, <1>6, <4>1, <4>2, LimitsAssumption
    <3> QED
      BY <1>0, <1>2, <3>1 DEF TooLong
  <2>4. Exhausted' /\ Placed'
    BY <1>12, <2>2 DEF Exhausted, Placed
  <2> QED
    BY <1>10, <1>11, <2>3, <2>4 DEF IInv
<1>13. CASE ~failed'
  <2>1. /\ Window(Parts, at + p, data') /\ (at + p) + Len(data') = fed
        /\ Len(data') = Len(data) - p
    <3> HIDE DEF at
    <3> QED
      BY <1>2, <1>4, <1>7, <1>13, WindowDrop
  <2>2. at + p = s + b + 7 + (k + p) /\ Len(data') = b
    <3>1. k \in Nat /\ p \in Nat /\ Len(data') = Len(data) - (Len(data) - b)
      BY <1>4, <1>15, <2>1
    <3>2. Len(data') = b
      <4> HIDE DEF b
      <4> QED
        BY <1>3, <3>1
    <3> HIDE DEF s, b
    <3> QED
      BY <1>3, <3>1, <3>2
  <2>3. k + p \in 0 .. c + 1 /\ k + p \in Nat
    <3> HIDE DEF c
    <3> QED
      BY <1>3, <1>4
  <2>4. Rest(s + b + 7 + (k + p))'
    <3>1. Parts' = Parts /\ fed' = fed /\ Window(Parts, s + b + 7 + (k + p), data')
          /\ (s + b + 7 + (k + p)) + Len(data') = fed
      BY <1>0, <2>1, <2>2
    <3> QED
      BY <3>1 DEF Rest
  <2>5. Begun(i)'
    BY <1>0, <1>2, <1>8 DEF Begun
  <2>6. Whole(i - 1)'
    <3> SUFFICES ASSUME ~torn', NEW j \in 1 .. i - 1
                 PROVE  values'[Parts[j].name] = Parts[j].content
      BY <1>0 DEF Whole
    <3>1. j \in 1 .. Len(Parts) /\ j # i /\ j \in 1 .. i
      BY <1>0, <1>2, FormType
    <3>2. Parts[j].name # name /\ Parts[j].name \in DOMAIN values
      BY <1>0, <1>2, <3>1, FormsAssumption DEF Begun
    <3>3. values[Parts[j].name] = Parts[j].content
      BY <1>2, <1>9 DEF Whole
    <3> QED
      BY <1>8, <3>2, <3>3
  <2>7. ASSUME ~torn'
        PROVE  /\ k + p <= c /\ Len(values'[name]) = k + p
               /\ \A j \in 1 .. k + p : values'[name][j] = Parts[i].content[j]
    <3>1. Takes(Parts, i, k, data, p) /\ k \in Nat
      BY <1>4, <1>9, <2>7 DEF Takes
    <3>2. values[name] \in Seq(Symbols)
      BY <1>0, <1>5 DEF Types
    <3>3. /\ Len(values[name]) = k
          /\ \A j \in 1 .. k : values[name][j] = Parts[i].content[j]
      BY <1>2, <1>9, <2>7
    <3>4. Window(Parts, at, data) /\ Inside(Parts, i, k, at)
      BY <1>2 DEF Inside
    <3>5. values'[name] = values[name] \o Upto(data, p)
      BY <1>8, <1>13
    <3>6. Parts \in Forms /\ i \in 1 .. Len(Parts)
      BY <1>0, <1>2
    <3>7. k + p <= c
      BY <1>9, <2>7
    <3> HIDE DEF chunk, name, at, s, b, c
    <3>8. Begins(Parts, i, k, values[name])
      BY <3>2, <3>3 DEF Begins
    <3>9. Begins(Parts, i, k + p, values[name] \o Upto(data, p))
      BY <3>1, <3>4, <3>6, <3>8, ValueGrows
    <3> QED
      BY <3>5, <3>7, <3>9 DEF Begins
  <2>8. InValue(i, k + p)'
    <3>1. Parts' = Parts /\ i \in 1 .. Len(Parts') /\ status' = "buffer" /\ current' = i
      BY <1>0, <1>2
    <3> QED
      BY <2>3, <2>4, <2>5, <2>6, <2>7, <3>1 DEF InValue
  <2>9. Placed'
    <3> QED
      BY <2>3, <2>8 DEF Placed
  <2>10. ~Found(data', Boundary)
    <3> DEFINE k1 == k + p
               q == Len(Parts[i].content) + 2 - k1
    <3>1. Window(Parts, Start(Parts, i) + BoundaryLength + 7 + k1, data')
          /\ k1 \in 0 .. Len(Parts[i].content) + 1
      BY <2>1, <2>2, <2>3
    <3>2. /\ q \in Nat /\ q # 0
          /\ Found(data', Boundary) <=> q + BoundaryLength <= Len(data')
      <4> HIDE DEF k1
      <4> QED
        BY <1>0, <1>2, <3>1, BoundaryFirst
    <3>3. Len(data') = BoundaryLength /\ BoundaryLength \in Nat
      BY <1>3, <2>2
    <3> HIDE DEF q
    <3> QED
      BY <3>2, <3>3
  <2>11. Exhausted' /\ TooLong'
    BY <1>0, <1>13, <2>10 DEF Exhausted, TooLong
  <2> QED
    BY <1>10, <1>11, <2>9, <2>11 DEF IInv
<1> QED
  BY <1>12, <1>13

(* Once the whole body was fed and feed() returned, the parser is behind    *)
(* the last delimiter.                                                      *)
LEMMA Completed ==
    ASSUME Types, Placed, Exhausted, fed = Len(Encoded), pc = "idle", ~failed
    PROVE  Begun(Len(Parts)) /\ Whole(Len(Parts))
<1> DEFINE b == BoundaryLength
<1>0. /\ Parts \in Forms /\ fed = Len(Encode(Parts)) /\ b \in Nat /\ Len(Parts) \in Nat
  BY FormType, BoundaryType DEF Types, Encoded
<1>1. ASSUME NEW i, AtDelimiter(i)
      PROVE  FALSE
  <2>1. /\ i \in 1 .. Len(Parts) + 1 /\ Start(Parts, i) + Len(data) = fed
        /\ Len(data) \in Nat /\ Len(data) < b
    BY <1>1 DEF AtDelimiter, Rest, Window, Exhausted
  <2>2. Start(Parts, i) \in Nat /\ Start(Parts, i) + b + 2 <= fed
    BY <1>0, <2>1, DelimiterPlace
  <2> HIDE DEF b
  <2> QED
    BY <1>0, <2>1, <2>2
<1>2. ASSUME NEW i, AtHeader(i)
      PROVE  Begun(Len(Parts)) /\ Whole(Len(Parts))
  <2>1. /\ i \in 1 .. Len(Parts) + 1 /\ Window(Parts, Start(Parts, i) + b, data)
        /\ (Start(Parts, i) + b) + Len(data) = fed /\ ~Found(data, CRLF \o CRLF)
        /\ Begun(i - 1) /\ Whole(i - 1)
    BY <1>2 DEF AtHeader, Rest, Exhausted
  <2>2. CASE i \in 1 .. Len(Parts)
    <3>1. ~(7 <= Len(data)) /\ Len(data) \in Nat
      BY <1>0, <2>1, <2>2, HeaderFirst DEF Window
    <3> DEFINE s == Start(Parts, i)
               c == Len(Parts[i].content)
    <3>2. s \in Nat /\ c \in Nat /\ s + b + c + 9 + b <= fed
      BY <1>0, <2>2, PartBytes
    <3>3. (s + b) + Len(data) = fed
      BY <2>1
    <3> HIDE DEF s, c, b
    <3> QED
      BY <1>0, <3>1, <3>2, <3>3
  <2>3. CASE i = Len(Parts) + 1
    <3>1. i - 1 = Len(Parts)
      BY <1>0, <2>3
    <3> QED
      BY <2>1, <3>1
  <2> QED
    BY <1>0, <2>1, <2>2, <2>3
<1>3. ASSUME NEW i, NEW k, InValue(i, k)
      PROVE  FALSE
  <2> DEFINE s == Start(Parts, i)
             c == Len(Parts[i].content)
  <2>1. /\ i \in 1 .. Len(Parts) /\ k \in 0 .. c + 1 /\ Window(Parts, s + b + 7 + k, data)
        /\ (s + b + 7 + k) + Len(data) = fed /\ ~Found(data, Boundary)
    BY <1>3 DEF InValue, Rest, Exhausted
  <2>2. ~((c + 2 - k) + b <= Len(data)) /\ Len(data) \in Nat
    BY <1>0, <2>1, BoundaryFirst DEF Window
  <2>3. s \in Nat /\ c \in Nat /\ s + b + c + 9 + b <= fed /\ fed \in Nat
    BY <1>0, <2>1, PartBytes DEF Types
  <2>4. k \in Nat /\ (s + b + 7 + k) + Len(data) = fed
    BY <2>1, <2>3
  <2> HIDE DEF s, c, b
  <2> QED
    BY <1>0, <2>2, <2>3, <2>4
<1> QED
  BY <1>1, <1>2, <1>3 DEF Placed

LEMMA UploadedType ==
    ASSUME Types, Begun(Len(Parts))
    PROVE  Uploaded \in Seq(Symbols) /\ Len(Uploaded) \in Nat
<1>1. Last(Parts).name \in DOMAIN values
  <2>1. Len(Parts) \in 1 .. Len(Parts)
    BY FormType DEF Types
  <2> QED
    BY <2>1 DEF Begun, Last
<1>2. Uploaded \in Seq(Symbols)
  BY <1>1 DEF Types, Uploaded
<1> QED
  BY <1>2

LEMMA ReadStep ==
    ASSUME IInv, NEW count \in Counts, Read(count)
    PROVE  IInv'
<1>0. /\ Types /\ Placed /\ Exhausted /\ TooLong /\ ReadInOrder
      /\ fed = Len(Encoded) /\ pc = "idle" /\ ~failed /\ Len(got) < Len(Uploaded)
      /\ UNCHANGED <<Parts, fed, data, status, values, current, pc, failed, torn>>
      /\ count \in Nat
  BY LimitsAssumption DEF IInv, Read
<1>1. Uploaded \in Seq(Symbols) /\ Len(Uploaded) \in Nat
  BY <1>0, Completed, UploadedType
<1>2. got \in Seq(Symbols) /\ Len(got) \in Nat /\ pointer \in Nat
  BY <1>0 DEF Types
<1>3. /\ pointer = Len(got)
      /\ \A j \in 1 .. Len(got) : got[j] = Uploaded[j]
  <2>1. CASE got = <<>>
    BY <1>0, <2>1 DEF ReadInOrder
  <2>2. CASE got # <<>>
    BY <1>0, <1>1, <1>2, <2>2 DEF ReadInOrder
  <2> QED
    BY <2>1, <2>2
<1>4. PICK n \in Nat :
         /\ Len(got) < n /\ n <= Len(Uploaded)
         /\ got' = got \o SubSeq(Uploaded, Len(got) + 1, n)
         /\ pointer' \in Nat /\ (pointer' = n \/ n = Len(Uploaded))
  <2>1. CASE count = 0
    <3>1. /\ got' = got \o SubSeq(Uploaded, Len(got) + 1, Len(Uploaded))
          /\ pointer' = Len(Uploaded)
      BY <1>3, <2>1 DEF Read, From
    <3> QED
      BY <1>0, <1>1, <3>1
  <2>2. CASE count # 0
    <3> DEFINE m == Min({pointer + count, Len(Uploaded)})
    <3>1. /\ got' = got \o SubSeq(Uploaded, Len(got) + 1, m)
          /\ pointer' = Len(got) + count
      BY <1>3, <2>2 DEF Read
    <3>2. m = IF Len(got) + count <= Len(Uploaded) THEN Len(got) + count ELSE Len(Uploaded)
      <4>1. \A x, y \in Nat : Min({x, y}) = IF x <= y THEN x ELSE y
        <5> TAKE x \in Nat, y \in Nat
        <5> DEFINE T == {x, y}
        <5>1. T \subseteq Nat /\ T # {}
          OBVIOUS
        <5> HIDE DEF T
        <5>2. \E z \in T : \A w \in T : z =< w
          BY <5>1, Least
        <5>3. Min(T) \in T /\ \A w \in T : Min(T) =< w
          BY <5>2 DEF Min
        <5> QED
          BY <5>3 DEF T
      <4> QED
        BY <1>1, <1>2, <1>3, <1>0, <4>1
    <3> HIDE DEF m
    <3>3. /\ m \in Nat /\ Len(got) < m /\ m <= Len(Uploaded)
          /\ Len(got) + count \in Nat /\ (Len(got) + count = m \/ m = Len(Uploaded))
      BY <1>0, <1>1, <1>2, <2>2, <3>2
    <3> QED
      BY <3>1, <3>3
  <2> QED
    BY <2>1, <2>2
<1> DEFINE x == SubSeq(Uploaded, Len(got) + 1, n)
           u == got \o x
<1>5. /\ x \in Seq(Symbols) /\ Len(x) = n - Len(got)
      /\ \A j \in 1 .. n - Len(got) : x[j] = Uploaded[Len(got) + j]
  <2>1. /\ Len(got) + 1 \in Int /\ n \in Int
        /\ \A j \in Len(got) + 1 .. n : Uploaded[j] \in Symbols
    BY <1>1, <1>2, <1>4
  <2>2. /\ x \in Seq(Symbols)
        /\ Len(x) = IF Len(got) + 1 <= n THEN n - (Len(got) + 1) + 1 ELSE 0
        /\ \A j \in 1 .. n - (Len(got) + 1) + 1 : x[j] = Uploaded[(Len(got) + 1) + j - 1]
    BY <2>1, SubSeqProperties
  <2> HIDE DEF x
  <2>3. Len(x) = n - Len(got)
    BY <1>2, <1>4, <2>2
  <2>4. \A j \in 1 .. n - Len(got) : x[j] = Uploaded[Len(got) + j]
    <3> TAKE j \in 1 .. n - Len(got)
    <3>1. j \in 1 .. n - (Len(got) + 1) + 1 /\ (Len(got) + 1) + j - 1 = Len(got) + j
      BY <1>2, <1>4
    <3> QED
      BY <2>2, <3>1
  <2> QED
    BY <2>2, <2>3, <2>4
<1> HIDE DEF x
<1>6. /\ u \in Seq(Symbols) /\ Len(u) = n
      /\ \A j \in 1 .. n : u[j] = Uploaded[j]
  <2>1. /\ u \in Seq(Symbols) /\ Len(u) = Len(got) + Len(x)
        /\ \A j \in 1 .. Len(got) : u[j] = got[j]
        /\ \A j \in 1 .. Len(x) : u[Len(got) + j] = x[j]
    <3>1. got \in Seq(Symbols) /\ x \in Seq(Symbols)
      BY <1>2, <1>5
    <3> QED
      BY <3>1, Joined
  <2> HIDE DEF u
  <2>2. Len(u) = n
    BY <1>2, <1>4, <1>5, <2>1
  <2>3. ASSUME NEW j \in 1 .. n
        PROVE  u[j] = Uploaded[j]
    <3>1. CASE j \in 1 .. Len(got)
      BY <1>3, <2>1, <3>1
    <3>2. CASE j \notin 1 .. Len(got)
      <4>1. /\ j - Len(got) \in 1 .. Len(x) /\ j - Len(got) \in 1 .. n - Len(got)
            /\ Len(got) + (j - Len(got)) = j
        BY <1>2, <1>4, <1>5, <3>2
      <4>2. u[j] = x[j - Len(got)]
        BY <2>1, <4>1
      <4> QED
        BY <1>5, <4>1, <4>2
    <3> QED
      BY <3>1, <3>2
  <2> QED
    BY <2>1, <2>2, <2>3
<1>7. got' = u /\ u # <<>> /\ Uploaded' = Uploaded /\ Encoded' = Encoded
  <2>1. u # <<>>
    <3> HIDE DEF u
    <3> QED
      BY <1>2, <1>4, <1>6
  <2>2. got' = u
    BY <1>4 DEF x
  <2> QED
    BY <1>0, <2>1, <2>2 DEF Uploaded, Encoded
<1> HIDE DEF u
<1>8. ReadInOrder'
  <2>1. /\ got' # <<>> /\ Len(got') = n
        /\ \A j \in 1 .. Len(got') : got'[j] = Uploaded'[j]
    BY <1>6, <1>7
  <2>2. Len(got') <= Len(Uploaded') /\ (pointer' = Len(got') \/ Len(got') = Len(Uploaded'))
    BY <1>4, <1>7, <2>1
  <2> QED
    BY <1>0, <1>7, <2>1, <2>2 DEF ReadInOrder
<1>9. Types'
  BY <1>0, <1>4, <1>6, <1>7 DEF Types
<1>10. Placed'
  <2>1. \A at : Rest(at) => Rest(at)'
    BY <1>0 DEF Rest
  <2> QED
    BY <1>0, <2>1, SamePlace
<1>11. Exhausted' /\ TooLong'
  BY <1>0 DEF Exhausted, TooLong
<1> QED
  BY <1>8, <1>9, <1>10, <1>11 DEF IInv

LEMMA Stutters ==
    ASSUME IInv, UNCHANGED vars PROVE IInv'
<1>1. UNCHANGED <<Parts, fed, data, status, values, current, pc, failed, torn, pointer, got>>
  BY DEF vars
<1>2. Types'
  BY <1>1 DEF IInv, Types
<1>3. Placed'
  <2>1. \A at : Rest(at) => Rest(at)'
    BY <1>1 DEF Rest
  <2> QED
    BY <1>1, <2>1, SamePlace DEF IInv
<1>4. Exhausted' /\ TooLong'
  BY <1>1 DEF IInv, Exhausted, TooLong
<1>5. ReadInOrder'
  <2>1. Uploaded' = Uploaded /\ Encoded' = Encoded
    BY <1>1 DEF Uploaded, Encoded
  <2> QED
    BY <1>1, <2>1 DEF IInv, ReadInOrder
<1> QED
  BY <1>2, <1>3, <1>4, <1>5 DEF IInv

-----------------------------------------------------------------------------
(* The parser is at a place of the body that agrees with what it has        *)
(* written, whatever the chunks (parser.pyx:233-284).                       *)
THEOREM PlaceKept == Spec => []IInv
<1>1. Init => IInv
  BY InitHolds
<1>2. IInv /\ [Next]_vars => IInv'
  <2> SUFFICES ASSUME IInv, [Next]_vars PROVE IInv'
    OBVIOUS
  <2>1. CASE \E n \in 1 .. MaxChunk : Feed(n)
    BY <2>1, FeedStep
  <2>2. CASE Loop
    BY <2>2, TopStep, ExpectingBoundaryStep, ExpectingHeadersStep, TakePartStep, FlushStep, WaitStep DEF Loop
  <2>3. CASE \E count \in Counts : Read(count)
    BY <2>3, ReadStep
  <2>4. CASE UNCHANGED vars
    BY <2>4, Stutters
  <2> QED
    BY <2>1, <2>2, <2>3, <2>4 DEF Next
<1> QED
  BY <1>1, <1>2, PTL DEF Spec

LEMMA Prefix ==
    ASSUME NEW s \in Seq(Symbols), NEW t \in Seq(Symbols), Len(s) <= Len(t),
           \A j \in 1 .. Len(s) : s[j] = t[j]
    PROVE  IsPrefix(s, t)
<1> DEFINE n == Len(s)
           x == SubSeq(s, 1, n)
           y == SubSeq(t, 1, n)
<1>1. n \in Nat /\ n \in Int /\ 1 \in Int /\ \A j \in 1 .. n : s[j] \in Symbols /\ t[j] \in Symbols
  BY Len(t) \in Nat
<1>2. \A j \in 1 .. n : s[j] = t[j]
  OBVIOUS
<1> HIDE DEF n
<1>3. /\ x \in Seq(Symbols) /\ Len(x) = (IF 1 <= n THEN n - 1 + 1 ELSE 0)
      /\ \A j \in 1 .. n - 1 + 1 : x[j] = s[1 + j - 1]
  BY <1>1, SubSeqProperties
<1>4. /\ y \in Seq(Symbols) /\ Len(y) = (IF 1 <= n THEN n - 1 + 1 ELSE 0)
      /\ \A j \in 1 .. n - 1 + 1 : y[j] = t[1 + j - 1]
  BY <1>1, SubSeqProperties
<1> HIDE DEF x, y
<1>5. \A j \in 1 .. Len(x) : x[j] = y[j]
  <2> TAKE j \in 1 .. Len(x)
  <2>1. j \in 1 .. n - 1 + 1 /\ 1 + j - 1 = j /\ j \in 1 .. n
    BY <1>1, <1>3
  <2>2. x[j] = s[j] /\ y[j] = t[j]
    BY <1>3, <1>4, <2>1
  <2> QED
    BY <1>2, <2>1, <2>2
<1>6. x = y
  BY <1>3, <1>4, <1>5, SeqEqual
<1> QED
  BY <1>6 DEF IsPrefix, x, y, n

(* What was written of a part is a beginning of it. *)
LEMMA WrittenPrefix ==
    ASSUME Types, Placed, ~torn, NEW i \in 1 .. Len(Parts)
    PROVE  IsPrefix(Written(Parts[i]), Parts[i].content)
<1>0. Parts \in Forms /\ Len(Parts) \in Nat
  BY FormType DEF Types
<1> DEFINE v == Parts[i].content
<1>1. v \in Seq(Symbols) /\ Len(v) \in Nat
  BY <1>0, ContentType
<1>2. ASSUME Written(Parts[i]) = <<>>
      PROVE  IsPrefix(Written(Parts[i]), v)
  <2>1. /\ <<>> \in Seq(Symbols) /\ Len(<<>>) = 0 /\ 0 <= Len(v)
        /\ \A j \in 1 .. Len(<<>>) : <<>>[j] = v[j]
    BY <1>1
  <2> HIDE DEF v
  <2> QED
    BY <1>1, <1>2, <2>1, Prefix
<1>3. ASSUME Written(Parts[i]) = v
      PROVE  IsPrefix(Written(Parts[i]), v)
  <2> HIDE DEF v
  <2>1. \A j \in 1 .. Len(v) : v[j] = v[j]
    OBVIOUS
  <2>2. Len(v) <= Len(v)
    BY <1>1
  <2> QED
    BY <1>1, <1>3, <2>1, <2>2, Prefix
<1>4. ASSUME NEW n \in 0 .. Len(Parts), Begun(n), Whole(n)
      PROVE  IsPrefix(Written(Parts[i]), v)
  <2>1. CASE i \in 1 .. n
    <3>1. Parts[i].name \in DOMAIN values
      BY <1>4, <2>1 DEF Begun
    <3>2. values[Parts[i].name] = v
      BY <1>4, <2>1 DEF Whole
    <3> QED
      BY <1>3, <3>1, <3>2 DEF Written
  <2>2. CASE i \notin 1 .. n
    <3>1. \A j \in 1 .. n : j \in 1 .. Len(Parts) /\ j # i
      BY <1>0, <2>2
    <3>2. Parts[i].name \notin DOMAIN values
      BY <1>0, <1>4, <3>1, FormsAssumption DEF Begun
    <3> QED
      BY <1>2, <3>2 DEF Written
  <2> QED
    BY <2>1, <2>2
<1>5. ASSUME NEW n \in Nat, AtDelimiter(n) \/ AtHeader(n)
      PROVE  IsPrefix(Written(Parts[i]), v)
  <2>1. n - 1 \in 0 .. Len(Parts) /\ Begun(n - 1) /\ Whole(n - 1)
    BY <1>0, <1>5 DEF AtDelimiter, AtHeader
  <2> QED
    BY <1>4, <2>1
<1>6. ASSUME NEW n \in Nat, NEW k \in Nat, InValue(n, k)
      PROVE  IsPrefix(Written(Parts[i]), v)
  <2>0. n \in 1 .. Len(Parts) /\ Begun(n) /\ Whole(n - 1)
    BY <1>6 DEF InValue
  <2>1. CASE i = n
    <3>1. Parts[i].name \in DOMAIN values
      BY <2>0, <2>1 DEF Begun
    <3> DEFINE w == values[Parts[i].name]
    <3>2. Written(Parts[i]) = w /\ w \in Seq(Symbols)
      BY <3>1 DEF Written, Types
    <3>3. k <= Len(v) /\ Len(w) = k /\ \A j \in 1 .. k : w[j] = v[j]
      BY <1>6, <2>1 DEF InValue
    <3> HIDE DEF w, v
    <3> QED
      BY <1>1, <3>2, <3>3, Prefix
  <2>2. CASE i \in 1 .. n - 1
    <3>1. Parts[i].name \in DOMAIN values
      BY <2>0, <2>2 DEF Begun
    <3>2. values[Parts[i].name] = v
      BY <2>0, <2>2 DEF Whole
    <3> QED
      BY <1>3, <3>1, <3>2 DEF Written
  <2>3. CASE i \notin 1 .. n
    <3>1. \A j \in 1 .. n : j \in 1 .. Len(Parts) /\ j # i
      BY <1>0, <2>0, <2>3
    <3>2. Parts[i].name \notin DOMAIN values
      BY <1>0, <2>0, <3>1, FormsAssumption DEF Begun
    <3> QED
      BY <1>2, <3>2 DEF Written
  <2> QED
    BY <2>0, <2>1, <2>2, <2>3
<1> QED
  BY <1>5, <1>6 DEF Placed

(* Values arrive as they were sent, and files are read without a gap, for   *)
(* every form and every way to cut its body (parser.pyx:233-284, 55-67;     *)
(* containers.py:90-104).                                                   *)
THEOREM FormsArrive == Spec => []Parses
<1>1. IInv => Parses
  <2> SUFFICES ASSUME IInv, ~torn
               PROVE  /\ \A i \in 1 .. Len(Parts) : IsPrefix(Written(Parts[i]), Parts[i].content)
                      /\ fed = Len(Encoded) /\ pc = "idle" /\ ~failed =>
                             \A i \in 1 .. Len(Parts) : Written(Parts[i]) = Parts[i].content
                      /\ IsPrefix(got, Last(Parts).content)
                      /\ failed => \E i \in 1 .. Len(Parts) : Len(Parts[i].content) > InMemoryLimit
    BY DEF Parses
  <2>0. Types /\ Placed /\ Exhausted /\ TooLong /\ ReadInOrder /\ Parts \in Forms
    BY DEF IInv, Types
  <2>1. \A i \in 1 .. Len(Parts) : IsPrefix(Written(Parts[i]), Parts[i].content)
    BY <2>0, WrittenPrefix
  <2>2. ASSUME fed = Len(Encoded), pc = "idle", ~failed
        PROVE  \A i \in 1 .. Len(Parts) :
                  /\ Parts[i].name \in DOMAIN values
                  /\ values[Parts[i].name] = Parts[i].content
    BY <2>0, <2>2, Completed DEF Begun, Whole
  <2>3. IsPrefix(got, Last(Parts).content)
    <3> DEFINE v == Last(Parts).content
    <3>0. Len(Parts) \in 1 .. Len(Parts)
      BY <2>0, FormType
    <3>1. v \in Seq(Symbols) /\ Len(v) \in Nat /\ got \in Seq(Symbols)
      BY <2>0, <3>0, ContentType DEF Types, Last
    <3>2. CASE got = <<>>
      <4>1. Len(got) = 0
        BY <3>2
      <4> HIDE DEF v
      <4>2. Len(got) <= Len(v) /\ \A j \in 1 .. Len(got) : got[j] = v[j]
        BY <3>1, <4>1
      <4>3. IsPrefix(got, v)
        BY <3>1, <4>2, Prefix
      <4> QED
        BY <4>3 DEF v
    <3>3. CASE got # <<>>
      <4>1. /\ fed = Len(Encoded) /\ pc = "idle" /\ ~failed /\ Len(got) <= Len(Uploaded)
            /\ \A j \in 1 .. Len(got) : got[j] = Uploaded[j]
        BY <2>0, <3>3 DEF ReadInOrder
      <4>2. Uploaded = v
        BY <2>2, <3>0, <4>1 DEF Uploaded, Last
      <4> HIDE DEF v
      <4>3. Len(got) <= Len(v) /\ \A j \in 1 .. Len(got) : got[j] = v[j]
        BY <4>1, <4>2
      <4>4. IsPrefix(got, v)
        BY <3>1, <4>3, Prefix
      <4> QED
        BY <4>4 DEF v
    <3> QED
      BY <3>2, <3>3
  <2>4. fed = Len(Encoded) /\ pc = "idle" /\ ~failed =>
            \A i \in 1 .. Len(Parts) : Written(Parts[i]) = Parts[i].content
    BY <2>2 DEF Written
  <2> QED
    BY <2>0, <2>1, <2>3, <2>4 DEF TooLong
<1> QED
  BY <1>1, PlaceKept, PTL

(* The parser and its buffers keep their types. *)
THEOREM TypeCorrect == Spec => []TypeOK
<1>1. IInv => TypeOK
  <2> SUFFICES ASSUME IInv PROVE TypeOK
    OBVIOUS
  <2>0. Types /\ Placed /\ Parts \in Forms /\ Len(Parts) \in Nat
    BY FormType DEF IInv, Types
  <2>1. Len(Encoded) = Len(Encode(Parts)) /\ Len(Encoded) \in Nat /\ fed \in Nat
    BY <2>0, EncodedType DEF Types
  <2>2. ASSUME NEW at, Rest(at)
        PROVE  fed \in 0 .. Len(Encoded)
    BY <2>1, <2>2 DEF Rest, Window
  <2>3. ASSUME NEW n \in 0 .. Len(Parts), Begun(n)
        PROVE  DOMAIN values \subseteq {Parts[i].name : i \in 1 .. Len(Parts)}
    <3>1. 1 .. n \subseteq 1 .. Len(Parts)
      BY <2>0
    <3> QED
      BY <2>3, <3>1 DEF Begun
  <2> DEFINE Right == /\ fed \in 0 .. Len(Encoded) /\ current \in 0 .. Len(Parts)
                      /\ status = "buffer" <=> current # 0
                      /\ DOMAIN values \subseteq {Parts[i].name : i \in 1 .. Len(Parts)}
  <2>4. Right
    <3>1. ASSUME NEW i \in Nat, AtDelimiter(i) \/ AtHeader(i)
          PROVE  Right
      <4>1. /\ status # "buffer" /\ current = 0 /\ i - 1 \in 0 .. Len(Parts) /\ Begun(i - 1)
            /\ \E at : Rest(at)
        BY <2>0, <3>1 DEF AtDelimiter, AtHeader
      <4> QED
        BY <2>0, <2>2, <2>3, <4>1
    <3>2. ASSUME NEW i \in Nat, NEW k \in Nat, InValue(i, k)
          PROVE  Right
      <4>1. /\ status = "buffer" /\ current = i /\ i \in 1 .. Len(Parts) /\ Begun(i)
            /\ \E at : Rest(at)
        BY <3>2 DEF InValue
      <4>2. i # 0 /\ i \in 0 .. Len(Parts)
        BY <2>0, <4>1
      <4> QED
        BY <2>2, <2>3, <4>1, <4>2
    <3> QED
      BY <2>0, <3>1, <3>2 DEF Placed
  <2> QED
    BY <2>0, <2>4 DEF Types, TypeOK
<1> QED
  BY <1>1, PlaceKept, PTL
=============================================================================
