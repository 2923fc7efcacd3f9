---------------------------- MODULE ParserProofs ----------------------------
(***************************************************************************)
(* That the two parsers agree, for every reply and every way to encode it. *)
(* First that the recursive functions are defined at all; then, of a least *)
(* counterexample by depth, that parsing what the broker wrote gives what  *)
(* parsing the JSON gives.                                                 *)
(***************************************************************************)
EXTENDS ReplyParsers, WellFoundedInduction, TLAPS

(* A set of numbers has a least one. *)
LEMMA LeastNat ==
  ASSUME NEW T, T \subseteq Nat, T # {}
  PROVE  \E n \in T : \A m \in T : n <= m
<1>1. PICK n \in T : \A m \in T : <<m, n>> \notin OpToRel(<, Nat)
  BY WFMin, NatLessThanWellFounded, Zenon
<1>2. ASSUME NEW m \in T PROVE n <= m
  <2>1. <<m, n>> \in Nat \X Nat /\ <<m, n>>[1] = m /\ <<m, n>>[2] = n
    OBVIOUS
  <2>2. ~(m < n)
    BY <1>1, <2>1 DEF OpToRel
  <2> QED
    BY <2>2
<1> QED
  BY <1>2

(* A set of ranked things that holds each whose lower ones it holds is all *)
(* of them. *)
LEMMA RankInduction ==
  ASSUME NEW S, NEW rank, \A x \in S : rank[x] \in Nat, NEW G,
         \A x \in S : (\A y \in S : rank[y] < rank[x] => y \in G) => x \in G
  PROVE  \A x \in S : x \in G
<1> DEFINE Bad == {rank[x] : x \in {y \in S : y \notin G}}
<1> SUFFICES ASSUME NEW x \in S, x \notin G PROVE FALSE
  OBVIOUS
<1>1. PICK n \in Bad : \A m \in Bad : n <= m
  <2>1. Bad \subseteq Nat /\ Bad # {}
    OBVIOUS
  <2> HIDE DEF Bad
  <2> QED
    BY <2>1, LeastNat
<1>2. PICK z \in S : z \notin G /\ rank[z] = n
  OBVIOUS
<1>3. ASSUME NEW y \in S, rank[y] < rank[z], y \notin G PROVE FALSE
  <2>1. rank[y] \in Bad /\ rank[y] \in Nat /\ rank[z] \in Nat
    BY <1>3
  <2> HIDE DEF Bad
  <2> QED
    BY <1>1, <1>2, <1>3, <2>1
<1> QED
  BY <1>2, <1>3

(* f solves the recursion E for all of S that ranks below n. *)
Solves(S, T, rank, E, n, f) ==
  f \in [S -> T] /\ \A x \in S : rank[x] < n => f[x] = E[<<x, f>>]

(* E looks at lower ranks only. *)
Local(S, T, rank, E) ==
  /\ \A x \in S : rank[x] \in Nat
  /\ \A x \in S : \A f \in [S -> T] : E[<<x, f>>] \in T
  /\ \A x \in S : \A f, g \in [S -> T] :
       (\A y \in S : rank[y] < rank[x] => f[y] = g[y]) => E[<<x, f>>] = E[<<x, g>>]

(* One rank more. *)
LEMMA SolveMore ==
  ASSUME NEW S, NEW T, NEW rank, NEW E, Local(S, T, rank, E),
         NEW n \in Nat, NEW f, Solves(S, T, rank, E, n, f)
  PROVE  \E g : Solves(S, T, rank, E, n + 1, g)
<1> DEFINE g == [x \in S |-> IF rank[x] < n THEN f[x] ELSE E[<<x, f>>]]
<1>1. f \in [S -> T] /\ \A x \in S : rank[x] < n => f[x] = E[<<x, f>>]
  BY DEF Solves
<1>2. \A x \in S : rank[x] \in Nat /\ E[<<x, f>>] \in T
  BY <1>1 DEF Local
<1>3. g \in [S -> T]
  BY <1>1, <1>2
<1>4. \A x \in S : g[x] = E[<<x, f>>]
  BY <1>1
<1>5. \A x \in S : rank[x] < n => g[x] = f[x]
  OBVIOUS
<1> HIDE DEF g
<1>6. ASSUME NEW x \in S, rank[x] < n + 1 PROVE g[x] = E[<<x, g>>]
  <2>1. \A y \in S : rank[y] < rank[x] => f[y] = g[y]
    <3> SUFFICES ASSUME NEW y \in S, rank[y] < rank[x] PROVE f[y] = g[y]
      OBVIOUS
    <3>1. rank[y] \in Nat /\ rank[x] \in Nat
      BY <1>2
    <3>2. rank[y] < n
      BY <1>6, <3>1
    <3> QED
      BY <1>5, <3>2
  <2>2. E[<<x, f>>] = E[<<x, g>>]
    BY <1>1, <1>3, <2>1 DEF Local
  <2> QED
    BY <1>4, <2>2
<1> QED
  BY <1>3, <1>6 DEF Solves

(* Any number of ranks. *)
LEMMA SolveBelow ==
  ASSUME NEW S, NEW T, NEW t0 \in T, NEW rank, NEW E, Local(S, T, rank, E)
  PROVE  \A n \in Nat : \E f : Solves(S, T, rank, E, n, f)
<1> DEFINE Bad == {n \in Nat : ~ \E f : Solves(S, T, rank, E, n, f)}
<1> SUFFICES ASSUME Bad # {} PROVE FALSE
  OBVIOUS
<1>1. PICK n \in Bad : \A m \in Bad : n <= m
  <2>1. Bad \subseteq Nat
    OBVIOUS
  <2> HIDE DEF Bad
  <2> QED
    BY <2>1, LeastNat
<1>2. n # 0
  <2>1. [x \in S |-> t0] \in [S -> T]
    OBVIOUS
  <2>2. \A x \in S : ~(rank[x] < 0)
    BY DEF Local
  <2>3. Solves(S, T, rank, E, 0, [x \in S |-> t0])
    BY <2>1, <2>2 DEF Solves
  <2> QED
    BY <2>3
<1>3. n - 1 \in Nat /\ n - 1 \notin Bad
  <2>1. n \in Nat
    OBVIOUS
  <2> HIDE DEF Bad
  <2> QED
    BY <1>1, <1>2, <2>1
<1>4. PICK f : Solves(S, T, rank, E, n - 1, f)
  BY <1>3
<1>5. \E g : Solves(S, T, rank, E, (n - 1) + 1, g)
  BY <1>3, <1>4, SolveMore
<1>6. (n - 1) + 1 = n
  OBVIOUS
<1> QED
  BY <1>5, <1>6

(* Two solutions agree where both solve. *)
LEMMA SolveOne ==
  ASSUME NEW S, NEW T, NEW rank, NEW E, Local(S, T, rank, E),
         NEW m \in Nat, NEW n \in Nat, m <= n,
         NEW f, Solves(S, T, rank, E, m, f), NEW g, Solves(S, T, rank, E, n, g)
  PROVE  \A x \in S : rank[x] < m => f[x] = g[x]
<1> DEFINE G == {x \in S : rank[x] < m => f[x] = g[x]}
<1>1. \A x \in S : rank[x] \in Nat
  BY DEF Local
<1>2. /\ f \in [S -> T] /\ \A x \in S : rank[x] < m => f[x] = E[<<x, f>>]
      /\ g \in [S -> T] /\ \A x \in S : rank[x] < n => g[x] = E[<<x, g>>]
  BY DEF Solves
<1>3. ASSUME NEW x \in S, \A y \in S : rank[y] < rank[x] => y \in G PROVE x \in G
  <2> SUFFICES ASSUME rank[x] < m PROVE f[x] = g[x]
    OBVIOUS
  <2>1. \A y \in S : rank[y] < rank[x] => f[y] = g[y]
    BY <1>1, <1>3
  <2>2. E[<<x, f>>] = E[<<x, g>>]
    BY <1>2, <2>1 DEF Local
  <2>3. rank[x] < n
    BY <1>1
  <2> QED
    BY <1>2, <2>2, <2>3
<1>4. \A x \in S : x \in G
  <2> HIDE DEF G
  <2> QED
    BY <1>1, <1>3, RankInduction
<1> QED
  BY <1>4

(* It solves it for all of S. *)
Solution(S, T, E, f) == f \in [S -> T] /\ \A x \in S : f[x] = E[<<x, f>>]

(* Recursion on ranks has a solution. *)
LEMMA Recursion ==
  ASSUME NEW S, NEW T, NEW t0 \in T, NEW rank, NEW E, Local(S, T, rank, E)
  PROVE  \E f : Solution(S, T, E, f)
<1> DEFINE Sol(n) == CHOOSE f : Solves(S, T, rank, E, n, f)
           F == [x \in S |-> Sol(rank[x] + 1)[x]]
<1>1. \A n \in Nat : Solves(S, T, rank, E, n, Sol(n))
  BY SolveBelow
<1>2. \A x \in S : rank[x] \in Nat
  BY DEF Local
<1>3. \A x \in S : Sol(rank[x] + 1) \in [S -> T]
  <2> TAKE x \in S
  <2>1. Solves(S, T, rank, E, rank[x] + 1, Sol(rank[x] + 1))
    BY <1>1, <1>2
  <2> HIDE DEF Sol
  <2> QED
    BY <2>1 DEF Solves
<1>4. \A x \in S : F[x] = Sol(rank[x] + 1)[x]
  OBVIOUS
<1>5. F \in [S -> T]
  <2>1. \A x \in S : Sol(rank[x] + 1)[x] \in T
    BY <1>3
  <2> HIDE DEF Sol
  <2> QED
    BY <2>1
<1> HIDE DEF Sol, F
<1>6. ASSUME NEW x \in S PROVE F[x] = E[<<x, F>>]
  <2> DEFINE g == Sol(rank[x] + 1)
  <2>1. Solves(S, T, rank, E, rank[x] + 1, g)
    BY <1>1, <1>2
  <2>2. g \in [S -> T] /\ g[x] = E[<<x, g>>]
    BY <1>2, <2>1 DEF Solves
  <2>3. ASSUME NEW y \in S, rank[y] < rank[x] PROVE F[y] = g[y]
    <3>1. /\ rank[y] + 1 \in Nat /\ rank[x] + 1 \in Nat
          /\ rank[y] + 1 <= rank[x] + 1 /\ rank[y] < rank[y] + 1
      BY <1>2, <2>3
    <3>2. Solves(S, T, rank, E, rank[y] + 1, Sol(rank[y] + 1))
      BY <1>1, <3>1
    <3> HIDE DEF g
    <3>3. Sol(rank[y] + 1)[y] = g[y]
      BY <2>1, <3>1, <3>2, SolveOne
    <3> QED
      BY <1>4, <3>3
  <2>4. F[x] = g[x]
    BY <1>4
  <2> HIDE DEF g
  <2>5. E[<<x, F>>] = E[<<x, g>>]
    BY <1>5, <2>2, <2>3 DEF Local
  <2> QED
    BY <2>2, <2>4, <2>5
<1> QED
  BY <1>5, <1>6 DEF Solution
----------------------------------------------------------------------------
(* The kinds of values and terms *)

ValueKinds == {"num", "bool", "str", "null", "arr", "obj"}
TermKinds == {"int", "atom", "bin", "slice", "map"}
Names == STRING \union {Length}
Metrics == [path : Seq(Names), n : Int]

(* A value is of one kind. *)
LEMMA ValueKind ==
  ASSUME NEW v \in Values
  PROVE  /\ \E kind \in ValueKinds : Is(kind, v)
         /\ \A a, b : Is(a, v) /\ Is(b, v) => a = b
<1>1. PICK kind \in ValueKinds : DOMAIN v = {kind}
  BY ValuesAssumption DEF ValueKinds
<1> QED
  BY <1>1 DEF Is

(* So is a term. *)
LEMMA TermKind ==
  ASSUME NEW t \in Terms
  PROVE  /\ \E kind \in TermKinds : Is(kind, t)
         /\ \A a, b : Is(a, t) /\ Is(b, t) => a = b
<1>1. PICK kind \in TermKinds : DOMAIN t = {kind}
  BY TermsAssumption DEF TermKinds
<1> QED
  BY <1>1 DEF Is

(* A sequence of one. *)
LEMMA SeqOfOne == ASSUME NEW S, NEW x \in S PROVE <<x>> \in Seq(S)
OBVIOUS

(* Metrics stay metrics below a name. *)
LEMMA UnderMetrics ==
  ASSUME NEW k \in Names, NEW ms \in SUBSET Metrics
  PROVE  Under(k, ms) \in SUBSET Metrics
<1>1. ASSUME NEW m \in ms PROVE Metric(<<k>> \o m.path, m.n) \in Metrics
  <2>1. m.path \in Seq(Names) /\ m.n \in Int
    BY DEF Metrics
  <2>2. <<k>> \in Seq(Names)
    BY SeqOfOne
  <2>3. <<k>> \o m.path \in Seq(Names)
    BY <2>1, <2>2
  <2> QED
    BY <2>1, <2>3 DEF Metric, Metrics
<1> QED
  BY <1>1 DEF Under

(* What addFields makes of the field k that holds w, by f of the objects   *)
(* in it. *)
Fields(f, k, w) ==
  IF Is("num", w) THEN {Metric(<<k>>, w.num)}
  ELSE IF Is("arr", w) THEN {Metric(<<k, Length>>, Len(w.arr))}
  ELSE IF Is("obj", w) THEN Under(k, f[w])
  ELSE IF Is("bool", w) THEN {Metric(<<k>>, BoolNumber(w.bool))}
  ELSE {}

(* The alternatives, one by one. *)
LEMMA FieldsBy ==
  ASSUME NEW f, NEW k, NEW w \in Values
  PROVE  /\ Is("num", w)  => Fields(f, k, w) = {Metric(<<k>>, w.num)}
         /\ Is("arr", w)  => Fields(f, k, w) = {Metric(<<k, Length>>, Len(w.arr))}
         /\ Is("obj", w)  => Fields(f, k, w) = Under(k, f[w])
         /\ Is("bool", w) => Fields(f, k, w) = {Metric(<<k>>, BoolNumber(w.bool))}
         /\ Is("str", w) \/ Is("null", w) => Fields(f, k, w) = {}
BY ValueKind DEF Fields

FieldsIn(f, v) == UNION {Fields(f, k, v.obj[k]) : k \in DOMAIN v.obj}

(* An object's fields are values, less deep than it. *)
LEMMA ObjectFields ==
  ASSUME NEW v \in Objects
  PROVE  /\ v \in Values /\ Is("obj", v) /\ Depth(v) \in Nat
         /\ \A k \in DOMAIN v.obj :
              /\ k \in Names /\ v.obj[k] \in Values
              /\ Depth(v.obj[k]) < Depth(v) /\ Depth(v.obj[k]) \in Nat
<1>1. v \in Values /\ Is("obj", v)
  BY DEF Objects
<1>2. Is("obj", v) =>
        /\ DOMAIN v.obj \subseteq STRING
        /\ \A k \in DOMAIN v.obj : v.obj[k] \in Values /\ Depth(v.obj[k]) < Depth(v)
  BY <1>1, ValuesAssumption
<1>3. \A w \in Values : Depth(w) \in Nat
  BY ValuesAssumption
<1> QED
  BY <1>1, <1>2, <1>3 DEF Names

(* A field gives metrics. *)
LEMMA FieldsType ==
  ASSUME NEW f \in [Objects -> SUBSET Metrics], NEW k \in Names, NEW w \in Values
  PROVE  Fields(f, k, w) \in SUBSET Metrics
<1>1. \A n \in Int : Metric(<<k>>, n) \in Metrics
  <2>1. <<k>> \in Seq(Names)
    BY SeqOfOne
  <2> QED
    BY <2>1 DEF Metric, Metrics
<1>2. \A n \in Int : Metric(<<k, Length>>, n) \in Metrics
  <2>1. \A x, y \in Names : <<x, y>> \in Seq(Names)
    OBVIOUS
  <2>2. k \in Names /\ Length \in Names
    BY DEF Names
  <2> QED
    BY <2>1, <2>2 DEF Metric, Metrics
<1>3. CASE Is("num", w)
  <2>1. w.num \in Int
    BY <1>3, ValuesAssumption
  <2>2. Fields(f, k, w) = {Metric(<<k>>, w.num)}
    BY <1>3 DEF Fields
  <2> QED
    BY <1>1, <2>1, <2>2
<1>4. CASE Is("arr", w)
  <2>1. w.arr \in Seq(Values)
    BY <1>4, ValuesAssumption
  <2>2. Len(w.arr) \in Int
    BY <2>1
  <2>3. Fields(f, k, w) = {Metric(<<k, Length>>, Len(w.arr))}
    BY <1>4, ValueKind DEF Fields
  <2> QED
    BY <1>2, <2>2, <2>3
<1>5. CASE Is("obj", w)
  <2>1. f[w] \in SUBSET Metrics
    BY <1>5 DEF Objects
  <2>2. Fields(f, k, w) = Under(k, f[w])
    BY <1>5, FieldsBy
  <2> QED
    BY <2>1, <2>2, UnderMetrics
<1>6. CASE Is("bool", w)
  <2>1. BoolNumber(w.bool) \in Int
    BY DEF BoolNumber
  <2>2. Fields(f, k, w) = {Metric(<<k>>, BoolNumber(w.bool))}
    BY <1>6, ValueKind DEF Fields
  <2> QED
    BY <1>1, <2>1, <2>2
<1>7. CASE Is("str", w) \/ Is("null", w)
  BY <1>7, FieldsBy
<1> QED
  BY <1>3, <1>4, <1>5, <1>6, <1>7, ValueKind DEF ValueKinds

(* What addFields gives: the fields of the object and, below their names,  *)
(* those of the objects in it. *)
LEMMA AddFields ==
  \A v \in Objects : addFields[v] = FieldsIn(addFields, v)
<1> DEFINE T == SUBSET Metrics
           rank == [v \in Objects |-> Depth(v)]
           E == [p \in Objects \X [Objects -> T] |-> FieldsIn(p[2], p[1])]
<1>1. \A v \in Objects : \A f \in [Objects -> T] : E[<<v, f>>] = FieldsIn(f, v)
  OBVIOUS
<1>2. Local(Objects, T, rank, E)
  <2>1. \A v \in Objects : rank[v] \in Nat /\ rank[v] = Depth(v)
    BY ObjectFields
  <2>2. ASSUME NEW v \in Objects, NEW f \in [Objects -> T] PROVE E[<<v, f>>] \in T
    <3>1. \A k \in DOMAIN v.obj : Fields(f, k, v.obj[k]) \in SUBSET Metrics
      BY ObjectFields, FieldsType
    <3>2. FieldsIn(f, v) \in T
      BY <3>1 DEF FieldsIn
    <3> QED
      BY <1>1, <3>2
  <2>3. ASSUME NEW v \in Objects, NEW f \in [Objects -> T], NEW g \in [Objects -> T],
               \A w \in Objects : rank[w] < rank[v] => f[w] = g[w]
        PROVE  E[<<v, f>>] = E[<<v, g>>]
    <3> HIDE DEF rank, E, T
    <3>1. ASSUME NEW k \in DOMAIN v.obj PROVE Fields(f, k, v.obj[k]) = Fields(g, k, v.obj[k])
      <4>1. v.obj[k] \in Values /\ Depth(v.obj[k]) < Depth(v)
        BY ObjectFields
      <4>2. Is("obj", v.obj[k]) => f[v.obj[k]] = g[v.obj[k]]
        BY <2>1, <2>3, <4>1 DEF Objects
      <4> QED
        BY <4>2 DEF Fields
    <3>2. FieldsIn(f, v) = FieldsIn(g, v)
      BY <3>1 DEF FieldsIn
    <3> QED
      BY <1>1, <3>2
  <2> HIDE DEF rank, E, T
  <2> QED
    BY <2>1, <2>2, <2>3 DEF Local
<1>3. {} \in T
  OBVIOUS
<1>4. PICK f : Solution(Objects, T, E, f)
  <2> HIDE DEF rank, E, T
  <2> QED
    BY <1>2, <1>3, Recursion
<1>5. f = [v \in Objects |-> FieldsIn(f, v)]
  <2> HIDE DEF E, T
  <2> QED
    BY <1>1, <1>4 DEF Solution
<1>6. addFields = CHOOSE g : g = [v \in Objects |-> FieldsIn(g, v)]
  BY DEF addFields, FieldsIn, Fields
<1>7. addFields = [v \in Objects |-> FieldsIn(addFields, v)]
  BY <1>5, <1>6
<1> QED
  BY <1>7
----------------------------------------------------------------------------
(* What the functions on terms give *)

(* Terms in a slice, and in a map, are less deep than it. *)
LEMMA TermParts ==
  ASSUME NEW t \in Terms
  PROVE  /\ Depth(t) \in Nat
         /\ Is("slice", t) =>
              t.slice \in Seq(Terms) /\ \A i \in DOMAIN t.slice :
                t.slice[i] \in Terms /\ Depth(t.slice[i]) \in Nat /\ Depth(t.slice[i]) < Depth(t)
         /\ Is("map", t) => \A k \in DOMAIN t.map :
                /\ k \in Names /\ t.map[k] \in Terms
                /\ Depth(t.map[k]) \in Nat /\ Depth(t.map[k]) < Depth(t)
<1>1. \A u \in Terms : Depth(u) \in Nat
  BY TermsAssumption
<1>2. ASSUME Is("slice", t)
      PROVE  t.slice \in Seq(Terms) /\ \A i \in DOMAIN t.slice : Depth(t.slice[i]) < Depth(t)
  BY <1>2, TermsAssumption
<1>3. ASSUME Is("slice", t), NEW i \in DOMAIN t.slice
      PROVE  t.slice[i] \in Terms
  BY <1>2, <1>3
<1>4. ASSUME Is("map", t), NEW k \in DOMAIN t.map
      PROVE  k \in Names /\ t.map[k] \in Terms /\ Depth(t.map[k]) < Depth(t)
  BY <1>4, TermsAssumption DEF Names
<1> QED
  BY <1>1, <1>2, <1>3, <1>4

(* So are the key and the value of a pair. *)
LEMMA KeyedParts ==
  ASSUME NEW t \in Terms, Keyed(t)
  PROVE  /\ t.slice[1] \in Terms /\ Is("atom", t.slice[1]) /\ t.slice[1].atom \in Names
         /\ t.slice[2] \in Terms /\ Depth(t.slice[2]) \in Nat /\ Depth(t.slice[2]) < Depth(t)
<1>1. Is("slice", t) /\ Len(t.slice) = 2 /\ Is("atom", t.slice[1])
  BY DEF Keyed
<1>2. t.slice \in Seq(Terms)
  BY <1>1, TermParts
<1>3. 1 \in DOMAIN t.slice /\ 2 \in DOMAIN t.slice
  BY <1>1, <1>2
<1>4. /\ t.slice[1] \in Terms
      /\ t.slice[2] \in Terms /\ Depth(t.slice[2]) \in Nat /\ Depth(t.slice[2]) < Depth(t)
  BY <1>1, <1>3, TermParts
<1>5. t.slice[1].atom \in STRING
  BY <1>1, <1>4, TermsAssumption
<1> QED
  BY <1>1, <1>4, <1>5 DEF Names

(* Stripping goes on below the tag. *)
LEMMA StrippedAt ==
  \A t \in Terms : Stripped[t] = IF Struct(t) THEN Stripped[t.slice[2]] ELSE t
<1> DEFINE rank == [t \in Terms |-> Depth(t)]
           Strip(f, t) == IF Struct(t) THEN f[t.slice[2]] ELSE t
           E == [p \in Terms \X [Terms -> Terms] |-> Strip(p[2], p[1])]
<1>1. \A t \in Terms : \A f \in [Terms -> Terms] : E[<<t, f>>] = Strip(f, t)
  OBVIOUS
<1>2. \A t \in Terms : rank[t] \in Nat /\ rank[t] = Depth(t)
  BY TermParts
<1>3. \A t \in Terms : Struct(t) => t.slice[2] \in Terms /\ Depth(t.slice[2]) < Depth(t)
  BY KeyedParts DEF Struct
<1>4. Local(Terms, Terms, rank, E)
  <2>1. \A t \in Terms : \A f \in [Terms -> Terms] : E[<<t, f>>] \in Terms
    BY <1>1, <1>3
  <2>2. ASSUME NEW t \in Terms, NEW f \in [Terms -> Terms], NEW g \in [Terms -> Terms],
               \A u \in Terms : rank[u] < rank[t] => f[u] = g[u]
        PROVE  E[<<t, f>>] = E[<<t, g>>]
    <3> HIDE DEF E, rank
    <3>1. Strip(f, t) = Strip(g, t)
      BY <1>2, <1>3, <2>2
    <3> QED
      BY <1>1, <3>1
  <2> HIDE DEF rank, E
  <2> QED
    BY <1>2, <2>1, <2>2 DEF Local
<1>5. \E f : f = [t \in Terms |-> Strip(f, t)]
  <2>1. CASE Terms = {}
    <3>1. [t \in Terms |-> t] = [t \in Terms |-> Strip([u \in Terms |-> u], t)]
      BY <2>1
    <3> QED
      BY <3>1
  <2>2. ASSUME NEW t0 \in Terms PROVE \E f : f = [t \in Terms |-> Strip(f, t)]
    <3>1. PICK f : Solution(Terms, Terms, E, f)
      <4> HIDE DEF rank, E
      <4> QED
        BY <1>4, Recursion
    <3>2. f = [t \in Terms |-> Strip(f, t)]
      <4> HIDE DEF E, Strip
      <4> QED
        BY <1>1, <3>1 DEF Solution
    <3> QED
      BY <3>2
  <2> QED
    BY <2>1, <2>2
<1>6. Stripped = CHOOSE g : g = [t \in Terms |-> Strip(g, t)]
  BY DEF Stripped
<1>7. Stripped = [t \in Terms |-> Strip(Stripped, t)]
  BY <1>5, <1>6
<1> QED
  BY <1>7

(* What is left is a term and no deeper. *)
LEMMA StrippedType ==
  \A t \in Terms : Stripped[t] \in Terms /\ Depth(Stripped[t]) <= Depth(t)
<1> DEFINE rank == [t \in Terms |-> Depth(t)]
           G == {t \in Terms : Stripped[t] \in Terms /\ Depth(Stripped[t]) <= Depth(t)}
<1>1. \A t \in Terms : rank[t] \in Nat /\ rank[t] = Depth(t)
  BY TermParts
<1>2. ASSUME NEW t \in Terms, \A u \in Terms : rank[u] < rank[t] => u \in G PROVE t \in G
  <2>1. CASE Struct(t)
    <3>1. t.slice[2] \in Terms /\ Depth(t.slice[2]) < Depth(t)
      BY <2>1, KeyedParts DEF Struct
    <3>2. t.slice[2] \in G
      BY <1>1, <1>2, <3>1
    <3>3. Stripped[t] = Stripped[t.slice[2]]
      BY <2>1, StrippedAt
    <3>4. Depth(t) \in Nat /\ Depth(t.slice[2]) \in Nat /\ Depth(Stripped[t]) \in Nat
      BY <3>1, <3>2, <3>3, TermParts
    <3>5. Stripped[t] \in Terms /\ Depth(Stripped[t]) <= Depth(t.slice[2])
      BY <3>2, <3>3
    <3> QED
      BY <3>1, <3>4, <3>5
  <2>2. CASE ~Struct(t)
    <3>1. Stripped[t] = t
      BY <2>2, StrippedAt
    <3> QED
      BY <3>1, TermParts
  <2> QED
    BY <2>1, <2>2
<1>3. \A t \in Terms : t \in G
  <2> HIDE DEF G, rank
  <2> QED
    BY <1>1, <1>2, RankInduction
<1> QED
  BY <1>3
(* The keys and values of a term: values are terms, less deep than it. *)
LEMMA KVParts ==
  ASSUME NEW t \in Terms, NEW kv \in KV(t)
  PROVE  /\ kv[1] \in Names
         /\ kv[2] \in Terms /\ Depth(kv[2]) \in Nat /\ Depth(kv[2]) < Depth(t)
<1>1. CASE Is("map", t)
  <2>1. PICK k \in DOMAIN t.map : kv = <<k, t.map[k]>>
    BY <1>1 DEF KV
  <2>2. k \in Names /\ t.map[k] \in Terms /\ Depth(t.map[k]) \in Nat /\ Depth(t.map[k]) < Depth(t)
    BY <1>1, TermParts
  <2> QED
    BY <2>1, <2>2
<1>2. CASE ~Is("map", t)
  <2>1. IsProplist(t) /\ KV(t) = {<<q.slice[1].atom, q.slice[2]>> : q \in PairsOf(t)}
    BY <1>2 DEF KV
  <2>2. PICK q \in PairsOf(t) : kv = <<q.slice[1].atom, q.slice[2]>>
    BY <2>1
  <2> DEFINE list == Stripped[t]
  <2>3. list \in Terms /\ Depth(list) <= Depth(t) /\ Is("slice", list)
    BY <2>1, StrippedType DEF IsProplist
  <2>4. Keyed(q) /\ q \in Range(list.slice)
    BY DEF PairsOf
  <2> HIDE DEF list
  <2>5. PICK i \in DOMAIN list.slice : q = list.slice[i]
    BY <2>4 DEF Range
  <2>6. q \in Terms /\ Depth(q) \in Nat /\ Depth(q) < Depth(list)
    BY <2>3, <2>5, TermParts
  <2>7. /\ q.slice[1].atom \in Names
        /\ q.slice[2] \in Terms /\ Depth(q.slice[2]) \in Nat /\ Depth(q.slice[2]) < Depth(q)
    BY <2>4, <2>6, KeyedParts
  <2>8. Depth(list) \in Nat /\ Depth(t) \in Nat
    BY <2>3, TermParts
  <2>9. Depth(q.slice[2]) < Depth(t)
    BY <2>3, <2>6, <2>7, <2>8
  <2> QED
    BY <2>2, <2>7, <2>9
<1> QED
  BY <1>1, <1>2

(* What parseProplist makes of a key and its value, by f of the terms in it. *)
TermFields(f, k, u) ==
  IF Floaty(u) # {} THEN {Metric(<<k>>, n) : n \in Floaty(u)}
  ELSE {Metric(<<k, Length>>, n) : n \in ArrayLen(u)} \union Under(k, f[u])
TermFieldsIn(f, t) == UNION {TermFields(f, kv[1], kv[2]) : kv \in KV(t)}

(* Numbers are numbers. *)
LEMMA FloatyType ==
  ASSUME NEW u \in Terms
  PROVE  Floaty(u) \subseteq Int /\ ArrayLen(u) \subseteq Int
<1>1. Is("int", u) => u.int \in Int
  BY TermsAssumption
<1>2. \A b \in BOOLEAN : BoolNumber(b) \in Int
  BY DEF BoolNumber
<1>3. Floaty(u) \subseteq Int
  BY <1>1, <1>2 DEF Floaty
<1>4. ArrayLen(u) \subseteq Int
  <2>1. ASSUME Is("slice", u) PROVE Len(u.slice) \in Int
    <3>1. u.slice \in Seq(Terms)
      BY <2>1, TermParts
    <3> QED
      BY <3>1
  <2> QED
    BY <2>1 DEF ArrayLen
<1> QED
  BY <1>3, <1>4

(* A key and its value give metrics. *)
LEMMA TermFieldsType ==
  ASSUME NEW f \in [Terms -> SUBSET Metrics], NEW k \in Names, NEW u \in Terms
  PROVE  TermFields(f, k, u) \in SUBSET Metrics
<1>1. \A n \in Int : Metric(<<k>>, n) \in Metrics /\ Metric(<<k, Length>>, n) \in Metrics
  <2>1. \A x, y \in Names : <<x, y>> \in Seq(Names) /\ <<x>> \in Seq(Names)
    OBVIOUS
  <2>2. Length \in Names
    BY DEF Names
  <2> QED
    BY <2>1, <2>2 DEF Metric, Metrics
<1>2. Under(k, f[u]) \in SUBSET Metrics
  BY UnderMetrics
<1> QED
  BY <1>1, <1>2, FloatyType DEF TermFields

(* What parseProplist gives: what is under each key. *)
LEMMA ParseProplist ==
  \A t \in Terms : parseProplist[t] = TermFieldsIn(parseProplist, t)
<1> DEFINE T == SUBSET Metrics
           rank == [t \in Terms |-> Depth(t)]
           E == [p \in Terms \X [Terms -> T] |-> TermFieldsIn(p[2], p[1])]
<1>1. \A t \in Terms : \A f \in [Terms -> T] : E[<<t, f>>] = TermFieldsIn(f, t)
  OBVIOUS
<1>2. Local(Terms, T, rank, E)
  <2>1. \A t \in Terms : rank[t] \in Nat /\ rank[t] = Depth(t)
    BY TermParts
  <2>2. ASSUME NEW t \in Terms, NEW f \in [Terms -> T] PROVE E[<<t, f>>] \in T
    <3>1. \A kv \in KV(t) : TermFields(f, kv[1], kv[2]) \in SUBSET Metrics
      BY KVParts, TermFieldsType
    <3>2. TermFieldsIn(f, t) \in T
      BY <3>1 DEF TermFieldsIn
    <3> QED
      BY <1>1, <3>2
  <2>3. ASSUME NEW t \in Terms, NEW f \in [Terms -> T], NEW g \in [Terms -> T],
               \A u \in Terms : rank[u] < rank[t] => f[u] = g[u]
        PROVE  E[<<t, f>>] = E[<<t, g>>]
    <3> HIDE DEF rank, E, T
    <3>1. ASSUME NEW kv \in KV(t) PROVE TermFields(f, kv[1], kv[2]) = TermFields(g, kv[1], kv[2])
      <4>1. kv[2] \in Terms /\ Depth(kv[2]) < Depth(t)
        BY KVParts
      <4>2. f[kv[2]] = g[kv[2]]
        BY <2>1, <2>3, <4>1
      <4> QED
        BY <4>2 DEF TermFields
    <3>2. TermFieldsIn(f, t) = TermFieldsIn(g, t)
      BY <3>1 DEF TermFieldsIn
    <3> QED
      BY <1>1, <3>2
  <2> HIDE DEF rank, E, T
  <2> QED
    BY <2>1, <2>2, <2>3 DEF Local
<1>3. {} \in T
  OBVIOUS
<1>4. PICK f : Solution(Terms, T, E, f)
  <2> HIDE DEF rank, E, T
  <2> QED
    BY <1>2, <1>3, Recursion
<1>5. f = [t \in Terms |-> TermFieldsIn(f, t)]
  <2> HIDE DEF E, T
  <2> QED
    BY <1>1, <1>4 DEF Solution
<1>6. parseProplist = CHOOSE g : g = [t \in Terms |-> TermFieldsIn(g, t)]
  BY DEF parseProplist, TermFieldsIn, TermFields
<1>7. parseProplist = [t \in Terms |-> TermFieldsIn(parseProplist, t)]
  BY <1>5, <1>6
<1> QED
  BY <1>7

(* A value, with what f gives of its fields if it is an object. *)
Holds(f, v) ==
  {v} \union (IF Is("obj", v) THEN UNION {f[v.obj[k]] : k \in DOMAIN v.obj} ELSE {})

(* What Within gives. *)
LEMMA WithinAt ==
  \A v \in Values : Within[v] = Holds(Within, v)
<1> DEFINE T == SUBSET Values
           rank == [v \in Values |-> Depth(v)]
           E == [p \in Values \X [Values -> T] |-> Holds(p[2], p[1])]
<1>1. \A v \in Values : \A f \in [Values -> T] : E[<<v, f>>] = Holds(f, v)
  OBVIOUS
<1>2. Local(Values, T, rank, E)
  <2>1. \A v \in Values : rank[v] \in Nat /\ rank[v] = Depth(v)
    BY ValuesAssumption
  <2>2. ASSUME NEW v \in Values, Is("obj", v), NEW k \in DOMAIN v.obj
        PROVE  v.obj[k] \in Values /\ Depth(v.obj[k]) < Depth(v)
    BY <2>2, ObjectFields DEF Objects
  <2>3. ASSUME NEW v \in Values, NEW f \in [Values -> T] PROVE E[<<v, f>>] \in T
    <3>1. Holds(f, v) \in T
      BY <2>2 DEF Holds
    <3> QED
      BY <1>1, <3>1
  <2>4. ASSUME NEW v \in Values, NEW f \in [Values -> T], NEW g \in [Values -> T],
               \A w \in Values : rank[w] < rank[v] => f[w] = g[w]
        PROVE  E[<<v, f>>] = E[<<v, g>>]
    <3> HIDE DEF rank, E, T
    <3>1. ASSUME Is("obj", v), NEW k \in DOMAIN v.obj PROVE f[v.obj[k]] = g[v.obj[k]]
      BY <2>1, <2>2, <2>4, <3>1
    <3>2. Holds(f, v) = Holds(g, v)
      BY <3>1 DEF Holds
    <3> QED
      BY <1>1, <3>2
  <2> HIDE DEF rank, E, T
  <2> QED
    BY <2>1, <2>3, <2>4 DEF Local
<1>3. {} \in T
  OBVIOUS
<1>4. PICK f : Solution(Values, T, E, f)
  <2> HIDE DEF rank, E, T
  <2> QED
    BY <1>2, <1>3, Recursion
<1>5. f = [v \in Values |-> Holds(f, v)]
  <2> HIDE DEF E, T
  <2> QED
    BY <1>1, <1>4 DEF Solution
<1>6. Within = CHOOSE g : g = [v \in Values |-> Holds(g, v)]
  BY DEF Within, Holds
<1>7. Within = [v \in Values |-> Holds(Within, v)]
  BY <1>5, <1>6
<1> QED
  BY <1>7
----------------------------------------------------------------------------
(* What the parsers see of an encoding *)

(* Of what kind the record with one field is. *)
LEMMA KindOf ==
  ASSUME NEW x
  PROVE  /\ \A kind : Is(kind, [int |-> x]) <=> kind = "int"
         /\ \A kind : Is(kind, [atom |-> x]) <=> kind = "atom"
         /\ \A kind : Is(kind, [bin |-> x]) <=> kind = "bin"
         /\ \A kind : Is(kind, [slice |-> x]) <=> kind = "slice"
         /\ \A kind : Is(kind, [map |-> x]) <=> kind = "map"
         /\ [atom |-> x].atom = x
BY DEF Is

(* A pair looks like one, and as nothing else. *)
LEMMA PairKeyed ==
  ASSUME NEW k, NEW t
  PROVE  /\ Keyed(Pair(k, t)) /\ ~Is("atom", Pair(k, t))
         /\ Pair(k, t).slice[1].atom = k /\ Pair(k, t).slice[2] = t
<1>1. Pair(k, t).slice = <<[atom |-> k], t>>
  BY DEF Pair
<1>2. Is("slice", Pair(k, t)) /\ ~Is("atom", Pair(k, t)) /\ Is("atom", [atom |-> k])
  BY DEF Pair, Is
<1> QED
  BY <1>1, <1>2 DEF Keyed

(* A list of pairs is not stripped, is a list of pairs, and all are taken. *)
LEMMA PairsList ==
  ASSUME NEW s \in Styles, NEW v \in Objects, NEW t \in Terms, PairsFor(s, v, t)
  PROVE  /\ Stripped[t] = t /\ Is("slice", t)
         /\ t.slice = <<>> \/ Keyed(t.slice[1])
         /\ PairsOf(t) = {Pair(k, Encode(s, v.obj[k])) : k \in DOMAIN v.obj}
         /\ DOMAIN v.obj # {} => t.slice # <<>>
<1>1. Is("slice", t) /\ Range(t.slice) = {Pair(k, Encode(s, v.obj[k])) : k \in DOMAIN v.obj}
  BY DEF PairsFor
<1>2. t.slice \in Seq(Terms)
  BY <1>1, TermParts
<1>3. \A i \in DOMAIN t.slice : \E k \in DOMAIN v.obj : t.slice[i] = Pair(k, Encode(s, v.obj[k]))
  BY <1>1 DEF Range
<1>4. \A i \in DOMAIN t.slice : Keyed(t.slice[i]) /\ ~Is("atom", t.slice[i])
  BY <1>3, PairKeyed
<1>5. t.slice = <<>> \/ 1 \in DOMAIN t.slice
  BY <1>2
<1>6. ~Struct(t)
  <2> SUFFICES ASSUME Struct(t) PROVE FALSE
    OBVIOUS
  <2>1. Len(t.slice) = 2 /\ Is("atom", t.slice[1])
    BY DEF Struct, Keyed
  <2>2. 1 \in DOMAIN t.slice
    BY <1>2, <2>1
  <2> QED
    BY <1>4, <2>1, <2>2
<1>7. Stripped[t] = t
  BY <1>6, StrippedAt
<1>8. PairsOf(t) = Range(t.slice)
  <2>1. \A q \in Range(t.slice) : Keyed(q)
    BY <1>4 DEF Range
  <2> QED
    BY <1>7, <2>1 DEF PairsOf
<1>9. ASSUME DOMAIN v.obj # {} PROVE t.slice # <<>>
  <2>1. Range(t.slice) # {}
    BY <1>1, <1>9
  <2>2. DOMAIN t.slice # {}
    BY <2>1 DEF Range
  <2> QED
    BY <2>2
<1> QED
  BY <1>1, <1>4, <1>5, <1>7, <1>8, <1>9

(* However an object is written, it has its fields as keys and values, and *)
(* is neither a number nor an array. *)
LEMMA ObjectEncoded ==
  ASSUME NEW s \in Styles, NEW v \in Objects
  PROVE  /\ IsKV(Encode(s, v))
         /\ KV(Encode(s, v)) = {<<k, Encode(s, v.obj[k])>> : k \in DOMAIN v.obj}
         /\ Floaty(Encode(s, v)) = {} /\ ArrayLen(Encode(s, v)) = {}
<1> DEFINE Fs == {<<k, Encode(s, v.obj[k])>> : k \in DOMAIN v.obj}
           Ps == {Pair(k, Encode(s, v.obj[k])) : k \in DOMAIN v.obj}
<1>1. v \in Values /\ Is("obj", v)
  BY ObjectFields
<1> DEFINE t == Encode(s, v)
<1>2. t \in Terms /\ Writes(s, v, t)
  BY <1>1, EncodeAssumption
<1> HIDE DEF t
<1>3. {<<q.slice[1].atom, q.slice[2]>> : q \in Ps} = Fs
  BY PairKeyed
<1>4. CASE t = [map |-> [k \in DOMAIN v.obj |-> Encode(s, v.obj[k])]]
  <2>1. /\ Is("map", t) /\ ~Is("int", t) /\ ~Is("atom", t) /\ ~Is("slice", t)
        /\ t.map = [k \in DOMAIN v.obj |-> Encode(s, v.obj[k])]
    BY <1>4, KindOf
  <2>2. KV(t) = {<<k, t.map[k]>> : k \in DOMAIN t.map}
    BY <2>1 DEF KV
  <2>3. KV(t) = Fs
    BY <2>1, <2>2
  <2> QED
    BY <2>1, <2>3 DEF t, IsKV, Floaty, ArrayLen
<1>5. CASE Is("slice", t) /\ IsProplist(t) /\ PairsOf(t) = Ps /\ t.slice # <<>>
  <2>1. ~Is("int", t) /\ ~Is("atom", t) /\ ~Is("map", t)
    BY <1>2, <1>5, TermKind
  <2>2. KV(t) = Fs
    BY <1>3, <1>5, <2>1 DEF KV
  <2>3. ArrayLen(t) = {}
    BY <1>5 DEF ArrayLen
  <2> QED
    BY <1>5, <2>1, <2>2, <2>3 DEF t, IsKV, Floaty
<1>6. CASE PairsFor(s, v, t) /\ DOMAIN v.obj # {}
  <2>1. /\ Stripped[t] = t /\ Is("slice", t) /\ (t.slice = <<>> \/ Keyed(t.slice[1]))
        /\ PairsOf(t) = Ps /\ t.slice # <<>>
    BY <1>2, <1>6, PairsList
  <2>2. IsProplist(t)
    BY <2>1 DEF IsProplist
  <2> QED
    BY <1>5, <2>1, <2>2
<1>7. CASE /\ Is("slice", t) /\ Len(t.slice) = 2
           /\ t.slice[1] = [atom |-> "struct"] /\ PairsFor(s, v, t.slice[2])
  <2> DEFINE u == t.slice[2]
  <2>1. Struct(t)
    <3>1. Is("atom", [atom |-> "struct"]) /\ [atom |-> "struct"].atom = "struct"
      BY KindOf
    <3> QED
      BY <1>7, <3>1 DEF Struct, Keyed
  <2>2. u \in Terms
    BY <1>2, <2>1, KeyedParts DEF Struct
  <2>3. /\ Stripped[u] = u /\ Is("slice", u) /\ (u.slice = <<>> \/ Keyed(u.slice[1]))
        /\ PairsOf(u) = Ps
    BY <1>7, <2>2, PairsList
  <2>4. Stripped[t] = u
    BY <1>2, <2>1, <2>3, StrippedAt
  <2> HIDE DEF u
  <2>5. IsProplist(t) /\ PairsOf(t) = Ps
    BY <2>3, <2>4 DEF IsProplist, PairsOf
  <2>6. t.slice # <<>>
    BY <1>7
  <2> QED
    BY <1>5, <1>7, <2>5, <2>6
<1> QED
  BY <1>1, <1>2, <1>4, <1>6, <1>7 DEF Writes
(* What has no keys has no metrics. *)
LEMMA NoKeys ==
  ASSUME NEW t \in Terms, KV(t) = {}
  PROVE  parseProplist[t] = {}
BY ParseProplist DEF TermFieldsIn

(* Nothing is under a name if there is nothing. *)
LEMMA UnderNothing == ASSUME NEW k PROVE Under(k, {}) = {}
BY DEF Under

(* null is no boolean. *)
LEMMA NullText == NoString # "true" /\ NoString # "false"
BY Zenon DEF NoString

(* A boolean is the number of its text. *)
LEMMA BoolFloaty ==
  ASSUME NEW b \in BOOLEAN
  PROVE  Floaty([atom |-> BoolText(b)]) = {BoolNumber(b)}
<1>1. Is("atom", [atom |-> BoolText(b)]) /\ ~Is("int", [atom |-> BoolText(b)])
      /\ [atom |-> BoolText(b)].atom = BoolText(b)
  BY KindOf
<1>2. Floaty([atom |-> BoolText(b)])
        = {BoolNumber(c) : c \in {d \in BOOLEAN : BoolText(b) = BoolText(d)}}
  BY <1>1 DEF Floaty
<1>3. {d \in BOOLEAN : BoolText(b) = BoolText(d)} = {b}
  <2>1. \A c, d \in BOOLEAN : BoolText(c) = BoolText(d) => c = d
    BY DEF BoolText
  <2> QED
    BY <2>1
<1> QED
  BY <1>2, <1>3

(* A text, or null, is no number. *)
LEMMA TextFloaty ==
  ASSUME NEW x, x \notin {"true", "false"}
  PROVE  Floaty([atom |-> x]) = {}
<1>1. Is("atom", [atom |-> x]) /\ ~Is("int", [atom |-> x]) /\ [atom |-> x].atom = x
  BY KindOf
<1>2. \A b \in BOOLEAN : x # BoolText(b)
  BY DEF BoolText
<1> QED
  BY <1>1, <1>2 DEF Floaty

(* Numbers, booleans, texts and null have no keys and no length, and are   *)
(* the number that they are. *)
LEMMA ScalarEncoded ==
  ASSUME NEW s \in Styles, NEW w \in Values, ~Is("arr", w), ~Is("obj", w)
  PROVE  /\ KV(Encode(s, w)) = {} /\ ArrayLen(Encode(s, w)) = {}
         /\ Is("num", w) => Floaty(Encode(s, w)) = {w.num}
         /\ Is("bool", w) => Floaty(Encode(s, w)) = {BoolNumber(w.bool)}
         /\ Is("str", w) \/ Is("null", w) => Floaty(Encode(s, w)) = {}
<1> DEFINE t == Encode(s, w)
<1>1. t \in Terms /\ Writes(s, w, t)
  BY EncodeAssumption
<1>2. Is("num", w) \/ Is("bool", w) \/ Is("str", w) \/ Is("null", w)
  BY ValueKind DEF ValueKinds
<1> HIDE DEF t
<1>3. CASE Is("num", w)
  <2>1. t = [int |-> w.num]
    BY <1>1, <1>3 DEF Writes
  <2>2. Is("int", t) /\ ~Is("slice", t) /\ ~Is("map", t) /\ t.int = w.num
    BY <2>1, KindOf
  <2>3. ~Is("bool", w) /\ ~Is("str", w) /\ ~Is("null", w)
    BY <1>3, ValueKind
  <2>4. ~Struct(t)
    BY <2>2 DEF Struct, Keyed
  <2>5. ~IsProplist(t)
    BY <1>1, <2>2, <2>4, StrippedAt DEF IsProplist
  <2> QED
    BY <1>3, <2>2, <2>3, <2>5 DEF t, KV, ArrayLen, Floaty
<1>4. CASE ~Is("num", w)
  <2>1. \/ \E x : t = [atom |-> x]
        \/ \E x : t = [bin |-> x]
    BY <1>1, <1>2, <1>4 DEF Writes
  <2>2. ~Is("slice", t) /\ ~Is("map", t) /\ ~Is("int", t)
    <3>1. ASSUME NEW x, t = [atom |-> x] PROVE ~Is("slice", t) /\ ~Is("map", t) /\ ~Is("int", t)
      BY <3>1, KindOf
    <3>2. ASSUME NEW x, t = [bin |-> x] PROVE ~Is("slice", t) /\ ~Is("map", t) /\ ~Is("int", t)
      BY <3>2, KindOf
    <3> QED
      BY <2>1, <3>1, <3>2
  <2>3. ~Struct(t)
    BY <2>2 DEF Struct, Keyed
  <2>4. ~IsProplist(t)
    BY <1>1, <2>2, <2>3, StrippedAt DEF IsProplist
  <2>5. KV(t) = {} /\ ArrayLen(t) = {}
    BY <2>2, <2>4 DEF KV, ArrayLen
  <2>6. ASSUME Is("bool", w) PROVE Floaty(t) = {BoolNumber(w.bool)}
    <3>1. w.bool \in BOOLEAN
      BY <2>6, ValuesAssumption
    <3>2. t = [atom |-> BoolText(w.bool)]
      BY <1>1, <2>6 DEF Writes
    <3> QED
      BY <3>1, <3>2, BoolFloaty
  <2>7. ASSUME Is("null", w) PROVE Floaty(t) = {}
    <3>1. t = [atom |-> NoString]
      BY <1>1, <2>7 DEF Writes
    <3> QED
      BY <3>1, NullText, TextFloaty
  <2>8. ASSUME Is("str", w) PROVE Floaty(t) = {}
    <3>1. t = [bin |-> w.str] \/ (t = [atom |-> w.str] /\ w.str \notin {"true", "false"})
      BY <1>1, <2>8 DEF Writes
    <3>2. CASE t = [bin |-> w.str]
      <4>1. ~Is("atom", t)
        BY <3>2, KindOf
      <4> QED
        BY <2>2, <4>1 DEF Floaty
    <3>3. CASE t = [atom |-> w.str] /\ w.str \notin {"true", "false"}
      BY <3>3, TextFloaty
    <3> QED
      BY <3>1, <3>2, <3>3
  <2> QED
    BY <1>4, <2>5, <2>6, <2>7, <2>8 DEF t
<1> QED
  BY <1>3, <1>4

(* An array that is not taken for an object has a length and no keys. *)
LEMMA ArrayEncoded ==
  ASSUME NEW s \in Styles, NEW w \in Values, Is("arr", w),
         w.arr # <<>> => ~Struct(Encode(s, w)) /\ ~Keyed(Encode(s, w.arr[1]))
  PROVE  /\ KV(Encode(s, w)) = {} /\ Floaty(Encode(s, w)) = {}
         /\ ArrayLen(Encode(s, w)) = {Len(w.arr)}
<1> DEFINE t == Encode(s, w)
<1>1. t \in Terms /\ Writes(s, w, t)
  BY EncodeAssumption
<1> HIDE DEF t
<1>2. t = [slice |-> [i \in DOMAIN w.arr |-> Encode(s, w.arr[i])]]
  BY <1>1 DEF Writes
<1>3. w.arr \in Seq(Values)
  BY ValuesAssumption
<1>4. Is("slice", t) /\ ~Is("map", t) /\ ~Is("int", t) /\ ~Is("atom", t)
  BY <1>2, KindOf
<1>5. t.slice = [i \in DOMAIN w.arr |-> Encode(s, w.arr[i])] /\ t.slice \in Seq(Terms)
  BY <1>1, <1>2, <1>4, TermParts
<1>6. Len(t.slice) = Len(w.arr) /\ (t.slice = <<>> <=> w.arr = <<>>)
  <2>1. DOMAIN t.slice = DOMAIN w.arr
    BY <1>5
  <2> QED
    BY <1>3, <1>5, <2>1
<1>7. Floaty(t) = {}
  BY <1>4 DEF Floaty
<1>8. ~Struct(t)
  <2>1. ASSUME w.arr = <<>> PROVE ~Struct(t)
    BY <1>5, <1>6, <2>1 DEF Struct, Keyed
  <2> QED
    BY <2>1 DEF t
<1>9. Stripped[t] = t
  BY <1>1, <1>8, StrippedAt
<1>10. CASE w.arr = <<>>
  <2>1. t.slice = <<>>
    BY <1>6, <1>10
  <2>2. PairsOf(t) = {}
    BY <1>9, <2>1 DEF PairsOf, Range
  <2>3. KV(t) = {}
    BY <1>4, <2>2 DEF KV
  <2>4. ArrayLen(t) = {Len(w.arr)}
    BY <1>4, <1>6, <2>1 DEF ArrayLen
  <2> QED
    BY <1>7, <2>3, <2>4 DEF t
<1>11. CASE w.arr # <<>>
  <2>1. 1 \in DOMAIN w.arr
    BY <1>3, <1>11
  <2>2. t.slice[1] = Encode(s, w.arr[1])
    BY <1>5, <2>1
  <2>3. ~IsProplist(t)
    BY <1>6, <1>9, <1>11, <2>2 DEF IsProplist
  <2>4. KV(t) = {} /\ ArrayLen(t) = {Len(w.arr)}
    BY <1>4, <1>6, <2>3 DEF KV, ArrayLen
  <2> QED
    BY <1>7, <2>4 DEF t
<1> QED
  BY <1>10, <1>11
----------------------------------------------------------------------------
(* That the parsers agree *)

(* What is in a clear object is clear. *)
LEMMA ClearParts ==
  ASSUME NEW s, NEW v \in Values, Clear(s, v)
  PROVE  /\ Is("arr", v) /\ v.arr # <<>> => ~Struct(Encode(s, v)) /\ ~Keyed(Encode(s, v.arr[1]))
         /\ Is("obj", v) => \A k \in DOMAIN v.obj : Clear(s, v.obj[k])
<1>1. Within[v] = Holds(Within, v)
  BY WithinAt
<1>2. v \in Within[v]
  BY <1>1 DEF Holds
<1>3. ASSUME Is("obj", v), NEW k \in DOMAIN v.obj PROVE Clear(s, v.obj[k])
  <2>1. Within[v.obj[k]] \subseteq Within[v]
    BY <1>1, <1>3 DEF Holds
  <2> QED
    BY <2>1 DEF Clear
<1> QED
  BY <1>2, <1>3 DEF Clear

(* One field: the same metrics, if the objects in it give the same. *)
LEMMA SameField ==
  ASSUME NEW s \in Styles, NEW k, NEW w \in Values, Clear(s, w),
         Is("obj", w) => parseProplist[Encode(s, w)] = addFields[w]
  PROVE  TermFields(parseProplist, k, Encode(s, w)) = Fields(addFields, k, w)
<1> DEFINE t == Encode(s, w)
<1>1. t \in Terms
  BY EncodeAssumption
<1>2. CASE Is("obj", w)
  <2>1. w \in Objects
    BY <1>2 DEF Objects
  <2>2. Floaty(t) = {} /\ ArrayLen(t) = {} /\ parseProplist[t] = addFields[w]
    BY <1>2, <2>1, ObjectEncoded
  <2>3. Fields(addFields, k, w) = Under(k, addFields[w])
    BY <1>2, FieldsBy
  <2> HIDE DEF t
  <2> QED
    BY <2>2, <2>3 DEF TermFields, t
<1>3. CASE Is("arr", w)
  <2>1. KV(t) = {} /\ Floaty(t) = {} /\ ArrayLen(t) = {Len(w.arr)}
    BY <1>3, ClearParts, ArrayEncoded
  <2>2. Under(k, parseProplist[t]) = {}
    BY <1>1, <2>1, NoKeys, UnderNothing
  <2>3. Fields(addFields, k, w) = {Metric(<<k, Length>>, Len(w.arr))}
    BY <1>3, ValueKind DEF Fields
  <2> HIDE DEF t
  <2>4. TermFields(parseProplist, k, t) = {Metric(<<k, Length>>, Len(w.arr))}
    BY <2>1, <2>2 DEF TermFields
  <2> QED
    BY <2>3, <2>4 DEF t
<1>4. CASE ~Is("obj", w) /\ ~Is("arr", w)
  <2>1. /\ KV(t) = {} /\ ArrayLen(t) = {}
        /\ Is("num", w) => Floaty(t) = {w.num}
        /\ Is("bool", w) => Floaty(t) = {BoolNumber(w.bool)}
        /\ Is("str", w) \/ Is("null", w) => Floaty(t) = {}
    BY <1>4, ScalarEncoded
  <2>2. Under(k, parseProplist[t]) = {}
    BY <1>1, <2>1, NoKeys, UnderNothing
  <2> HIDE DEF t
  <2>3. CASE Is("num", w)
    <3>1. Fields(addFields, k, w) = {Metric(<<k>>, w.num)}
      BY <2>3, ValueKind DEF Fields
    <3>2. TermFields(parseProplist, k, t) = {Metric(<<k>>, w.num)}
      BY <2>1, <2>3 DEF TermFields
    <3> QED
      BY <3>1, <3>2 DEF t
  <2>4. CASE Is("bool", w)
    <3>1. Fields(addFields, k, w) = {Metric(<<k>>, BoolNumber(w.bool))}
      BY <2>4, FieldsBy
    <3>2. TermFields(parseProplist, k, t) = {Metric(<<k>>, BoolNumber(w.bool))}
      BY <2>1, <2>4 DEF TermFields
    <3> QED
      BY <3>1, <3>2 DEF t
  <2>5. CASE Is("str", w) \/ Is("null", w)
    <3>1. Fields(addFields, k, w) = {}
      BY <2>5, FieldsBy
    <3>2. TermFields(parseProplist, k, t) = {}
      BY <2>1, <2>2, <2>5 DEF TermFields
    <3> QED
      BY <3>1, <3>2 DEF t
  <2> QED
    BY <1>4, <2>3, <2>4, <2>5, ValueKind DEF ValueKinds
<1> QED
  BY <1>2, <1>3, <1>4

(* An object, however it is written: the same metrics, as long as no list  *)
(* in it is taken for an object.  A least deep counterexample would have a *)
(* less deep one in a field. *)
LEMMA SameFields ==
  ASSUME NEW s \in Styles
  PROVE  \A v \in Objects : Clear(s, v) => parseProplist[Encode(s, v)] = addFields[v]
<1> DEFINE rank == [v \in Objects |-> Depth(v)]
           G == {v \in Objects : Clear(s, v) => parseProplist[Encode(s, v)] = addFields[v]}
<1>1. \A v \in Objects : rank[v] \in Nat /\ rank[v] = Depth(v)
  BY ObjectFields
<1>2. ASSUME NEW v \in Objects, \A w \in Objects : rank[w] < rank[v] => w \in G PROVE v \in G
  <2> SUFFICES ASSUME Clear(s, v) PROVE parseProplist[Encode(s, v)] = addFields[v]
    OBVIOUS
  <2>1. v \in Values /\ Is("obj", v)
    BY ObjectFields
  <2>2. Encode(s, v) \in Terms
    BY <2>1, EncodeAssumption
  <2>3. ASSUME NEW k \in DOMAIN v.obj
        PROVE  TermFields(parseProplist, k, Encode(s, v.obj[k])) = Fields(addFields, k, v.obj[k])
    <3> DEFINE w == v.obj[k]
    <3>1. w \in Values /\ Depth(w) < Depth(v)
      BY ObjectFields
    <3>2. Clear(s, w)
      BY <2>1, ClearParts
    <3>3. ASSUME Is("obj", w) PROVE parseProplist[Encode(s, w)] = addFields[w]
      <4>1. w \in Objects
        BY <3>1, <3>3 DEF Objects
      <4>2. rank[w] < rank[v]
        BY <1>1, <3>1, <4>1
      <4> HIDE DEF w
      <4>3. w \in G
        BY <1>2, <4>1, <4>2
      <4> QED
        BY <3>2, <4>3
    <3> HIDE DEF w
    <3>4. TermFields(parseProplist, k, Encode(s, w)) = Fields(addFields, k, w)
      BY <3>1, <3>2, <3>3, SameField
    <3> QED
      BY <3>4 DEF w
  <2>4. parseProplist[Encode(s, v)] = TermFieldsIn(parseProplist, Encode(s, v))
    BY <2>2, ParseProplist
  <2>5. addFields[v] = FieldsIn(addFields, v)
    BY AddFields
  <2>6. ASSUME NEW k \in DOMAIN v.obj, NEW m \in Fields(addFields, k, v.obj[k])
        PROVE  m \in TermFieldsIn(parseProplist, Encode(s, v))
    <3>1. <<k, Encode(s, v.obj[k])>> \in KV(Encode(s, v))
      BY ObjectEncoded
    <3>2. m \in TermFields(parseProplist, k, Encode(s, v.obj[k]))
      BY <2>3
    <3> QED
      BY <3>1, <3>2 DEF TermFieldsIn
  <2>7. ASSUME NEW kv \in KV(Encode(s, v)), NEW m \in TermFields(parseProplist, kv[1], kv[2])
        PROVE  m \in FieldsIn(addFields, v)
    <3>1. PICK k \in DOMAIN v.obj : kv = <<k, Encode(s, v.obj[k])>>
      BY ObjectEncoded
    <3>2. m \in Fields(addFields, k, v.obj[k])
      BY <2>3, <3>1
    <3> QED
      BY <3>2 DEF FieldsIn
  <2> QED
    BY <2>4, <2>5, <2>6, <2>7 DEF FieldsIn, TermFieldsIn
<1>3. \A v \in Objects : v \in G
  <2> HIDE DEF G, rank
  <2> QED
    BY <1>1, <1>2, RankInduction
<1> QED
  BY <1>3
----------------------------------------------------------------------------
(* Texts *)

(* What a label that is text, a boolean or null says. *)
Text(w) ==
  IF Is("str", w) THEN w.str ELSE IF Is("bool", w) THEN BoolText(w.bool) ELSE NoString

(* That is what its encoding says. *)
LEMMA TextEncoded ==
  ASSUME NEW s \in Styles, NEW w \in Values, Textual(w, {"str", "bool", "null"})
  PROVE  Stringy(Encode(s, w)) = {Text(w)}
<1> DEFINE t == Encode(s, w)
<1>1. t \in Terms /\ Writes(s, w, t)
  BY EncodeAssumption
<1>2. Is("str", w) \/ Is("bool", w) \/ Is("null", w)
  BY DEF Textual
<1> HIDE DEF t
<1>3. \A x : Stringy([atom |-> x]) = {x}
  BY KindOf DEF Stringy
<1>4. \A x : Stringy([bin |-> x]) = {x}
  BY DEF Stringy, Is
<1>5. CASE Is("str", w)
  <2>1. t = [bin |-> w.str] \/ t = [atom |-> w.str]
    BY <1>1, <1>5 DEF Writes
  <2> QED
    BY <1>3, <1>4, <1>5, <2>1 DEF t, Text
<1>6. CASE Is("bool", w)
  <2>1. t = [atom |-> BoolText(w.bool)] /\ ~Is("str", w)
    BY <1>1, <1>6, ValueKind DEF Writes
  <2> QED
    BY <1>3, <1>6, <2>1 DEF t, Text
<1>7. CASE Is("null", w)
  <2>1. t = [atom |-> NoString] /\ ~Is("str", w) /\ ~Is("bool", w)
    BY <1>1, <1>7, ValueKind DEF Writes
  <2> QED
    BY <1>3, <2>1 DEF t, Text
<1> QED
  BY <1>2, <1>5, <1>6, <1>7

(* The texts found under a key are those of its value. *)
LEMMA TextsUnder ==
  ASSUME NEW s \in Styles, NEW v \in Objects, NEW l
  PROVE  UNION {Stringy(kv[2]) : kv \in {x \in KV(Encode(s, v)) : x[1] = l}}
           = IF l \in DOMAIN v.obj THEN Stringy(Encode(s, v.obj[l])) ELSE {}
<1> DEFINE Found == {x \in KV(Encode(s, v)) : x[1] = l}
<1>1. KV(Encode(s, v)) = {<<k, Encode(s, v.obj[k])>> : k \in DOMAIN v.obj}
  BY ObjectEncoded
<1>2. CASE l \in DOMAIN v.obj
  <2>1. Found = {<<l, Encode(s, v.obj[l])>>}
    BY <1>1, <1>2
  <2> HIDE DEF Found
  <2>2. UNION {Stringy(kv[2]) : kv \in Found} = Stringy(Encode(s, v.obj[l]))
    BY <2>1
  <2> QED
    BY <1>2, <2>2 DEF Found
<1>3. CASE l \notin DOMAIN v.obj
  <2>1. Found = {}
    BY <1>1, <1>3
  <2> HIDE DEF Found
  <2>2. UNION {Stringy(kv[2]) : kv \in Found} = {}
    BY <2>1
  <2> QED
    BY <1>3, <2>2 DEF Found
<1> QED
  BY <1>2, <1>3

(* A label says the same. *)
LEMMA SameLabel ==
  ASSUME NEW s \in Styles, NEW v \in Objects, NEW l \in Labels,
         TextLabels(v, {"str", "bool", "null"})
  PROVE  BERTLabel(Encode(s, v), l) = JSONLabel(v.obj, l)
<1> DEFINE texts == UNION {Stringy(kv[2]) : kv \in {x \in KV(Encode(s, v)) : x[1] = l}}
<1>1. BERTLabel(Encode(s, v), l) = IF texts = {} THEN NoString ELSE CHOOSE x \in texts : TRUE
  BY DEF BERTLabel
<1>2. CASE l \in DOMAIN v.obj
  <2>1. v.obj[l] \in Values /\ Textual(v.obj[l], {"str", "bool", "null"})
    BY <1>2, ObjectFields DEF TextLabels
  <2>2. texts = Stringy(Encode(s, v.obj[l]))
    BY <1>2, TextsUnder
  <2>3. Stringy(Encode(s, v.obj[l])) = {Text(v.obj[l])}
    BY <2>1, TextEncoded
  <2> HIDE DEF texts
  <2>4. BERTLabel(Encode(s, v), l) = Text(v.obj[l])
    BY <1>1, <2>2, <2>3
  <2>5. JSONLabel(v.obj, l) = Text(v.obj[l])
    BY <1>2 DEF JSONLabel, Text
  <2> QED
    BY <2>4, <2>5
<1>3. CASE l \notin DOMAIN v.obj
  <2>1. texts = {}
    BY <1>3, TextsUnder
  <2> HIDE DEF texts
  <2>2. JSONLabel(v.obj, l) = NoString
    BY <1>3 DEF JSONLabel
  <2> QED
    BY <1>1, <2>1, <2>2
<1> QED
  BY <1>2, <1>3

(* So does a text of an overview. *)
LEMMA SameText ==
  ASSUME NEW s \in Styles, NEW v \in Objects, NEW l \in Labels,
         TextLabels(v, {"str", "null"})
  PROVE  BERTString(Encode(s, v), l) = JSONString(v, l)
<1>1. BERTString(Encode(s, v), l) = BERTLabel(Encode(s, v), l)
  BY DEF BERTString, BERTLabel
<1>2. TextLabels(v, {"str", "bool", "null"})
  BY DEF TextLabels, Textual
<1>3. BERTLabel(Encode(s, v), l) = JSONLabel(v.obj, l)
  BY <1>2, SameLabel
<1>4. JSONLabel(v.obj, l) = JSONString(v, l)
  <2>1. v \in Values /\ Is("obj", v)
    BY ObjectFields
  <2>2. ASSUME l \in DOMAIN v.obj PROVE ~Is("bool", v.obj[l])
    <3>1. v.obj[l] \in Values /\ (Is("str", v.obj[l]) \/ Is("null", v.obj[l]))
      BY <2>2, ObjectFields DEF TextLabels, Textual
    <3> QED
      BY <3>1, ValueKind
  <2> QED
    BY <2>1, <2>2 DEF JSONLabel, JSONString
<1> QED
  BY <1>1, <1>3, <1>4

(* An object with textual labels is not dropped. *)
LEMMA ObjectTaken ==
  ASSUME NEW s \in Styles, NEW v \in Objects, TextLabels(v, {"str", "bool", "null"})
  PROVE  BERTObject(Encode(s, v))
<1>1. ASSUME NEW kv \in KV(Encode(s, v)), kv[1] \in Labels PROVE Stringy(kv[2]) # {}
  <2>1. PICK k \in DOMAIN v.obj : kv = <<k, Encode(s, v.obj[k])>>
    BY ObjectEncoded
  <2>2. v.obj[k] \in Values /\ Textual(v.obj[k], {"str", "bool", "null"})
    BY <1>1, <2>1, ObjectFields DEF TextLabels
  <2>3. Stringy(Encode(s, v.obj[k])) = {Text(v.obj[k])}
    BY <2>2, TextEncoded
  <2> QED
    BY <2>1, <2>3
<1> QED
  BY <1>1, ObjectEncoded DEF BERTObject

(* A list of named, clear objects with textual labels: the same statistics. *)
LEMMA SameStatistics ==
  ASSUME NEW s \in Styles, NEW b \in Values, Is("arr", b),
         \A v \in Range(b.arr) :
           JSONNamed(v) /\ Clear(s, v) /\ TextLabels(v, {"str", "bool", "null"})
  PROVE  JSONStats(b) = BERTStats(Encode(s, b))
<1> DEFINE t == Encode(s, b)
           told(i) == [labels  |-> [l \in Labels |-> JSONLabel(b.arr[i].obj, l)],
                       metrics |-> addFields[b.arr[i]]]
<1>1. t \in Terms /\ Writes(s, b, t)
  BY EncodeAssumption
<1> HIDE DEF t
<1>2. t = [slice |-> [i \in DOMAIN b.arr |-> Encode(s, b.arr[i])]]
  BY <1>1 DEF Writes
<1>3. b.arr \in Seq(Values)
  BY ValuesAssumption
<1>4. Is("slice", t) /\ t.slice = [i \in DOMAIN b.arr |-> Encode(s, b.arr[i])]
  BY <1>2, KindOf
<1>5. ASSUME NEW i \in DOMAIN b.arr
      PROVE  /\ b.arr[i] \in Objects /\ JSONNamed(b.arr[i]) /\ Clear(s, b.arr[i])
             /\ TextLabels(b.arr[i], {"str", "bool", "null"})
  <2>1. b.arr[i] \in Range(b.arr)
    BY DEF Range
  <2>2. b.arr[i] \in Values
    BY <1>3
  <2>3. JSONNamed(b.arr[i]) /\ Clear(s, b.arr[i]) /\ TextLabels(b.arr[i], {"str", "bool", "null"})
    BY <2>1
  <2> QED
    BY <2>2, <2>3 DEF JSONNamed, Objects
<1>6. \A v \in Range(b.arr) : Is("obj", v)
  BY DEF JSONNamed
<1>7. {j \in DOMAIN b.arr : JSONNamed(b.arr[j])} = DOMAIN b.arr
  BY <1>5
<1>8. JSONStats(b) = [i \in DOMAIN b.arr |-> told(i)]
  BY <1>6, <1>7 DEF JSONStats
<1>9. {j \in DOMAIN t.slice : BERTObject(t.slice[j])} = DOMAIN b.arr
  BY <1>4, <1>5, ObjectTaken
<1>10. BERTStats(t) =
         [i \in DOMAIN b.arr |->
            [labels  |-> [l \in Labels |-> BERTLabel(t.slice[i], l)],
             metrics |-> parseProplist[t.slice[i]]]]
  BY <1>4, <1>9 DEF BERTStats
<1>11. ASSUME NEW i \in DOMAIN b.arr
       PROVE  [labels  |-> [l \in Labels |-> BERTLabel(t.slice[i], l)],
               metrics |-> parseProplist[t.slice[i]]] = told(i)
  <2>1. t.slice[i] = Encode(s, b.arr[i])
    BY <1>4
  <2>2. parseProplist[t.slice[i]] = addFields[b.arr[i]]
    BY <1>5, <2>1, SameFields
  <2>3. \A l \in Labels : BERTLabel(t.slice[i], l) = JSONLabel(b.arr[i].obj, l)
    BY <1>5, <2>1, SameLabel
  <2> QED
    BY <2>2, <2>3
<1> QED
  BY <1>8, <1>10, <1>11 DEF t
----------------------------------------------------------------------------
(* The runs' invariants, as theorems *)

(* What Parse stores of a body and its encoding. *)
Results(b, t) ==
  [json |-> [map |-> JSONMap(b), stats |-> JSONStats(b),
             string |-> [l \in Labels |-> JSONString(b, l)]],
   bert |-> [map |-> parseProplist[t], stats |-> BERTStats(t),
             string |-> [l \in Labels |-> BERTString(t, l)]]]

(* The inductive invariant: what was stored is what the parsers make of    *)
(* this body and of its encoding. *)
ParserInv ==
  /\ body \in Bodies /\ style \in Styles
  /\ parsed = <<>> \/ parsed = Results(body, Encode(style, body))

(* Nothing else is ever stored: both parsers are run on the same reply. *)
THEOREM ParserInvariance == Spec => []ParserInv
<1>1. Init => ParserInv
  BY DEF Init, ParserInv
<1>2. ParserInv /\ [Next]_vars => ParserInv'
  <2> SUFFICES ASSUME ParserInv, [Next]_vars PROVE ParserInv'
    OBVIOUS
  <2>1. CASE Parse
    BY <2>1 DEF Parse, ParserInv, Results
  <2>2. CASE UNCHANGED vars
    BY <2>2 DEF vars, ParserInv
  <2> QED
    BY <2>1, <2>2 DEF Next
<1> QED
  BY <1>1, <1>2, PTL DEF Spec

(* SameMap: for every reply that is an object and every way to write it,   *)
(* the parsers of jsonmap.go and bertmap.go give the same metrics, unless  *)
(* a list in it is taken for an object. *)
THEOREM MapsAgree == Spec => []SameMap
<1>1. ParserInv => SameMap
  <2> SUFFICES ASSUME ParserInv, parsed # <<>>, Is("obj", body), Clear(style, body)
               PROVE  parsed.json.map = parsed.bert.map
    BY DEF SameMap
  <2>1. parsed = Results(body, Encode(style, body)) /\ style \in Styles /\ body \in Objects
    BY BodiesAssumption DEF ParserInv, Objects
  <2>2. parsed.json.map = JSONMap(body) /\ parsed.bert.map = parseProplist[Encode(style, body)]
    BY <2>1 DEF Results
  <2>3. JSONMap(body) = addFields[body]
    BY DEF JSONMap
  <2> QED
    BY <2>1, <2>2, <2>3, SameFields
<1> QED
  BY <1>1, ParserInvariance, PTL

(* SameStats: for every list of named objects with textual labels, the     *)
(* parsers take the same objects, with the same labels and metrics. *)
THEOREM StatsAgree == Spec => []SameStats
<1>1. ParserInv => SameStats
  <2> SUFFICES ASSUME ParserInv, parsed # <<>>, Is("arr", body),
                      \A v \in Range(body.arr) :
                        JSONNamed(v) /\ Clear(style, v) /\ TextLabels(v, {"str", "bool", "null"})
               PROVE  parsed.json.stats = parsed.bert.stats
    BY DEF SameStats
  <2>1. parsed = Results(body, Encode(style, body)) /\ style \in Styles /\ body \in Values
    BY BodiesAssumption DEF ParserInv
  <2>2. parsed.json.stats = JSONStats(body) /\ parsed.bert.stats = BERTStats(Encode(style, body))
    BY <2>1 DEF Results
  <2> QED
    BY <2>1, <2>2, SameStatistics
<1> QED
  BY <1>1, ParserInvariance, PTL

(* SameString: GetString gives the same text for every object whose values *)
(* under the labels are texts or null, be they binaries or atoms. *)
THEOREM TextsAgree == Spec => []SameString
<1>1. ParserInv => SameString
  <2> SUFFICES ASSUME ParserInv, parsed # <<>>, Is("obj", body), TextLabels(body, {"str", "null"})
               PROVE  parsed.json.string = parsed.bert.string
    BY DEF SameString
  <2>1. parsed = Results(body, Encode(style, body)) /\ style \in Styles /\ body \in Objects
    BY BodiesAssumption DEF ParserInv, Objects
  <2>2. /\ parsed.json.string = [l \in Labels |-> JSONString(body, l)]
        /\ parsed.bert.string = [l \in Labels |-> BERTString(Encode(style, body), l)]
    BY <2>1 DEF Results
  <2>3. \A l \in Labels : BERTString(Encode(style, body), l) = JSONString(body, l)
    BY <2>1, SameText
  <2> QED
    BY <2>2, <2>3
<1> QED
  BY <1>1, ParserInvariance, PTL
=============================================================================
