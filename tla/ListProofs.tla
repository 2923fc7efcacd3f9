----------------------------- MODULE ListProofs -----------------------------
(***************************************************************************)
(* What the list modules report, for every broker and every configuration: *)
(* that samples are of this reply, that states are those of the moment,    *)
(* that connections are counted once and that nothing of their traffic is  *)
(* lost.  The library has no facts about sums, so that they come first.    *)
(***************************************************************************)
EXTENDS ListExporters, FiniteSetTheorems, WellFoundedInduction, TLAPS

(* What SumFunctionOnSet is defined by: g gives the sum of f over each     *)
(* subset of S. *)
Pick(s) == CHOOSE x \in s : TRUE
Sums(f, S, g) ==
  g = [s \in SUBSET S |-> IF s = {} THEN 0 ELSE f[Pick(s)] + g[s \ {Pick(s)}]]

(* The definition, spelled out. *)
LEMMA SumUnfold ==
  ASSUME NEW f, NEW S
  PROVE SumFunctionOnSet(f, S) = (CHOOSE g : Sums(f, S, g))[S]
BY DEF SumFunctionOnSet, FoldFunctionOnSet, MapThenFoldSet, Sums, Pick

(* A set of numbers has a least one. *)
LEMMA LeastNat ==
  ASSUME NEW T, T \subseteq Nat, T # {}
  PROVE  \E n \in T : \A m \in T : n <= m
<1>1. PICK n \in T : \A m \in T : <<m, n>> \notin OpToRel(<, Nat)
  BY WFMin, NatLessThanWellFounded, Zenon
<1>2. ASSUME NEW m \in T PROVE n <= m
  <2>1. <<m, n>> \in Nat \X Nat /\ <<m, n>>[1] = m /\ <<m, n>>[2] = n
    OBVIOUS
  <2>2. ~(m < n)
    BY <1>1, <2>1 DEF OpToRel
  <2> QED
    BY <2>2
<1> QED
  BY <1>2

(* What is picked is an element. *)
LEMMA PickIn == ASSUME NEW s, s # {} PROVE Pick(s) \in s
BY DEF Pick

(* Its value at one subset. *)
LEMMA SumsAt ==
  ASSUME NEW f, NEW S, NEW g, Sums(f, S, g), NEW s, s \subseteq S
  PROVE  /\ s = {} => g[s] = 0
         /\ s # {} => g[s] = f[Pick(s)] + g[s \ {Pick(s)}]
<1>1. s \in SUBSET S
  OBVIOUS
<1>2. g[s] = IF s = {} THEN 0 ELSE f[Pick(s)] + g[s \ {Pick(s)}]
  BY <1>1 DEF Sums
<1> QED
  BY <1>2

(* What holds of a finite set if it holds of its proper subsets holds of   *)
(* all finite sets. *)
LEMMA SubsetInduction ==
  ASSUME NEW S, IsFiniteSet(S), NEW F,
         \A t \in SUBSET S : (\A r \in SUBSET t : r # t => r \in F) => t \in F
  PROVE  \A t \in SUBSET S : t \in F
<1> DEFINE Bad == {n \in Nat : \E t \in SUBSET S : Cardinality(t) = n /\ t \notin F}
<1>1. Bad = {}
  <2> SUFFICES ASSUME Bad # {} PROVE FALSE
    OBVIOUS
  <2>1. PICK n \in Bad : \A m \in Bad : n <= m
    <3> HIDE DEF Bad
    <3>1. Bad \subseteq Nat
      BY DEF Bad
    <3> QED
      BY <3>1, LeastNat
  <2>2. PICK t \in SUBSET S : Cardinality(t) = n /\ t \notin F
    OBVIOUS
  <2>3. ASSUME NEW r \in SUBSET t, r # t PROVE r \in F
    <3>1. IsFiniteSet(t) /\ IsFiniteSet(r)
      BY FS_Subset
    <3>2. Cardinality(r) \in Nat /\ Cardinality(t) \in Nat /\ Cardinality(r) < Cardinality(t)
      BY <2>3, <3>1, FS_Subset, FS_CardinalityType
    <3>3. r \in SUBSET S
      OBVIOUS
    <3> QED
      BY <2>1, <2>2, <3>2, <3>3
  <2> QED
    BY <2>2, <2>3
<1>2. ASSUME NEW t \in SUBSET S PROVE t \in F
  <2>1. Cardinality(t) \in Nat
    BY FS_Subset, FS_CardinalityType
  <2> QED
    BY <1>1, <2>1
<1> QED
  BY <1>2

(* Two of them agree on the finite sets both are about. *)
LEMMA SumsAgree ==
  ASSUME NEW f, NEW S, NEW g, Sums(f, S, g), NEW T, NEW h, Sums(f, T, h),
         NEW s, IsFiniteSet(s), s \subseteq S, s \subseteq T
  PROVE  g[s] = h[s]
<1> DEFINE Good == {t \in SUBSET s : g[t] = h[t]}
<1>1. ASSUME NEW t \in SUBSET s, \A r \in SUBSET t : r # t => r \in Good
      PROVE  t \in Good
  <2>1. CASE t = {}
    BY <2>1, SumsAt
  <2>2. CASE t # {}
    <3>1. g[t \ {Pick(t)}] = h[t \ {Pick(t)}]
      BY <1>1, <2>2, PickIn
    <3> QED
      BY <2>2, <3>1, SumsAt
  <2> QED
    BY <2>1, <2>2
<1>2. s \in Good
  <2> HIDE DEF Good
  <2> QED
    BY <1>1, SubsetInduction
<1> QED
  BY <1>2

(* A sum is the last element picked and the sum of the rest. *)
LEMMA SumPick ==
  ASSUME NEW f, NEW S, IsFiniteSet(S)
  PROVE  /\ SumFunctionOnSet(f, {}) = 0
         /\ S # {} => SumFunctionOnSet(f, S) = f[Pick(S)] + SumFunctionOnSet(f, S \ {Pick(S)})
<1> DEFINE G(t)  == CHOOSE g : Sums(f, t, g)
           Ok(t) == Sums(f, t, G(t))
           Good  == {t \in SUBSET S : Ok(t)}
<1>1. \A t : SumFunctionOnSet(f, t) = G(t)[t]
  BY SumUnfold
<1> HIDE DEF G
<1>2. \A t, g : Sums(f, t, g) => Ok(t)
  BY DEF G
<1>3. ASSUME NEW t, IsFiniteSet(t), Ok(t), t # {}, Ok(t \ {Pick(t)})
      PROVE  SumFunctionOnSet(f, t) = f[Pick(t)] + SumFunctionOnSet(f, t \ {Pick(t)})
  <2> DEFINE r == t \ {Pick(t)}
  <2>1. G(t)[t] = f[Pick(t)] + G(t)[r]
    BY <1>3, SumsAt
  <2>2. IsFiniteSet(r)
    BY <1>3, FS_Subset
  <2>3. G(t)[r] = G(r)[r]
    BY <1>3, <2>2, SumsAgree
  <2> QED
    BY <1>1, <2>1, <2>3
<1>4. Ok({})
  <2>1. Sums(f, {}, [s \in SUBSET {} |-> 0])
    BY DEF Sums
  <2> QED
    BY <1>2, <2>1
<1>5. ASSUME NEW t \in SUBSET S, \A r \in SUBSET t : r # t => r \in Good
      PROVE  t \in Good
  <2>3. \A r \in SUBSET t : r # t => Ok(r)
    BY <1>5
  <2> DEFINE H == [s \in SUBSET t |->
                     IF s = {} THEN 0 ELSE f[Pick(s)] + SumFunctionOnSet(f, s \ {Pick(s)})]
  <2>4. ASSUME NEW r \in SUBSET t, r # t PROVE H[r] = SumFunctionOnSet(f, r)
    <3>1. CASE r = {}
      <4>1. G({})[{}] = 0
        BY <1>4, SumsAt
      <4> QED
        BY <1>1, <3>1, <4>1
    <3>2. CASE r # {}
      <4>1. IsFiniteSet(r)
        BY FS_Subset
      <4>2. Ok(r) /\ Ok(r \ {Pick(r)})
        <5>1. Ok(r)
          BY <2>3, <2>4
        <5>2. r \ {Pick(r)} \in SUBSET t /\ r \ {Pick(r)} # t
          BY <2>4
        <5>3. Ok(r \ {Pick(r)})
          BY <2>3, <5>2
        <5> QED
          BY <5>1, <5>3
      <4>3. SumFunctionOnSet(f, r) = f[Pick(r)] + SumFunctionOnSet(f, r \ {Pick(r)})
        BY <1>3, <3>2, <4>1, <4>2
      <4> QED
        BY <3>2, <4>3
    <3> QED
      BY <3>1, <3>2
  <2>5. Sums(f, t, H)
    <3>1. ASSUME NEW s \in SUBSET t
          PROVE  H[s] = IF s = {} THEN 0 ELSE f[Pick(s)] + H[s \ {Pick(s)}]
      <4>1. CASE s = {}
        BY <4>1
      <4>2. CASE s # {}
        <5> DEFINE r == s \ {Pick(s)}
        <5>1. r \in SUBSET t /\ r # t
          BY <4>2, PickIn
        <5>2. H[r] = SumFunctionOnSet(f, r)
          BY <2>4, <5>1
        <5>3. H[s] = f[Pick(s)] + SumFunctionOnSet(f, r)
          BY <4>2
        <5> QED
          BY <4>2, <5>2, <5>3
      <4> QED
        BY <4>1, <4>2
    <3>2. H = [s \in SUBSET t |-> H[s]]
      OBVIOUS
    <3> HIDE DEF H
    <3>3. H = [s \in SUBSET t |-> IF s = {} THEN 0 ELSE f[Pick(s)] + H[s \ {Pick(s)}]]
      BY <3>1, <3>2
    <3> QED
      BY <3>3 DEF Sums
  <2> QED
    BY <1>2, <2>5
<1>6. ASSUME NEW t \in SUBSET S PROVE Ok(t)
  <2>1. t \in Good
    <3> HIDE DEF Good
    <3> QED
      BY <1>5, SubsetInduction
  <2> QED
    BY <2>1
<1>7. SumFunctionOnSet(f, {}) = 0
  <2>1. G({})[{}] = 0
    BY <1>4, SumsAt
  <2> QED
    BY <1>1, <2>1
<1>8. ASSUME S # {}
      PROVE  SumFunctionOnSet(f, S) = f[Pick(S)] + SumFunctionOnSet(f, S \ {Pick(S)})
  <2>1. Ok(S) /\ Ok(S \ {Pick(S)})
    BY <1>6
  <2> QED
    BY <1>3, <1>8, <2>1
<1> QED
  BY <1>7, <1>8

(* A sum is any of the elements and the sum of the others, whatever the    *)
(* order in which they are added. *)
LEMMA SumSplit ==
  ASSUME NEW f, NEW S, IsFiniteSet(S), \A y \in S : f[y] \in Nat
  PROVE  /\ SumFunctionOnSet(f, S) \in Nat
         /\ \A x \in S : SumFunctionOnSet(f, S) = f[x] + SumFunctionOnSet(f, S \ {x})
<1> DEFINE Sum(t)   == SumFunctionOnSet(f, t)
           Good(t)  == Sum(t) \in Nat /\ \A x \in t : Sum(t) = f[x] + Sum(t \ {x})
           All      == {t \in SUBSET S : Good(t)}
<1>1. ASSUME NEW t \in SUBSET S
      PROVE  /\ t = {} => Sum(t) = 0
             /\ t # {} => Pick(t) \in t /\ Sum(t) = f[Pick(t)] + Sum(t \ {Pick(t)})
  <2>1. IsFiniteSet(t)
    BY FS_Subset
  <2> QED
    BY <2>1, SumPick, PickIn
<1> HIDE DEF Sum
<1>2. ASSUME NEW t \in SUBSET S, \A r \in SUBSET t : r # t => r \in All
      PROVE  t \in All
  <2>3. \A r \in SUBSET t : r # t => Good(r)
    BY <1>2
  <2>4. CASE t = {}
    <3>1. Sum(t) = 0
      BY <1>1, <2>4
    <3> QED
      BY <2>4, <3>1
  <2>5. CASE t # {}
    <3> DEFINE c == Pick(t)
    <3>0. c \in t /\ Sum(t) = f[c] + Sum(t \ {c})
      BY <1>1, <2>5
    <3>1. c \in t /\ Sum(t) = f[c] + Sum(t \ {c}) /\ f[c] \in Nat /\ Sum(t \ {c}) \in Nat
      <4> HIDE DEF c
      <4>1. Good(t \ {c})
        <5> HIDE DEF Good
        <5> QED
          BY <2>3, <3>0
      <4> QED
        BY <3>0, <4>1
    <3> HIDE DEF c
    <3>2. ASSUME NEW x \in t PROVE Sum(t) = f[x] + Sum(t \ {x})
      <4>1. CASE x = c
        BY <3>1, <4>1
      <4>2. CASE x # c
        <5>1. (t \ {c}) \ {x} = (t \ {x}) \ {c}
          OBVIOUS
        <5> DEFINE r == (t \ {c}) \ {x}
        <5>2. Sum(t \ {c}) = f[x] + Sum(r)
          BY <2>3, <3>1, <4>2
        <5>3. Sum(t \ {x}) = f[c] + Sum(r)
          BY <2>3, <3>1, <4>2, <5>1
        <5>4. Sum(r) \in Nat /\ f[x] \in Nat
          BY <2>3
        <5> QED
          BY <3>1, <5>2, <5>3, <5>4
      <4> QED
        BY <4>1, <4>2
    <3> QED
      BY <3>1, <3>2
  <2> QED
    BY <2>4, <2>5
<1>3. Good(S)
  <2>1. S \in All
    <3> HIDE DEF All
    <3> QED
      BY <1>2, SubsetInduction
  <2> QED
    BY <2>1
<1> QED
  BY <1>3 DEF Sum

(* One more element adds its value. *)
LEMMA SumAdd ==
  ASSUME NEW f, NEW S, IsFiniteSet(S), NEW x, x \notin S, \A y \in S \union {x} : f[y] \in Nat
  PROVE  SumFunctionOnSet(f, S \union {x}) = SumFunctionOnSet(f, S) + f[x]
<1>1. IsFiniteSet(S \union {x}) /\ (S \union {x}) \ {x} = S
  BY FS_AddElement
<1>2. SumFunctionOnSet(f, S \union {x}) = f[x] + SumFunctionOnSet(f, S)
  BY <1>1, SumSplit
<1>3. SumFunctionOnSet(f, S) \in Nat /\ f[x] \in Nat
  BY SumSplit
<1> QED
  BY <1>2, <1>3

(* Only the values on the set count. *)
LEMMA SumSame ==
  ASSUME NEW f, NEW g, NEW S, IsFiniteSet(S), \A y \in S : f[y] = g[y]
  PROVE  SumFunctionOnSet(f, S) = SumFunctionOnSet(g, S)
<1> DEFINE Good == {t \in SUBSET S : SumFunctionOnSet(f, t) = SumFunctionOnSet(g, t)}
<1>1. ASSUME NEW t \in SUBSET S, \A r \in SUBSET t : r # t => r \in Good
      PROVE  t \in Good
  <2>1. IsFiniteSet(t)
    BY FS_Subset
  <2>2. CASE t = {}
    BY <2>1, <2>2, SumPick
  <2>3. CASE t # {}
    <3>1. Pick(t) \in t /\ f[Pick(t)] = g[Pick(t)]
      BY <2>3, PickIn
    <3>2. SumFunctionOnSet(f, t \ {Pick(t)}) = SumFunctionOnSet(g, t \ {Pick(t)})
      BY <1>1, <3>1
    <3>3. /\ SumFunctionOnSet(f, t) = f[Pick(t)] + SumFunctionOnSet(f, t \ {Pick(t)})
          /\ SumFunctionOnSet(g, t) = g[Pick(t)] + SumFunctionOnSet(g, t \ {Pick(t)})
      BY <2>1, <2>3, SumPick
    <3> QED
      BY <3>1, <3>2, <3>3
  <2> QED
    BY <2>2, <2>3
<1>2. S \in Good
  <2> HIDE DEF Good
  <2> QED
    BY <1>1, SubsetInduction
<1> QED
  BY <1>2
----------------------------------------------------------------------------
(* The totals of samples *)

Valued(S) == \A s \in S : s.value \in Nat

(* The total of some samples, as a sum over all of them. *)
LEMMA TotalSum ==
  ASSUME NEW S, NEW T, IsFiniteSet(S), T \subseteq S
  PROVE  Total(T) = SumFunctionOnSet([s \in S |-> s.value], T)
<1>1. IsFiniteSet(T)
  BY FS_Subset
<1>2. Total(T) = SumFunctionOnSet([s \in T |-> s.value], T)
  BY DEF Total, SumFunction
<1> QED
  BY <1>1, <1>2, SumSame

(* Nothing adds up to 0. *)
LEMMA TotalNone == Total({}) = 0
<1>1. Total({}) = SumFunctionOnSet([s \in {} |-> s.value], {})
  BY DEF Total, SumFunction
<1> QED
  BY <1>1, SumPick, FS_EmptySet

(* One more sample adds its value to the total. *)
LEMMA TotalAdd ==
  ASSUME NEW S, IsFiniteSet(S), Valued(S), NEW x, x \notin S, x.value \in Nat
  PROVE  Total(S) \in Nat /\ Total(S \union {x}) = Total(S) + x.value
<1> DEFINE f == [s \in S \union {x} |-> s.value]
<1>1. IsFiniteSet(S \union {x})
  BY FS_AddElement
<1>2. Total(S) = SumFunctionOnSet(f, S) /\ Total(S \union {x}) = SumFunctionOnSet(f, S \union {x})
  BY <1>1, TotalSum
<1>3. \A y \in S \union {x} : f[y] \in Nat /\ f[y] = y.value
  BY DEF Valued
<1> HIDE DEF f
<1>4. SumFunctionOnSet(f, S \union {x}) = SumFunctionOnSet(f, S) + f[x]
  BY <1>3, SumAdd
<1>5. SumFunctionOnSet(f, S) \in Nat
  BY <1>3, SumSplit
<1> QED
  BY <1>2, <1>3, <1>4, <1>5

(* One sample adds up to its value. *)
LEMMA TotalOne ==
  ASSUME NEW x, x.value \in Nat
  PROVE  Total({x}) = x.value
<1>1. Total({} \union {x}) = Total({}) + x.value
  BY TotalAdd, FS_EmptySet DEF Valued
<1>2. {} \union {x} = {x}
  OBVIOUS
<1> QED
  BY <1>1, <1>2, TotalNone
----------------------------------------------------------------------------
(* Setting and adding *)

Unique(S) == \A s, t \in S : Same(s, t) => s = t
VecOf(S, v) == {s \in S : s.vec = v}
IsSample(n) == n = [vec |-> n.vec, labels |-> n.labels, value |-> n.value]

(* The same children, whatever their values: those of gs and those of new. *)
Joined(gs, new, hs) ==
  /\ \A h \in hs : (\E g \in gs : Same(h, g)) \/ (\E n \in new : Same(h, n))
  /\ \A g \in gs \union new : \E h \in hs : Same(h, g)

(* Set joins the new samples to the children that are not replaced. *)
LEMMA SetJoins ==
  ASSUME NEW gs, NEW new
  PROVE  Joined(gs, new, Set(gs, new))
BY DEF Joined, Set, Same

(* What Add sets: the sample with the old value on top. *)
Sum2(gs, n) == [n EXCEPT !.value = n.value + Total({g \in gs : Same(g, n)})]

(* A sum replaces the children whose labels it has. *)
LEMMA SumShape ==
  ASSUME NEW gs, NEW n, IsSample(n)
  PROVE  /\ IsSample(Sum2(gs, n)) /\ Same(Sum2(gs, n), n)
         /\ Sum2(gs, n).value = n.value + Total({g \in gs : Same(g, n)})
<1> DEFINE t == Total({g \in gs : Same(g, n)})
<1> HIDE DEF t
<1>1. Sum2(gs, n) = [n EXCEPT !.value = n.value + t]
  BY DEF Sum2, t
<1>2. Sum2(gs, n) = [vec |-> n.vec, labels |-> n.labels, value |-> n.value + t]
  BY <1>1 DEF IsSample
<1> QED
  BY <1>2 DEF IsSample, Same, t

(* Add sets the sums ... *)
LEMMA AddIsSet ==
  ASSUME NEW gs, NEW new
  PROVE  Add(gs, new) = Set(gs, {Sum2(gs, n) : n \in new})
BY DEF Add, Sum2

(* ... and so joins samples like Set does. *)
LEMMA AddJoins ==
  ASSUME NEW gs, NEW new, \A n \in new : IsSample(n)
  PROVE  Joined(gs, new, Add(gs, new))
<1> DEFINE new2 == {Sum2(gs, n) : n \in new}
<1>1. \A n \in new : Same(Sum2(gs, n), n)
  BY SumShape
<1>2. Joined(gs, new2, Add(gs, new))
  BY SetJoins, AddIsSet
<1> QED
  BY <1>1, <1>2 DEF Joined, Same

(* The children a new sample meets: none, or one. *)
LEMMA MeetsOne ==
  ASSUME NEW gs, Unique(gs), Valued(gs), NEW n
  PROVE  LET T == {g \in gs : Same(g, n)}
         IN  \/ T = {} /\ Total(T) = 0
             \/ \E g \in gs : T = {g} /\ Same(g, n) /\ Total(T) = g.value /\ g.value \in Nat
<1> DEFINE T == {g \in gs : Same(g, n)}
<1>1. CASE T = {}
  BY <1>1, TotalNone
<1>2. CASE T # {}
  <2>1. PICK g \in gs : Same(g, n)
    BY <1>2
  <2>2. T = {g}
    BY <2>1 DEF Unique, Same
  <2>3. g.value \in Nat
    BY DEF Valued
  <2> QED
    BY <2>1, <2>2, <2>3, TotalOne
<1> QED
  BY <1>1, <1>2

(* Add keeps one child per vector and labels, with a number.               *)
LEMMA AddKeeps ==
  ASSUME NEW gs, Unique(gs), Valued(gs),
         NEW new, Unique(new), Valued(new), \A n \in new : IsSample(n)
  PROVE  Unique(Add(gs, new)) /\ Valued(Add(gs, new))
<1>1. \A n \in new : Same(Sum2(gs, n), n) /\ Sum2(gs, n).value \in Nat
  <2> TAKE n \in new
  <2>1. Total({g \in gs : Same(g, n)}) \in Nat
    BY MeetsOne
  <2>2. n.value \in Nat /\ IsSample(n)
    BY DEF Valued
  <2>3. /\ Same(Sum2(gs, n), n)
        /\ Sum2(gs, n).value = n.value + Total({g \in gs : Same(g, n)})
    BY <2>2, SumShape
  <2> QED
    BY <2>1, <2>2, <2>3
<1>2. \A m, n \in new : Same(Sum2(gs, m), Sum2(gs, n)) => m = n
  BY <1>1 DEF Unique, Same
<1> DEFINE new2 == {Sum2(gs, n) : n \in new}
<1>3. Unique(new2) /\ Valued(new2)
  BY <1>1, <1>2 DEF Unique, Valued
<1> HIDE DEF new2
<1>4. Unique(Set(gs, new2)) /\ Valued(Set(gs, new2))
  BY <1>3 DEF Set, Unique, Valued, Same
<1> QED
  BY <1>4, AddIsSet DEF new2

(* A vector that gets one sample: its total grows by the value of it, and  *)
(* so does the child with these labels; the other children stay.           *)
LEMMA AddOne ==
  ASSUME NEW gs, Unique(gs), Valued(gs),
         NEW new, \A x \in new : IsSample(x),
         NEW v, IsFiniteSet(VecOf(gs, v)),
         NEW n \in new, n.vec = v, n.value \in Nat, \A x \in new : x.vec = v => x = n
  PROVE  /\ IsFiniteSet(VecOf(Add(gs, new), v))
         /\ Total(VecOf(gs, v)) \in Nat
         /\ Total(VecOf(Add(gs, new), v)) = Total(VecOf(gs, v)) + n.value
         /\ \A h \in VecOf(Add(gs, new), v) :
              \/ h \in gs /\ h.labels # n.labels
              \/ /\ h.labels = n.labels
                 /\ \/ h.value = n.value /\ \A g \in VecOf(gs, v) : g.labels # n.labels
                    \/ \E g \in VecOf(gs, v) : g.labels = n.labels /\ h.value = n.value + g.value
<1> DEFINE T == {g \in gs : Same(g, n)}
           V == VecOf(gs, v)
           W == VecOf(Add(gs, new), v)
           h == Sum2(gs, n)
<1>1. Same(h, n) /\ h.value = n.value + Total(T)
  BY SumShape
<1>2. W = (V \ T) \union {h}
  <2>1. \A x \in new : Same(Sum2(gs, x), x)
    BY SumShape
  <2>2. Add(gs, new) = {g \in gs : \A x \in new : ~Same(g, Sum2(gs, x))} \union {Sum2(gs, x) : x \in new}
    BY AddIsSet DEF Set
  <2>3. \A g \in gs : \A x \in new : Same(g, Sum2(gs, x)) <=> Same(g, x)
    BY <2>1 DEF Same
  <2> HIDE DEF h
  <2>4. \A x \in new : Sum2(gs, x).vec = v => Sum2(gs, x) = h
    BY <2>1 DEF Same, h
  <2>5. h \in Add(gs, new) /\ h.vec = v
    BY <1>1, <2>2 DEF Same, h
  <2>6. \A g \in V \ T : g \in Add(gs, new) /\ g.vec = v
    BY <2>2, <2>3 DEF VecOf, Same
  <2>7. \A g \in W : g \in V \ T \/ g = h
    BY <2>2, <2>3, <2>4 DEF VecOf
  <2> QED
    BY <2>5, <2>6, <2>7 DEF VecOf
<1>3. h \notin V \ T
  BY <1>1 DEF VecOf, Same
<1>4. IsFiniteSet(V \ T) /\ Valued(V \ T) /\ Valued(V)
  BY FS_Subset DEF Valued, VecOf
<1>5. T \subseteq V
  BY DEF VecOf, Same
<1> HIDE DEF h, W
<1>6. CASE T = {} /\ Total(T) = 0
  <2>1. h.value = n.value /\ V \ T = V
    BY <1>1, <1>6
  <2>2. \A g \in V : g.labels # n.labels
    BY <1>6 DEF VecOf, Same
  <2>3. IsFiniteSet(W) /\ Total(V) \in Nat /\ Total(W) = Total(V) + n.value
    BY <1>2, <1>3, <1>4, <2>1, TotalAdd, FS_AddElement
  <2>4. \A g \in W : g \in V \/ g = h
    BY <1>2
  <2> QED
    BY <1>1, <2>1, <2>2, <2>3, <2>4 DEF W, VecOf, Same
<1>7. ASSUME NEW g \in gs, T = {g}, Same(g, n), Total(T) = g.value, g.value \in Nat
      PROVE  /\ IsFiniteSet(W) /\ Total(V) \in Nat /\ Total(W) = Total(V) + n.value
             /\ \A x \in W : \/ x \in gs /\ x.labels # n.labels
                             \/ x.labels = n.labels /\ g \in V /\ g.labels = n.labels
                                  /\ x.value = n.value + g.value
  <2> DEFINE R == V \ T
  <2>1. g \notin R /\ V = R \union {g} /\ g \in V
    BY <1>5, <1>7
  <2> HIDE DEF R
  <2>2. Total(R) \in Nat /\ Total(V) = Total(R) + g.value
    BY <1>4, <1>7, <2>1, TotalAdd DEF R
  <2>3. h.value = n.value + g.value
    BY <1>1, <1>7
  <2>4. Total(W) = Total(R) + h.value
    BY <1>2, <1>3, <1>4, <1>7, <2>3, TotalAdd DEF R
  <2>5. IsFiniteSet(W)
    BY <1>2, <1>4, FS_AddElement
  <2>6. Total(V) \in Nat /\ Total(W) = Total(V) + n.value
    BY <1>7, <2>2, <2>3, <2>4
  <2>7. ASSUME NEW x \in W, x # h PROVE x \in gs /\ x.labels # n.labels
    <3>1. x \in V \ T
      BY <1>2, <2>7
    <3> QED
      BY <3>1 DEF VecOf, Same
  <2> QED
    BY <1>1, <1>7, <2>1, <2>3, <2>5, <2>6, <2>7 DEF Same
<1>8. (T = {} /\ Total(T) = 0) \/ \E g \in gs : T = {g} /\ Same(g, n) /\ Total(T) = g.value /\ g.value \in Nat
  BY MeetsOne
<1> QED
  <2>1. CASE T = {} /\ Total(T) = 0
    BY <1>6, <2>1
  <2>2. CASE \E g \in gs : T = {g} /\ Same(g, n) /\ Total(T) = g.value /\ g.value \in Nat
    <3>1. PICK g \in gs : T = {g} /\ Same(g, n) /\ Total(T) = g.value /\ g.value \in Nat
      BY <2>2
    <3> HIDE DEF T, V
    <3> QED
      BY <1>7, <3>1 DEF V, W
  <2> QED
    BY <1>8, <2>1, <2>2

(* A vector that gets none stays as it is. *)
LEMMA AddNone ==
  ASSUME NEW gs, NEW new, \A x \in new : IsSample(x), NEW v, \A x \in new : x.vec # v
  PROVE  VecOf(Add(gs, new), v) = VecOf(gs, v)
<1>1. \A x \in new : Same(Sum2(gs, x), x)
  BY SumShape
<1>2. Add(gs, new) = {g \in gs : \A x \in new : ~Same(g, Sum2(gs, x))} \union {Sum2(gs, x) : x \in new}
  BY AddIsSet DEF Set
<1>3. \A x \in new : Sum2(gs, x).vec # v
  BY <1>1 DEF Same
<1> QED
  BY <1>2, <1>3 DEF VecOf, Same
----------------------------------------------------------------------------
(* What a set S of samples tells of a set O of objects.                    *)

(* Every sample is about one of the objects. *)
FromObjects(S, O) ==
  \A s \in S : \E o \in O : \E state \in {NoLabel, o.state} : s.labels = Labels(module, o, state)

(* Each node of a memory scrape has its samples. *)
NamesOf(S, O) ==
  MemoryTold /\ module = "memory" => {s.labels.name : s \in S} = {o.name : o \in O}

(* What a node or an exchange makes, if its filters keep it. *)
Reports(o) ==
  IF module = "exchange" /\ ~Kept(o) THEN {} ELSE Numbers(module, o, o.metrics)

(* Nodes and exchanges are told with their numbers, no more and no less. *)
NumbersOf(S, O) == module \in {"node", "exchange"} => S = UNION {Reports(o) : o \in O}

StateVec == <<module, "state">>

(* The states are those of the objects. *)
StatesOf(S, O) ==
  module \in WithState =>
    {s.labels : s \in VecOf(S, StateVec)} = {Labels(module, o, o.state) : o \in O}

FlagsOf(S) ==
  module \in WithState \ {"connections"} =>
    \A s \in VecOf(S, StateVec) :
      s.value = 1 <=> (module = "aliveness" => s.labels.state = "ok")

InState(O, labels) == {o \in O : Labels(module, o, o.state) = labels}
Amount(O, k) == SumFunction([o \in {c \in O : c.metrics[k] # Missing} |-> o.metrics[k]])

(* Connections are counted, and their traffic added up. *)
CountsOf(S, O) ==
  module = "connections" =>
    /\ Unique(S)
    /\ \A k \in Keys[module] \union {"state"} : IsFiniteSet(VecOf(S, <<module, k>>))
    /\ Total(VecOf(S, StateVec)) = Cardinality(O)
    /\ \A s \in VecOf(S, StateVec) : s.value = Cardinality(InState(O, s.labels))
    /\ \A k \in Keys[module] \ Excluded : Total(VecOf(S, <<module, k>>)) = Amount(O, k)

Tells(S, O) ==
  /\ FromObjects(S, O) /\ NamesOf(S, O) /\ NumbersOf(S, O)
  /\ StatesOf(S, O) /\ FlagsOf(S) /\ CountsOf(S, O)

New(o, metrics) == Numbers(module, o, metrics) \union State(module, o)
Measured(metrics) == \A k \in Keys[module] : metrics[k] \in Nat \union {Missing}

(* Nothing was sent and nothing is there of nothing. *)
LEMMA TellsNone == Tells({}, {})
<1>1. \A v, l : VecOf({}, v) = {} /\ InState({}, l) = {}
  BY DEF VecOf, InState
<1>2. \A k : Amount({}, k) = 0
  <2> TAKE k
  <2> DEFINE P == {c \in {} : c.metrics[k] # Missing}
             f == [o \in P |-> o.metrics[k]]
  <2>1. P = {}
    OBVIOUS
  <2>2. DOMAIN f = {}
    BY <2>1
  <2> HIDE DEF f
  <2>3. SumFunction(f) = 0
    BY <2>2, SumPick, FS_EmptySet DEF SumFunction
  <2> QED
    BY <2>3 DEF Amount, f
<1>3. CountsOf({}, {})
  BY <1>1, <1>2, TotalNone, FS_EmptySet DEF CountsOf, Unique
<1>4. FromObjects({}, {}) /\ NamesOf({}, {}) /\ FlagsOf({}) /\ StatesOf({}, {})
  BY <1>1 DEF FromObjects, NamesOf, FlagsOf, StatesOf
<1>5. NumbersOf({}, {})
  BY DEF NumbersOf
<1> QED
  BY <1>3, <1>4, <1>5 DEF Tells

(* A sample has its vector, its labels and its number.                     *)
LEMMA SampleShape ==
  \A m, k, o, state, v :
    LET s == Sample(m, k, o, state, v)
    IN  /\ s.vec = <<m, k>> /\ s.labels = Labels(m, o, state) /\ s.value = v
        /\ IsSample(s)
BY DEF Sample, IsSample

(* Labels carry the vhost, the name and the state. *)
LEMMA LabelShape ==
  \A m, o, state :
    LET l == Labels(m, o, state)
    IN  l.vhost = o.vhost /\ l.name = o.name /\ l.state = state
BY DEF Labels

(* What one object makes. *)
LEMMA NewShape ==
  ASSUME NEW o, NEW metrics, Measured(metrics), NEW n \in New(o, metrics)
  PROVE  /\ IsSample(n) /\ n.value \in Nat /\ n.vec[1] = module
         /\ \/ \E k \in Keys[module] \ Excluded :
                 metrics[k] # Missing /\ n = Sample(module, k, o, NoLabel, metrics[k])
            \/ module \in WithState /\ n = Sample(module, "state", o, o.state, Flag(module, o))
<1>1. CASE n \in Numbers(module, o, metrics)
  <2>1. PICK k \in Keys[module] \ Excluded :
          metrics[k] # Missing /\ n = Sample(module, k, o, NoLabel, metrics[k])
    BY <1>1 DEF Numbers
  <2>2. metrics[k] \in Nat
    BY <2>1 DEF Measured
  <2>3. n.vec = <<module, k>> /\ n.value = metrics[k] /\ IsSample(n)
    BY <2>1, SampleShape
  <2> QED
    BY <2>1, <2>2, <2>3
<1>2. CASE n \in State(module, o)
  <2>1. module \in WithState /\ n = Sample(module, "state", o, o.state, Flag(module, o))
    BY <1>2 DEF State
  <2>2. Flag(module, o) \in Nat
    BY DEF Flag
  <2>3. n.vec = <<module, "state">> /\ n.value = Flag(module, o) /\ IsSample(n)
    BY <2>1, SampleShape
  <2> QED
    BY <2>1, <2>2, <2>3
<1> QED
  BY <1>1, <1>2 DEF New

(* An object makes one sample per vector.                                  *)
LEMMA NewOne ==
  ASSUME module \in Modules, NEW o, NEW metrics, Measured(metrics)
  PROVE  /\ \A m, n \in New(o, metrics) : m.vec = n.vec => m = n
         /\ \A n \in New(o, metrics) :
              n.vec = StateVec => module \in WithState
                                    /\ n = Sample(module, "state", o, o.state, Flag(module, o))
         /\ \A k \in Keys[module] : \A n \in New(o, metrics) :
              n.vec = <<module, k>> => /\ k \notin Excluded /\ metrics[k] # Missing
                                       /\ n = Sample(module, k, o, NoLabel, metrics[k])
<1> DEFINE Num(n, k) == /\ k \in Keys[module] \ Excluded /\ metrics[k] # Missing
                        /\ n = Sample(module, k, o, NoLabel, metrics[k])
           Sta(n) == module \in WithState /\ n = Sample(module, "state", o, o.state, Flag(module, o))
<1>1. \A n \in New(o, metrics) : (\E k : Num(n, k)) \/ Sta(n)
  BY NewShape
<1>2. \A n, k : Num(n, k) => n.vec = <<module, k>>
  BY SampleShape
<1>3. \A n : Sta(n) => n.vec = <<module, "state">>
  BY SampleShape
<1>4. "state" \notin Keys[module]
  BY ListKeysAssumption
<1>5. \A k, j : <<module, k>> = <<module, j>> => k = j
  OBVIOUS
<1>6. \A m, n, k : Num(m, k) /\ Num(n, k) => m = n
  OBVIOUS
<1>7. \A m, n : Sta(m) /\ Sta(n) => m = n
  OBVIOUS
<1>8. \A n, k : Num(n, k) => k \in Keys[module]
  OBVIOUS
<1> HIDE DEF Num, Sta
<1>9. \A m, n \in New(o, metrics) : m.vec = n.vec => m = n
  BY <1>1, <1>2, <1>3, <1>4, <1>5, <1>6, <1>7, <1>8
<1>10. \A n \in New(o, metrics) : n.vec = StateVec => Sta(n)
  BY <1>1, <1>2, <1>4, <1>5, <1>8 DEF StateVec
<1>11. \A k \in Keys[module] : \A n \in New(o, metrics) : n.vec = <<module, k>> => Num(n, k)
  BY <1>1, <1>2, <1>3, <1>4, <1>5
<1> QED
  BY <1>9, <1>10, <1>11 DEF Num, Sta

(* Samples of one more object, however they were set. *)
LEMMA JoinedTells ==
  ASSUME module \in Modules, NEW S, NEW O, NEW o, NEW metrics, Measured(metrics),
         module = "memory" => metrics \in MemoryReplies,
         NEW S2, Joined(S, New(o, metrics), S2),
         FromObjects(S, O), NamesOf(S, O), StatesOf(S, O)
  PROVE  FromObjects(S2, O \union {o}) /\ NamesOf(S2, O \union {o}) /\ StatesOf(S2, O \union {o})
<1>1. \A n \in New(o, metrics) :
        n.labels = Labels(module, o, NoLabel) \/ n.labels = Labels(module, o, o.state)
  <2> TAKE n \in New(o, metrics)
  <2> QED
    BY NewShape, SampleShape
<1>2. \A s \in S2 : \/ \E g \in S : s.vec = g.vec /\ s.labels = g.labels
                    \/ \E n \in New(o, metrics) : s.vec = n.vec /\ s.labels = n.labels
  BY DEF Joined, Same
<1>3. \A g \in S \union New(o, metrics) : \E s \in S2 : s.vec = g.vec /\ s.labels = g.labels
  BY DEF Joined, Same
<1>4. FromObjects(S2, O \union {o})
  <2> SUFFICES ASSUME NEW s \in S2
               PROVE  \E c \in O \union {o} : \E state \in {NoLabel, c.state} :
                        s.labels = Labels(module, c, state)
    BY DEF FromObjects
  <2>1. CASE \E g \in S : s.labels = g.labels
    BY <2>1 DEF FromObjects
  <2>2. CASE \E n \in New(o, metrics) : s.labels = n.labels
    BY <1>1, <2>2
  <2> QED
    BY <1>2, <2>1, <2>2
<1>5. NamesOf(S2, O \union {o})
  <2> SUFFICES ASSUME MemoryTold, module = "memory"
               PROVE  {s.labels.name : s \in S2} = {c.name : c \in O \union {o}}
    BY DEF NamesOf
  <2>1. {s.labels.name : s \in S} = {c.name : c \in O}
    BY DEF NamesOf
  <2>2. \A n \in New(o, metrics) : n.labels.name = o.name
    BY <1>1, LabelShape
  <2>3. \E n \in New(o, metrics) : TRUE
    <3>1. PICK k \in Keys["memory"] \ Excluded : metrics[k] # Missing
      BY DEF MemoryTold
    <3>2. Sample(module, k, o, NoLabel, metrics[k]) \in Numbers(module, o, metrics)
      BY <3>1 DEF Numbers
    <3> QED
      BY <3>2 DEF New
  <2>4. ASSUME NEW s \in S2 PROVE s.labels.name \in {c.name : c \in O \union {o}}
    <3>1. CASE \E g \in S : s.labels = g.labels
      BY <2>1, <3>1
    <3>2. CASE \E n \in New(o, metrics) : s.labels = n.labels
      BY <2>2, <3>2
    <3> QED
      BY <1>2, <3>1, <3>2
  <2>5. ASSUME NEW c \in O \union {o} PROVE \E s \in S2 : s.labels.name = c.name
    <3>1. CASE c \in O
      <4>1. PICK g \in S : g.labels.name = c.name
        BY <2>1, <3>1
      <4> QED
        BY <1>3, <4>1
    <3>2. CASE c = o
      BY <1>3, <2>2, <2>3, <3>2
    <3> QED
      BY <3>1, <3>2
  <2> QED
    BY <2>4, <2>5
<1>6. StatesOf(S2, O \union {o})
  <2> SUFFICES ASSUME module \in WithState
               PROVE  {s.labels : s \in VecOf(S2, StateVec)}
                        = {Labels(module, c, c.state) : c \in O \union {o}}
    BY DEF StatesOf
  <2>1. {s.labels : s \in VecOf(S, StateVec)} = {Labels(module, c, c.state) : c \in O}
    BY DEF StatesOf
  <2> DEFINE n == Sample(module, "state", o, o.state, Flag(module, o))
  <2>2. n \in New(o, metrics)
    BY DEF New, State
  <2>3. n.vec = StateVec /\ n.labels = Labels(module, o, o.state)
    BY SampleShape DEF StateVec
  <2>4. \A x \in New(o, metrics) : x.vec = StateVec => x = n
    BY NewOne
  <2> HIDE DEF n
  <2>5. ASSUME NEW s \in VecOf(S2, StateVec)
        PROVE  s.labels \in {Labels(module, c, c.state) : c \in O \union {o}}
    <3>0. s \in S2 /\ s.vec = StateVec
      BY DEF VecOf
    <3>1. CASE \E g \in S : s.vec = g.vec /\ s.labels = g.labels
      <4>1. s.labels \in {g.labels : g \in VecOf(S, StateVec)}
        BY <3>0, <3>1 DEF VecOf
      <4> QED
        BY <2>1, <4>1
    <3>2. CASE \E x \in New(o, metrics) : s.vec = x.vec /\ s.labels = x.labels
      <4>1. s.labels = Labels(module, o, o.state)
        BY <2>3, <2>4, <3>0, <3>2
      <4> QED
        BY <4>1
    <3> QED
      BY <1>2, <3>0, <3>1, <3>2
  <2>6. ASSUME NEW c \in O \union {o}
        PROVE  \E s \in VecOf(S2, StateVec) : s.labels = Labels(module, c, c.state)
    <3>1. CASE c \in O
      <4>1. PICK g \in VecOf(S, StateVec) : g.labels = Labels(module, c, c.state)
        BY <2>1, <3>1
      <4> QED
        BY <1>3, <4>1 DEF VecOf
    <3>2. CASE c = o
      BY <1>3, <2>2, <2>3, <3>2 DEF VecOf
    <3> QED
      BY <3>1, <3>2
  <2> QED
    BY <2>5, <2>6
<1> QED
  BY <1>4, <1>5, <1>6

(* A test passed if and only if its status is ok. *)
LEMMA SetFlags ==
  ASSUME module \in Modules, NEW S, FlagsOf(S), NEW o, NEW metrics, Measured(metrics)
  PROVE  FlagsOf(Set(S, New(o, metrics)))
<1>1. ASSUME NEW n \in New(o, metrics), n.vec = StateVec
      PROVE  n.value = 1 <=> (module = "aliveness" => n.labels.state = "ok")
  <2>1. n = Sample(module, "state", o, o.state, Flag(module, o))
    BY <1>1, NewOne
  <2>2. n.value = Flag(module, o) /\ n.labels.state = o.state
    BY <2>1, SampleShape, LabelShape
  <2> QED
    BY <2>2 DEF Flag
<1>2. \A s \in Set(S, New(o, metrics)) : s \in S \/ s \in New(o, metrics)
  BY DEF Set
<1> QED
  BY <1>1, <1>2 DEF FlagsOf, VecOf

(* The numbers of a node or an exchange carry its name. *)
LEMMA ReportsShape ==
  ASSUME NEW o, NEW s \in Reports(o)
  PROVE  /\ s.labels.vhost = o.vhost /\ s.labels.name = o.name
         /\ module = "exchange" => Kept(o)
         /\ \E k \in Keys[module] \ Excluded :
              o.metrics[k] # Missing /\ s.vec = <<module, k>> /\ s.value = o.metrics[k]
              /\ s = Sample(module, k, o, NoLabel, o.metrics[k])
<1>1. s \in Numbers(module, o, o.metrics) /\ (module = "exchange" => Kept(o))
  BY DEF Reports
<1>2. PICK k \in Keys[module] \ Excluded :
        o.metrics[k] # Missing /\ s = Sample(module, k, o, NoLabel, o.metrics[k])
  BY <1>1 DEF Numbers
<1>3. s.labels = Labels(module, o, NoLabel) /\ s.vec = <<module, k>> /\ s.value = o.metrics[k]
  BY <1>2, SampleShape
<1> QED
  BY <1>1, <1>2, <1>3, LabelShape

(* Setting the numbers of one more node replaces none of another. *)
LEMMA SetNumbers ==
  ASSUME module = "node", NEW O, NEW o, NumbersOf(children, O),
         \A c \in O : c.vhost # o.vhost \/ c.name # o.name
  PROVE  NumbersOf(Set(children, New(o, o.metrics)), O \union {o})
<1>1. children = UNION {Reports(c) : c \in O}
  BY DEF NumbersOf
<1>2. New(o, o.metrics) = Reports(o)
  BY DEF New, State, WithState, Reports
<1>3. ASSUME NEW g \in children, NEW n \in Reports(o)
      PROVE  g.labels # n.labels
  <2>1. PICK c \in O : g \in Reports(c)
    BY <1>1
  <2>2. g.labels.vhost = c.vhost /\ g.labels.name = c.name
    BY <2>1, ReportsShape
  <2>3. n.labels.vhost = o.vhost /\ n.labels.name = o.name
    BY ReportsShape
  <2> QED
    BY <2>2, <2>3
<1>4. Set(children, New(o, o.metrics)) = children \union Reports(o)
  BY <1>2, <1>3 DEF Set, Same
<1>5. children \union Reports(o) = UNION {Reports(c) : c \in O \union {o}}
  BY <1>1
<1> QED
  BY <1>4, <1>5 DEF NumbersOf

(* One more connection, in whatever state. *)
LEMMA InStateAdd ==
  ASSUME NEW O, IsFiniteSet(O), NEW o, o \notin O, NEW l
  PROVE  /\ Cardinality(InState(O, l)) \in Nat
         /\ Cardinality(InState(O \union {o}, l)) =
              IF Labels(module, o, o.state) = l THEN Cardinality(InState(O, l)) + 1
              ELSE Cardinality(InState(O, l))
<1>1. IsFiniteSet(InState(O, l))
  BY FS_Subset DEF InState
<1>2. Cardinality(InState(O, l)) \in Nat
  BY <1>1, FS_CardinalityType
<1>3. CASE Labels(module, o, o.state) = l
  <2>1. InState(O \union {o}, l) = InState(O, l) \union {o} /\ o \notin InState(O, l)
    BY <1>3 DEF InState
  <2> QED
    BY <1>1, <1>2, <1>3, <2>1, FS_AddElement
<1>4. CASE Labels(module, o, o.state) # l
  <2>1. InState(O \union {o}, l) = InState(O, l)
    BY <1>4 DEF InState
  <2> QED
    BY <1>2, <1>4, <2>1
<1> QED
  BY <1>3, <1>4

(* The amount of one more connection. *)
LEMMA AmountAdd ==
  ASSUME NEW O, IsFiniteSet(O), NEW o, o \notin O, NEW k,
         \A c \in O \union {o} : c.metrics[k] \in Nat \union {Missing}
  PROVE  /\ Amount(O, k) \in Nat
         /\ Amount(O \union {o}, k)
              = Amount(O, k) + (IF o.metrics[k] = Missing THEN 0 ELSE o.metrics[k])
<1> DEFINE P(T) == {c \in T : c.metrics[k] # Missing}
           f == [c \in P(O \union {o}) |-> c.metrics[k]]
<1>1. IsFiniteSet(O \union {o})
  BY FS_AddElement
<1>2. IsFiniteSet(P(O \union {o})) /\ IsFiniteSet(P(O)) /\ P(O) \subseteq P(O \union {o})
  BY <1>1, FS_Subset
<1>3. Amount(O \union {o}, k) = SumFunctionOnSet(f, P(O \union {o}))
  BY DEF Amount, SumFunction
<1>4. Amount(O, k) = SumFunctionOnSet(f, P(O))
  <2>1. Amount(O, k) = SumFunctionOnSet([c \in P(O) |-> c.metrics[k]], P(O))
    BY DEF Amount, SumFunction
  <2> QED
    BY <1>2, <2>1, SumSame
<1>5. \A c \in P(O \union {o}) : f[c] = c.metrics[k] /\ f[c] \in Nat
  OBVIOUS
<1>6. Amount(O, k) \in Nat
  <2> HIDE DEF f
  <2> QED
    BY <1>2, <1>4, <1>5, SumSplit
<1>7. ASSUME o.metrics[k] # Missing PROVE Amount(O \union {o}, k) = Amount(O, k) + o.metrics[k]
  <2>1. P(O \union {o}) = P(O) \union {o} /\ o \notin P(O)
    BY <1>7
  <2> HIDE DEF f, P
  <2>2. SumFunctionOnSet(f, P(O) \union {o}) = SumFunctionOnSet(f, P(O)) + f[o]
    BY <1>2, <1>5, <2>1, SumAdd
  <2> QED
    BY <1>3, <1>4, <1>5, <2>1, <2>2
<1>8. ASSUME o.metrics[k] = Missing PROVE Amount(O \union {o}, k) = Amount(O, k)
  <2>1. P(O \union {o}) = P(O)
    BY <1>8
  <2> HIDE DEF f, P
  <2> QED
    BY <1>3, <1>4, <2>1
<1> QED
  BY <1>6, <1>7, <1>8

(* Adding what one more connection makes keeps the counts right.           *)
LEMMA CountsAdd ==
  ASSUME module = "connections", NEW S, Valued(S), NEW O, IsFiniteSet(O), CountsOf(S, O),
         StatesOf(S, O), NEW o, o \notin O, Measured(o.metrics), \A c \in O : Measured(c.metrics)
  PROVE  CountsOf(Add(S, New(o, o.metrics)), O \union {o})
<1> DEFINE new == New(o, o.metrics)
           S2  == Add(S, new)
           n   == Sample(module, "state", o, o.state, Flag(module, o))
<1>0. module \in Modules /\ module \in WithState /\ Flag(module, o) = 1
  BY DEF Modules, WithState, Flag
<1>1. \A x \in new : IsSample(x) /\ x.value \in Nat
  BY NewShape
<1>2. \A x, y \in new : x.vec = y.vec => x = y
  BY <1>0, NewOne
<1>3. n \in new
  BY <1>0 DEF New, State
<1>4. n.vec = StateVec /\ n.labels = Labels(module, o, o.state) /\ n.value = 1
  BY <1>0, SampleShape DEF StateVec
<1>5. \A k \in Keys[module] : \A x \in new :
        x.vec = <<module, k>> => /\ k \notin Excluded /\ o.metrics[k] # Missing
                                 /\ x.value = o.metrics[k]
  BY <1>0, NewOne, SampleShape
<1>6. \A k \in Keys[module] : k \notin Excluded /\ o.metrics[k] # Missing =>
        \E x \in new : x.vec = <<module, k>>
  <2> SUFFICES ASSUME NEW k \in Keys[module], k \notin Excluded, o.metrics[k] # Missing
               PROVE  \E x \in new : x.vec = <<module, k>>
    OBVIOUS
  <2>1. Sample(module, k, o, NoLabel, o.metrics[k]) \in Numbers(module, o, o.metrics)
    BY DEF Numbers
  <2>2. Sample(module, k, o, NoLabel, o.metrics[k]).vec = <<module, k>>
    BY SampleShape
  <2> QED
    BY <2>1, <2>2 DEF New
<1> HIDE DEF n, new
<1>7. Unique(S2)
  <2>1. Unique(new) /\ Valued(new)
    BY <1>1, <1>2 DEF Unique, Valued, Same
  <2>2. Unique(S)
    BY DEF CountsOf
  <2> QED
    BY <1>1, <2>1, <2>2, AddKeeps
<1>8. ASSUME NEW k \in Keys[module]
      PROVE  /\ IsFiniteSet(VecOf(S2, <<module, k>>))
             /\ k \notin Excluded =>
                  Total(VecOf(S2, <<module, k>>)) = Amount(O \union {o}, k)
  <2>0. /\ IsFiniteSet(VecOf(S, <<module, k>>))
        /\ k \notin Excluded => Total(VecOf(S, <<module, k>>)) = Amount(O, k)
        /\ Unique(S)
    BY DEF CountsOf
  <2>1. /\ Amount(O, k) \in Nat
        /\ o.metrics[k] = Missing => Amount(O \union {o}, k) = Amount(O, k)
        /\ o.metrics[k] # Missing => Amount(O \union {o}, k) = Amount(O, k) + o.metrics[k]
    <3>1. \A c \in O \union {o} : c.metrics[k] \in Nat \union {Missing}
      BY DEF Measured
    <3>2. Amount(O, k) \in Nat
      BY <3>1, AmountAdd
    <3>3. Amount(O \union {o}, k)
            = Amount(O, k) + (IF o.metrics[k] = Missing THEN 0 ELSE o.metrics[k])
      BY <3>1, AmountAdd
    <3> QED
      BY <3>2, <3>3
  <2>2. CASE \E x \in new : x.vec = <<module, k>>
    <3>1. PICK x \in new : x.vec = <<module, k>>
      BY <2>2
    <3>2. \A y \in new : y.vec = <<module, k>> => y = x
      BY <1>2, <3>1
    <3>3. x.value = o.metrics[k] /\ o.metrics[k] # Missing /\ x.value \in Nat
      BY <1>1, <1>5, <3>1
    <3>4. /\ IsFiniteSet(VecOf(S2, <<module, k>>))
          /\ Total(VecOf(S2, <<module, k>>)) = Total(VecOf(S, <<module, k>>)) + x.value
      BY <1>1, <2>0, <3>1, <3>2, <3>3, AddOne
    <3> QED
      BY <2>0, <2>1, <3>3, <3>4
  <2>3. CASE \A x \in new : x.vec # <<module, k>>
    <3>1. VecOf(S2, <<module, k>>) = VecOf(S, <<module, k>>)
      BY <1>1, <2>3, AddNone
    <3>2. k \notin Excluded => o.metrics[k] = Missing
      BY <1>6, <2>3
    <3> QED
      BY <2>0, <2>1, <3>1, <3>2
  <2> QED
    BY <2>2, <2>3
<1>9. /\ IsFiniteSet(VecOf(S2, StateVec))
      /\ Total(VecOf(S2, StateVec)) = Cardinality(O \union {o})
      /\ \A h \in VecOf(S2, StateVec) : h.value = Cardinality(InState(O \union {o}, h.labels))
  <2> DEFINE V == VecOf(S, StateVec)
  <2>0. /\ IsFiniteSet(V) /\ Unique(S) /\ Total(V) = Cardinality(O)
        /\ \A s \in V : s.value = Cardinality(InState(O, s.labels))
    BY DEF CountsOf, StateVec
  <2>1. \A y \in new : y.vec = StateVec => y = n
    BY <1>2, <1>3, <1>4
  <2>2. /\ IsFiniteSet(VecOf(S2, StateVec))
        /\ Total(VecOf(S2, StateVec)) = Total(V) + n.value
        /\ \A h \in VecOf(S2, StateVec) :
             \/ h \in S /\ h.labels # n.labels
             \/ /\ h.labels = n.labels
                /\ \/ h.value = n.value /\ \A g \in V : g.labels # n.labels
                   \/ \E g \in V : g.labels = n.labels /\ h.value = n.value + g.value
    <3> HIDE DEF S2
    <3> QED
      BY <1>1, <1>3, <1>4, <2>0, <2>1, AddOne DEF S2
  <2>3. Cardinality(O \union {o}) = Cardinality(O) + 1
    BY FS_AddElement
  <2>4. ASSUME NEW h \in VecOf(S2, StateVec)
        PROVE  h.value = Cardinality(InState(O \union {o}, h.labels))
    <3>0. h.vec = StateVec
      BY DEF VecOf
    <3>1. CASE h \in S /\ h.labels # n.labels
      <4>1. h.value = Cardinality(InState(O, h.labels))
        BY <2>0, <3>0, <3>1 DEF VecOf
      <4> QED
        BY <1>4, <3>1, <4>1, InStateAdd
    <3>2. CASE h.labels = n.labels /\ h.value = n.value /\ \A g \in V : g.labels # n.labels
      <4>1. InState(O, h.labels) = {}
        <5>1. \A c \in O : Labels(module, c, c.state) \in {g.labels : g \in V}
          BY <1>0 DEF StatesOf
        <5> QED
          BY <3>2, <5>1 DEF InState
      <4>2. Cardinality(InState(O, h.labels)) = 0
        BY <4>1, FS_EmptySet
      <4> QED
        BY <1>4, <3>2, <4>2, InStateAdd
    <3>3. CASE h.labels = n.labels /\ \E g \in V : g.labels = n.labels /\ h.value = n.value + g.value
      <4>1. PICK g \in V : g.labels = n.labels /\ h.value = n.value + g.value
        BY <3>3
      <4>2. g.value = Cardinality(InState(O, h.labels))
        BY <2>0, <3>3, <4>1
      <4>3. /\ Cardinality(InState(O, h.labels)) \in Nat
            /\ Cardinality(InState(O \union {o}, h.labels)) = Cardinality(InState(O, h.labels)) + 1
        BY <1>4, <3>3, InStateAdd
      <4> QED
        BY <1>4, <4>1, <4>2, <4>3
    <3> QED
      BY <2>2, <3>1, <3>2, <3>3
  <2> QED
    BY <1>4, <2>0, <2>2, <2>3, <2>4
<1> QED
  <2> HIDE DEF S2
  <2>1. \A k \in Keys[module] \union {"state"} : IsFiniteSet(VecOf(S2, <<module, k>>))
    BY <1>8, <1>9 DEF StateVec
  <2>2. CountsOf(S2, O \union {o})
    BY <1>7, <1>8, <1>9, <2>1 DEF CountsOf
  <2> QED
    BY <2>2 DEF S2, new
----------------------------------------------------------------------------
(* The invariant                                                           *)

(* The objects the loop has reached, and what is to be sent. *)
Done == reply \ todo
Told == sent \union children

Base ==
  /\ module \in Modules
  /\ phase \in {"idle", "request", "loop"}
  /\ ctx \in Contexts
  /\ reply \in Replies[module] \union {{}}
  /\ todo \subseteq reply
  /\ outcome \in {"none", "error", "sent"}

Typed == \A s \in children \union sent : s.vec[1] = module /\ s.value \in Nat

(* Exchanges leave no children, the others send at the end only; nothing   *)
(* is left of the last scrape when the list has come. *)
Emptied ==
  /\ module = "exchange" => children = {}
  /\ phase = "request" => sent = {} /\ (module \in ResetFirst => children = {})
  /\ phase = "loop" /\ module # "exchange" => sent = {}
  /\ phase = "idle" => outcome = "sent" \/ sent = {}

(* In the loop the vectors tell of the objects reached; a report tells of  *)
(* all. *)
InLoop   == phase = "loop" => Tells(Told, Done)
Reported == Report => Tells(sent, reply)

IInv == Base /\ Typed /\ Emptied /\ InLoop /\ Reported

(* The invariant holds before the first scrape, and each action keeps it. *)
LEMMA InitInv == Init => IInv
BY DEF Init, IInv, Base, Typed, Emptied, InLoop, Reported, Report

(* What a set of samples tells depends on the module and the context only. *)
LEMMA SameTells ==
  ASSUME UNCHANGED <<module, ctx>>
  PROVE  /\ \A S, O : Tells(S, O)' <=> Tells(S, O)
         /\ \A o, metrics : New(o, metrics)' = New(o, metrics)
<1>1. \A m, o, state : Labels(m, o, state)' = Labels(m, o, state)
  BY DEF Labels, Self
<1>2. \A l, O : InState(O, l)' = InState(O, l)
  BY <1>1 DEF InState
<1>3. \A S, O : FromObjects(S, O)' <=> FromObjects(S, O)
  BY <1>1 DEF FromObjects
<1>4. \A S, O : NamesOf(S, O)' <=> NamesOf(S, O)
  BY DEF NamesOf
<1>9. \A m, k, o, state, v : Sample(m, k, o, state, v)' = Sample(m, k, o, state, v)
  BY <1>1 DEF Sample
<1>11. \A S, O : NumbersOf(S, O)' <=> NumbersOf(S, O)
  <2>1. \A o : Reports(o)' = Reports(o)
    BY <1>9 DEF Reports, Numbers, Kept
  <2> QED
    BY <2>1 DEF NumbersOf
<1>5. \A S, O : StatesOf(S, O)' <=> StatesOf(S, O)
  BY <1>1 DEF StatesOf, StateVec
<1>6. \A S, O : FlagsOf(S)' <=> FlagsOf(S)
  BY DEF FlagsOf, StateVec
<1>7. \A S, O : CountsOf(S, O)' <=> CountsOf(S, O)
  BY <1>2 DEF CountsOf, StateVec
<1>8. \A S, O : Tells(S, O)' <=> Tells(S, O)
  BY <1>3, <1>4, <1>5, <1>6, <1>7, <1>11 DEF Tells
<1>10. \A o, metrics : New(o, metrics)' = New(o, metrics)
  BY <1>9 DEF New, Numbers, State
<1> QED
  BY <1>8, <1>10

(* A scrape begins, with its vectors emptied or not. *)
LEMMA BeginInv ==
  ASSUME IInv, NEW c \in Contexts, Begin(c)
  PROVE  IInv'
<1>1. /\ phase' = "request" /\ sent' = {} /\ ctx' \in Contexts
      /\ UNCHANGED <<module, reply, todo, outcome>>
      /\ children' = IF module \in ResetFirst THEN {} ELSE children
  BY DEF Begin
<1> QED
  BY <1>1 DEF IInv, Base, Typed, Emptied, InLoop, Reported, Report

(* A scrape that ends early has sent nothing; an exchange never ends so in *)
(* the loop. *)
LEMMA StopInv ==
  ASSUME IInv, RequestFails \/ \E o \in todo : MemoryFails(o)
  PROVE  IInv'
<1>1. /\ phase' = "idle" /\ outcome' = "error" /\ sent = {}
      /\ UNCHANGED <<module, ctx, reply, todo, children, sent>>
  BY DEF RequestFails, MemoryFails, AfterMemoryError, End, IInv, Emptied
<1> QED
  BY <1>1 DEF IInv, Base, Typed, Emptied, InLoop, Reported, Report

(* The list came. *)
LEMMA ListInv ==
  ASSUME IInv, NEW objects \in Replies[module], List(objects)
  PROVE  IInv'
<1>1. /\ phase = "request" /\ phase' = "loop" /\ reply' = objects /\ todo' = objects
      /\ UNCHANGED <<module, ctx, sent, outcome>>
      /\ children' = IF module \in ResetOnReply THEN {} ELSE children
  BY DEF List
<1>2. sent' = {} /\ children' = {}
  BY <1>1 DEF IInv, Base, Emptied, ResetFirst, ResetOnReply, Modules
<1>3. Told' = {} /\ Done' = {}
  BY <1>1, <1>2 DEF Told, Done
<1>4. Tells(Told, Done)'
  <2>1. Tells({}, {})'
    BY <1>1, TellsNone, SameTells
  <2> QED
    BY <1>3, <2>1
<1> QED
  BY <1>1, <1>2, <1>4 DEF IInv, Base, Typed, Emptied, InLoop, Reported, Report

(* The objects reached are finitely many, and have numbers. *)
LEMMA ReplyFacts ==
  ASSUME IInv
  PROVE  /\ IsFiniteSet(reply) /\ IsFiniteSet(Done)
         /\ module # "memory" => \A o \in reply : Measured(o.metrics)
<1>1. IsFiniteSet(reply)
  BY ListRepliesAssumption, FS_EmptySet DEF IInv, Base
<1>2. IsFiniteSet(Done)
  BY <1>1, FS_Subset DEF Done
<1>3. module # "memory" => \A o \in reply : Measured(o.metrics)
  BY ListRepliesAssumption DEF IInv, Base, Measured
<1> QED
  BY <1>1, <1>2, <1>3

(* A node or an exchange that is yet to come has another name than those   *)
(* reached. *)
LEMMA OtherName ==
  ASSUME IInv, module \in {"node", "exchange"}, NEW o \in todo
  PROVE  \A c \in Done : c.vhost # o.vhost \/ c.name # o.name
<1>1. \A c, d \in reply : c.vhost = d.vhost /\ c.name = d.name => c = d
  BY ListRepliesAssumption DEF IInv, Base
<1>2. o \in reply /\ o \notin Done
  BY DEF IInv, Base, Done
<1> QED
  BY <1>1, <1>2 DEF Done

(* What a step over one object must do. *)
LEMMA ReachInv ==
  ASSUME IInv, NEW o \in todo, Reach(o), UNCHANGED <<module, phase, ctx, reply, outcome>>,
         Tells(Told', Done \union {o}), Typed', Emptied'
  PROVE  IInv'
<1>1. Base'
  BY DEF IInv, Base, Reach
<1>2. Done' = Done \union {o}
  BY DEF Reach, Done, IInv, Base
<1>3. InLoop'
  <2>1. Tells(Told', Done')
    BY <1>2
  <2>2. Tells(Told, Done)'
    BY <2>1, SameTells
  <2> QED
    BY <2>2 DEF InLoop
<1>4. Reported'
  BY DEF Reach, Reported, Report
<1> QED
  BY <1>1, <1>3, <1>4 DEF IInv

(* One connection is added. *)
LEMMA AggregateInv ==
  ASSUME IInv, NEW o \in todo, Aggregate(o)
  PROVE  IInv'
<1> DEFINE new == New(o, o.metrics)
<1>1. /\ module = "connections" /\ Reach(o) /\ phase = "loop" /\ o \in reply /\ o \notin Done
      /\ UNCHANGED <<module, phase, ctx, reply, outcome, sent>>
      /\ children' = Add(children, new)
  BY DEF Aggregate, Reach, New, Done, IInv, Base
<1>2. sent = {} /\ Told = children /\ Told' = children'
  BY <1>1 DEF IInv, Emptied, Told
<1>3. Measured(o.metrics) /\ \A c \in Done : Measured(c.metrics)
  BY <1>1, ReplyFacts DEF Done
<1>4. Tells(children, Done)
  BY <1>1, <1>2 DEF IInv, InLoop
<1>5. Valued(children) /\ Unique(children)
  BY <1>1, <1>4 DEF IInv, Typed, Valued, Tells, CountsOf
<1>6. \A n \in new : IsSample(n) /\ n.value \in Nat /\ n.vec[1] = module
  BY <1>3, NewShape
<1>7. Joined(children, new, children')
  BY <1>1, <1>6, AddJoins
<1>8. Valued(children') /\ Unique(children')
  <2>1. \A m, n \in new : m.vec = n.vec => m = n
    BY <1>3, NewOne DEF IInv, Base
  <2>2. Unique(new) /\ Valued(new)
    BY <1>6, <2>1 DEF Unique, Valued, Same
  <2> QED
    BY <1>1, <1>5, <1>6, <2>2, AddKeeps
<1>9. Typed'
  <2>1. \A h \in children' : h.vec[1] = module
    BY <1>6, <1>7 DEF Joined, Same, IInv, Typed
  <2> QED
    BY <1>1, <1>2, <1>8, <2>1 DEF Typed, Valued
<1>10. Tells(Told', Done \union {o})
  <2>1. FromObjects(children', Done \union {o}) /\ NamesOf(children', Done \union {o})
        /\ StatesOf(children', Done \union {o})
    BY <1>1, <1>3, <1>4, <1>7, JoinedTells DEF Tells, IInv, Base
  <2>2. CountsOf(children', Done \union {o})
    BY <1>1, <1>3, <1>4, <1>5, ReplyFacts, CountsAdd DEF Tells
  <2>3. FlagsOf(children') /\ NumbersOf(children', Done \union {o})
    BY <1>1 DEF FlagsOf, NumbersOf
  <2> QED
    BY <1>2, <2>1, <2>2, <2>3 DEF Tells
<1>11. Emptied'
  BY <1>1 DEF IInv, Emptied
<1> QED
  BY <1>1, <1>9, <1>10, <1>11, ReachInv

(* The modules that set their samples, from the list or from a reply per   *)
(* node. *)
LEMMA SetInv ==
  ASSUME IInv, NEW o \in todo, NEW metrics, Reach(o), Measured(metrics),
         module \notin {"connections", "exchange"},
         IF module = "memory" THEN metrics \in MemoryReplies ELSE metrics = o.metrics,
         children' = Set(children, New(o, metrics)),
         UNCHANGED <<module, phase, ctx, reply, sent, outcome>>
  PROVE  IInv'
<1> DEFINE new == New(o, metrics)
<1>1. phase = "loop" /\ o \in reply
  BY DEF Reach, IInv, Base
<1>2. sent = {} /\ Told = children /\ Told' = children'
  BY <1>1 DEF IInv, Emptied, Told
<1>3. Tells(children, Done)
  BY <1>1, <1>2 DEF IInv, InLoop
<1>4. \A n \in new : IsSample(n) /\ n.value \in Nat /\ n.vec[1] = module
  BY NewShape
<1>5. Joined(children, new, children')
  BY SetJoins
<1>6. Typed'
  <2>1. \A h \in children' : h \in children \/ h \in new
    BY DEF Set
  <2> HIDE DEF new
  <2> QED
    BY <1>2, <1>4, <2>1 DEF IInv, Typed
<1>7. Tells(Told', Done \union {o})
  <2>1. FromObjects(children', Done \union {o}) /\ NamesOf(children', Done \union {o})
        /\ StatesOf(children', Done \union {o})
    BY <1>3, <1>5, JoinedTells DEF Tells, IInv, Base
  <2>2. FlagsOf(children')
    BY <1>3, SetFlags DEF Tells, IInv, Base
  <2>3. CountsOf(children', Done \union {o})
    BY DEF CountsOf
  <2>4. CASE module = "node"
    <3>1. \A c \in Done : c.vhost # o.vhost \/ c.name # o.name
      BY <1>1, <2>4, OtherName
    <3>2. NumbersOf(children, Done) /\ metrics = o.metrics
      BY <1>3, <2>4 DEF Tells
    <3>3. NumbersOf(Set(children, New(o, o.metrics)), Done \union {o})
      BY <2>4, <3>1, <3>2, SetNumbers
    <3>4. NumbersOf(children', Done \union {o})
      BY <3>2, <3>3
    <3> QED
      BY <1>2, <2>1, <2>2, <2>3, <3>4 DEF Tells
  <2>5. CASE module # "node"
    <3>1. NumbersOf(children', Done \union {o})
      BY <2>5 DEF NumbersOf
    <3> QED
      BY <1>2, <2>1, <2>2, <2>3, <3>1 DEF Tells
  <2> QED
    BY <2>4, <2>5
<1>8. Emptied'
  BY <1>1 DEF IInv, Emptied
<1> QED
  BY <1>6, <1>7, <1>8, ReachInv

(* One object of the modules that set. *)
LEMMA SetEachInv ==
  ASSUME IInv, NEW o \in todo, SetEach(o)
  PROVE  IInv'
<1>1. /\ module \notin {"connections", "exchange", "memory"} /\ Reach(o) /\ o \in reply
      /\ children' = Set(children, New(o, o.metrics))
      /\ UNCHANGED <<module, phase, ctx, reply, sent, outcome>>
  BY DEF SetEach, New, IInv, Base
<1>2. Measured(o.metrics)
  BY <1>1, ReplyFacts
<1> QED
  BY <1>1, <1>2, SetInv

(* The memory of one node. *)
LEMMA MemoryInv ==
  ASSUME IInv, NEW o \in todo, NEW metrics \in MemoryReplies, Memory(o, metrics)
  PROVE  IInv'
<1>1. /\ module = "memory" /\ Reach(o)
      /\ children' = Set(children, Numbers(module, o, metrics))
      /\ UNCHANGED <<module, phase, ctx, reply, sent, outcome>>
  BY DEF Memory
<1>2. New(o, metrics) = Numbers(module, o, metrics)
  BY <1>1 DEF New, State, WithState
<1>3. Measured(metrics)
  BY <1>1, ListRepliesAssumption DEF Measured
<1> QED
  BY <1>1, <1>2, <1>3, SetInv

(* One exchange, sent at once. *)
LEMMA SendConstInv ==
  ASSUME IInv, NEW o \in todo, SendConst(o)
  PROVE  IInv'
<1> DEFINE new == IF Kept(o) THEN Numbers(module, o, o.metrics) ELSE {}
<1>1. /\ module = "exchange" /\ Reach(o) /\ phase = "loop" /\ o \in reply
      /\ UNCHANGED <<module, phase, ctx, reply, children, outcome>>
      /\ sent' = sent \union new
  BY DEF SendConst, Reach, IInv, Base
<1>2. children = {} /\ Told = sent /\ Told' = sent'
  BY <1>1 DEF IInv, Emptied, Told
<1>3. Measured(o.metrics)
  BY <1>1, ReplyFacts
<1>4. ASSUME NEW n \in new
      PROVE  /\ n.value \in Nat /\ n.vec[1] = module
             /\ n.labels = Labels(module, o, NoLabel) /\ Kept(o)
  <2>1. n \in Numbers(module, o, o.metrics) /\ Kept(o)
    OBVIOUS
  <2>2. PICK k \in Keys[module] : n = Sample(module, k, o, NoLabel, o.metrics[k])
    BY <2>1 DEF Numbers
  <2>3. n.labels = Labels(module, o, NoLabel)
    BY <2>2, SampleShape
  <2>4. n.value \in Nat /\ n.vec[1] = module
    BY <1>3, <2>1, NewShape DEF New
  <2> QED
    BY <2>1, <2>3, <2>4
<1> HIDE DEF new
<1>5. Typed'
  BY <1>1, <1>4 DEF IInv, Typed
<1>6. Tells(Told', Done \union {o})
  <2>1. FromObjects(sent, Done)
    BY <1>1, <1>2 DEF IInv, InLoop, Tells
  <2>2. FromObjects(sent', Done \union {o})
    BY <1>1, <1>4, <2>1 DEF FromObjects
  <2>3. sent = UNION {Reports(c) : c \in Done}
    BY <1>1, <1>2 DEF IInv, InLoop, Tells, NumbersOf
  <2>4. new = Reports(o)
    BY <1>1 DEF new, Reports
  <2>5. sent' = UNION {Reports(c) : c \in Done \union {o}}
    BY <1>1, <2>3, <2>4
  <2>6. NumbersOf(sent', Done \union {o})
    BY <2>5 DEF NumbersOf
  <2> QED
    BY <1>1, <1>2, <2>2, <2>6 DEF Tells, NamesOf, StatesOf, FlagsOf, CountsOf, WithState
<1>7. Emptied'
  BY <1>1, <1>2 DEF IInv, Emptied
<1> QED
  BY <1>1, <1>5, <1>6, <1>7, ReachInv

(* All children are sent. *)
LEMMA SendInv ==
  ASSUME IInv, SendAll
  PROVE  IInv'
<1>1. /\ phase = "loop" /\ phase' = "idle" /\ outcome' = "sent" /\ todo = {}
      /\ UNCHANGED <<module, ctx, reply, todo, children>>
      /\ sent' = Told
  BY DEF SendAll, End, Told
<1>2. Done = reply
  BY <1>1 DEF Done
<1>3. Reported'
  <2>1. Tells(sent', reply')
    BY <1>1, <1>2 DEF IInv, InLoop
  <2>2. Tells(sent, reply)'
    BY <1>1, <2>1, SameTells
  <2> QED
    BY <2>2 DEF Reported
<1>5. Typed'
  BY <1>1 DEF IInv, Typed, Told
<1> QED
  BY <1>1, <1>3, <1>5 DEF IInv, Base, Emptied, InLoop

(* Nothing happens. *)
LEMMA StutterInv ==
  ASSUME IInv, UNCHANGED vars
  PROVE  IInv'
<1>1. InLoop'
  <2>1. phase' = "loop" => Tells(Told', Done')
    BY DEF vars, IInv, InLoop, Told, Done
  <2>2. phase' = "loop" => Tells(Told, Done)'
    BY <2>1, SameTells DEF vars
  <2> QED
    BY <2>2 DEF InLoop
<1>2. Reported'
  <2>1. Report' => Tells(sent', reply')
    BY DEF vars, IInv, Reported, Report
  <2>2. Report' => Tells(sent, reply)'
    BY <2>1, SameTells DEF vars
  <2> QED
    BY <2>2 DEF Reported
<1> QED
  BY <1>1, <1>2 DEF vars, IInv, Base, Typed, Emptied

(* IInv holds in every reachable state. *)
THEOREM ListInvariance == Spec => []IInv
<1>1. ASSUME IInv, [Next]_vars PROVE IInv'
  <2>1. CASE \E o \in todo : Aggregate(o) \/ SetEach(o) \/ SendConst(o) \/ MemoryFails(o)
    BY <1>1, <2>1, AggregateInv, SetEachInv, SendConstInv, StopInv
  <2>2. CASE \E o \in todo, metrics \in MemoryReplies : Memory(o, metrics)
    BY <1>1, <2>2, MemoryInv
  <2>3. CASE (\E c \in Contexts : Begin(c)) \/ RequestFails \/ SendAll \/ UNCHANGED vars
    BY <1>1, <2>3, BeginInv, StopInv, SendInv, StutterInv
  <2>4. CASE \E objects \in Replies[module] : List(objects)
    BY <1>1, <2>4, ListInv
  <2> QED
    BY <1>1, <2>1, <2>2, <2>3, <2>4 DEF Next
<1> QED
  BY <1>1, InitInv, PTL DEF Spec
----------------------------------------------------------------------------
(* Every variable stays in its domain, and no missing number is sent. *)
THEOREM TypeCorrect == Spec => []TypeOK
<1>1. IInv => TypeOK
  BY DEF IInv, Base, Typed, TypeOK
<1> QED
  BY <1>1, ListInvariance, PTL

(* Every sample of a report is about an object of its own reply. *)
THEOREM ThisReply == Spec => []OnlyThisReply
<1>1. IInv => OnlyThisReply
  BY DEF IInv, Reported, Tells, FromObjects, OnlyThisReply
<1> QED
  BY <1>1, ListInvariance, PTL

(* Nodes and exchanges are told with the numbers of this reply, and with   *)
(* no other. *)
THEOREM AllNumbers == Spec => []NumbersTold
<1>1. ASSUME IInv, Report, module \in {"node", "exchange"}, NEW o \in reply,
             NEW k \in Keys[module] \ Excluded,
             NEW told, told = {s \in Of(module, k) : s.labels.vhost = o.vhost
                                                   /\ s.labels.name = o.name}
      PROVE  /\ told # {} <=> o.metrics[k] # Missing /\ (module = "exchange" => Kept(o))
             /\ \A s, t \in told : s = t
             /\ \A s \in told : s.value = o.metrics[k]
  <2> DEFINE s0 == Sample(module, k, o, NoLabel, o.metrics[k])
  <2>1. sent = UNION {Reports(c) : c \in reply}
    BY <1>1 DEF IInv, Reported, Tells, NumbersOf
  <2>2. \A c \in reply : c.vhost = o.vhost /\ c.name = o.name => c = o
    BY <1>1, ListRepliesAssumption DEF IInv, Base
  <2>3. s0.vec = <<module, k>> /\ s0.value = o.metrics[k]
        /\ s0.labels.vhost = o.vhost /\ s0.labels.name = o.name
    BY SampleShape, LabelShape
  <2>4. ASSUME NEW s \in told
        PROVE  s = s0 /\ o.metrics[k] # Missing /\ (module = "exchange" => Kept(o))
    <3>1. /\ s \in sent /\ s.vec = <<module, k>>
          /\ s.labels.vhost = o.vhost /\ s.labels.name = o.name
      BY <1>1 DEF Of
    <3>2. PICK c \in reply : s \in Reports(c)
      BY <2>1, <3>1
    <3>3. s.labels.vhost = c.vhost /\ s.labels.name = c.name
      BY <3>2, ReportsShape
    <3>4. s \in Reports(o)
      BY <2>2, <3>1, <3>2, <3>3
    <3>5. PICK j \in Keys[module] \ Excluded :
            o.metrics[j] # Missing /\ s.vec = <<module, j>>
            /\ s = Sample(module, j, o, NoLabel, o.metrics[j])
      BY <3>4, ReportsShape
    <3>6. j = k
      BY <3>1, <3>5
    <3> QED
      BY <3>4, <3>5, <3>6, ReportsShape
  <2>5. ASSUME o.metrics[k] # Missing, module = "exchange" => Kept(o)
        PROVE  s0 \in told
    <3>1. s0 \in Reports(o)
      BY <2>5 DEF Reports, Numbers
    <3>2. s0 \in Of(module, k)
      BY <2>1, <2>3, <3>1 DEF Of
    <3> QED
      BY <1>1, <2>3, <3>2
  <2> HIDE DEF s0
  <2>6. \A s \in told : s = s0
    BY <2>4
  <2>7. told # {} <=> o.metrics[k] # Missing /\ (module = "exchange" => Kept(o))
    BY <2>4, <2>5
  <2> QED
    BY <2>3, <2>6, <2>7
<1>2. IInv => NumbersTold
  BY <1>1 DEF NumbersTold
<1> QED
  BY <1>2, ListInvariance, PTL

(* Memory is reported for all nodes or for none. *)
THEOREM AllNodes == Spec => []MemoryOfAllNodes
<1>1. IInv => MemoryOfAllNodes
  BY DEF IInv, Reported, Tells, NamesOf, MemoryOfAllNodes
<1> QED
  BY <1>1, ListInvariance, PTL

(* A report shows the states of its reply, no more and no less. *)
THEOREM AllStates == Spec => []StatesTold
<1>1. Of(module, "state") = VecOf(sent, StateVec)
  BY DEF Of, VecOf, StateVec
<1>2. IInv => StatesTold
  BY <1>1 DEF IInv, Reported, Tells, StatesOf, FlagsOf, StatesTold
<1> QED
  BY <1>2, ListInvariance, PTL

(* Connections are counted, each once. *)
THEOREM Counted == Spec => []ConnectionsCounted
<1>1. Of(module, "state") = VecOf(sent, StateVec)
  BY DEF Of, VecOf, StateVec
<1>2. IInv => ConnectionsCounted
  BY <1>1 DEF IInv, Reported, Tells, CountsOf, InState, ConnectionsCounted
<1> QED
  BY <1>2, ListInvariance, PTL

(* Their traffic is neither lost nor counted twice. *)
THEOREM Conserved == Spec => []TrafficConserved
<1>1. \A k : Of(module, k) = VecOf(sent, <<module, k>>)
  BY DEF Of, VecOf
<1>2. IInv => TrafficConserved
  BY <1>1 DEF IInv, Reported, Tells, CountsOf, Amount, TrafficConserved
<1> QED
  BY <1>2, ListInvariance, PTL
=============================================================================
