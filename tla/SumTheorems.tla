------------------------------ MODULE SumTheorems ------------------------------
(***************************************************************************)
(* What sums over finite sets are, for the modules whose figures are sums   *)
(* (meters, hours, invoices, bookings, the statement).                      *)
(*                                                                         *)
(* MapThenSumSet takes the elements one after another, in an order that is   *)
(* not told.  What it gives is the one function that is zero on nothing and  *)
(* grows by an element's number with each element (Adds); that there is one  *)
(* such function and no other, and what follows for parts, subsets and       *)
(* sorts, is shown of a smallest set for which it fails (SmallestSet).       *)
(***************************************************************************)
EXTENDS Integers, FiniteSets, FiniteSetsExt, FiniteSetTheorems, WellFoundedInduction, TLAPS

\* g adds up q over the subsets of U.
Adds(g, U, q) ==
    /\ g \in [SUBSET U -> Int] /\ g[{}] = 0
    /\ \A s \in SUBSET U, x \in U : x \notin s => g[s \cup {x}] = q[x] + g[s]

\* f takes one element after another.
Unfolds(f, U, q) ==
    \A s \in SUBSET U : f[s] = IF s = {} THEN 0 ELSE LET x == CHOOSE y \in s : TRUE IN q[x] + f[s \ {x}]

LEMMA SmallestSet ==
  ASSUME NEW U, IsFiniteSet(U), NEW C \in SUBSET SUBSET U, C # {}
  PROVE  \E s \in C : \A t \in C : t \subseteq s => t = s
  <1> DEFINE R == StrictSubsetOrdering(U)
  <1>1. IsWellFoundedOn(R, SUBSET U)  BY FS_StrictSubsetOrderingWellFounded, FS_FiniteSubsetsOfFinite
  <1>2. PICK s \in C : \A t \in C : ~ (<<t, s>> \in R)  BY <1>1, WFMin
  <1>3. \A t \in C : t \subseteq s => t = s  BY <1>2 DEF StrictSubsetOrdering
  <1> QED BY <1>3

LEMMA SumExists ==
  ASSUME NEW U, IsFiniteSet(U), NEW q, \A x \in U : q[x] \in Int  PROVE \E g : Adds(g, U, q)
  <1> DEFINE C == {V \in SUBSET U : ~ \E g : Adds(g, V, q)}
  <1>1. SUFFICES ASSUME C # {} PROVE FALSE  BY <1>1
  <1>2. PICK V \in C : \A W \in C : W \subseteq V => W = V
    <2>1. C \in SUBSET SUBSET U  OBVIOUS
    <2> HIDE DEF C
    <2> QED BY <1>1, <2>1, SmallestSet
  <1>3. V \in SUBSET U /\ ~ \E g : Adds(g, V, q)  BY <1>2
  <1>4. V # {}
    <2>1. Adds([s \in {{}} |-> 0], {}, q)  BY DEF Adds
    <2> QED BY <1>3, <2>1
  <1>5. PICK a \in V : TRUE  BY <1>4
  <1>6. V \ {a} \notin C /\ V \ {a} \in SUBSET U  BY <1>2, <1>3, <1>5
  <1>7. PICK h : Adds(h, V \ {a}, q)  BY <1>6
  <1> DEFINE g == [s \in SUBSET V |-> IF a \in s THEN q[a] + h[s \ {a}] ELSE h[s]]
  <1>8. \A s \in SUBSET V : /\ a \in s => g[s] = q[a] + h[s \ {a}]
                            /\ a \notin s => g[s] = h[s]  OBVIOUS
  <1>9. g \in [SUBSET V -> Int]
    <2>1. \A s \in SUBSET V : s \ {a} \in SUBSET (V \ {a}) /\ (a \notin s => s \in SUBSET (V \ {a}))
      OBVIOUS
    <2>2. \A s \in SUBSET V : (IF a \in s THEN q[a] + h[s \ {a}] ELSE h[s]) \in Int
      BY <1>3, <1>7, <2>1 DEF Adds
    <2> QED BY <2>2
  <1>10. g[{}] = 0  BY <1>7 DEF Adds
  <1> HIDE DEF g
  <1>11. ASSUME NEW s \in SUBSET V, NEW x \in V, x \notin s PROVE g[s \cup {x}] = q[x] + g[s]
    <2>1. CASE x = a
      <3>1. (s \cup {x}) \ {a} = s /\ s \cup {x} \in SUBSET V /\ a \notin s  BY <1>11, <2>1
      <3> QED BY <1>8, <2>1, <3>1
    <2>2. CASE x # a /\ a \in s
      <3>1. (s \cup {x}) \ {a} = (s \ {a}) \cup {x} /\ s \cup {x} \in SUBSET V  BY <2>2
      <3>2. s \ {a} \in SUBSET (V \ {a}) /\ x \in V \ {a} /\ x \notin s \ {a}  BY <1>11, <2>2
      <3>3. h[(s \ {a}) \cup {x}] = q[x] + h[s \ {a}]  BY <1>7, <3>2 DEF Adds
      <3>4. q[x] \in Int /\ q[a] \in Int /\ h[s \ {a}] \in Int  BY <1>3, <1>7, <3>2 DEF Adds
      <3>5. g[s \cup {x}] = q[a] + h[(s \ {a}) \cup {x}] /\ g[s] = q[a] + h[s \ {a}]  BY <1>8, <2>2, <3>1
      <3>6. g[s \cup {x}] = q[a] + (q[x] + h[s \ {a}])  BY <3>3, <3>5
      <3> QED BY <3>4, <3>5, <3>6
    <2>3. CASE x # a /\ a \notin s
      <3>1. s \in SUBSET (V \ {a}) /\ x \in V \ {a} /\ s \cup {x} \in SUBSET V /\ a \notin s \cup {x}
        BY <2>3
      <3> QED BY <1>7, <1>8, <1>11, <2>3, <3>1 DEF Adds
    <2> QED BY <2>1, <2>2, <2>3
  <1>12. Adds(g, V, q)  BY <1>9, <1>10, <1>11 DEF Adds
  <1> QED BY <1>3, <1>12

\* What is folded in any order is the sum.
LEMMA FoldedIsSum ==
  ASSUME NEW U, IsFiniteSet(U), NEW q, \A x \in U : q[x] \in Int, NEW g, Adds(g, U, q), NEW f, Unfolds(f, U, q)
  PROVE  \A s \in SUBSET U : f[s] = g[s]
  <1> DEFINE C == {V \in SUBSET U : f[V] # g[V]}
  <1>1. SUFFICES ASSUME C # {} PROVE FALSE  BY <1>1
  <1>2. PICK V \in C : \A W \in C : W \subseteq V => W = V
    <2>1. C \in SUBSET SUBSET U  OBVIOUS
    <2> HIDE DEF C
    <2> QED BY <1>1, <2>1, SmallestSet
  <1>3. V \in SUBSET U /\ f[V] # g[V] /\ V # {}
    <2>1. V \in SUBSET U /\ f[V] # g[V]  BY <1>2
    <2>2. f[{}] = 0 /\ g[{}] = 0  BY DEF Adds, Unfolds
    <2> QED BY <2>1, <2>2
  <1>4. PICK x : x = CHOOSE y \in V : TRUE  OBVIOUS
  <1>5. x \in V  BY <1>3, <1>4
  <1>6. f[V] = q[x] + f[V \ {x}]  BY <1>3, <1>4 DEF Unfolds
  <1>7. f[V \ {x}] = g[V \ {x}]  BY <1>2, <1>3, <1>5
  <1>8. g[(V \ {x}) \cup {x}] = q[x] + g[V \ {x}]  BY <1>3, <1>5 DEF Adds
  <1>9. (V \ {x}) \cup {x} = V  BY <1>5
  <1> QED BY <1>3, <1>6, <1>7, <1>8, <1>9

\* A sum has one value.
LEMMA SumsAgree ==
  ASSUME NEW U, IsFiniteSet(U), NEW q, NEW g, Adds(g, U, q), NEW r, NEW h, Adds(h, U, r),
      \A x \in U : q[x] = r[x]
  PROVE  \A s \in SUBSET U : g[s] = h[s]
  <1> DEFINE C == {V \in SUBSET U : g[V] # h[V]}
  <1>1. SUFFICES ASSUME C # {} PROVE FALSE  BY <1>1
  <1>2. PICK V \in C : \A W \in C : W \subseteq V => W = V
    <2>1. C \in SUBSET SUBSET U  OBVIOUS
    <2> HIDE DEF C
    <2> QED BY <1>1, <2>1, SmallestSet
  <1>3. V \in SUBSET U /\ g[V] # h[V]  BY <1>2
  <1>4. V # {}  BY <1>3 DEF Adds
  <1>5. PICK x \in V : TRUE  BY <1>4
  <1>6. g[V \ {x}] = h[V \ {x}]  BY <1>2, <1>3, <1>5
  <1>7. (V \ {x}) \cup {x} = V /\ V \ {x} \in SUBSET U /\ x \in U /\ x \notin V \ {x}  BY <1>3, <1>5
  <1>8. g[(V \ {x}) \cup {x}] = q[x] + g[V \ {x}] /\ h[(V \ {x}) \cup {x}] = r[x] + h[V \ {x}]
    BY <1>7 DEF Adds
  <1> QED BY <1>3, <1>6, <1>7, <1>8

\* What q comes to over U.
Sum(q, U) == (CHOOSE g : Adds(g, U, q))[U]

LEMMA SumOfSubsets ==
  ASSUME NEW U, IsFiniteSet(U), NEW q, \A x \in U : q[x] \in Int
  PROVE  \E g : Adds(g, U, q) /\ \A s \in SUBSET U : Sum(q, s) = g[s]
  <1>1. PICK g : Adds(g, U, q)  BY SumExists
  <1>2. ASSUME NEW s \in SUBSET U PROVE Sum(q, s) = g[s]
    <2>1. IsFiniteSet(s) /\ \A x \in s : q[x] \in Int  BY FS_Subset
    <2>2. \E h : Adds(h, s, q)  BY <2>1, SumExists
    <2>3. PICK h : h = CHOOSE h0 : Adds(h0, s, q)  OBVIOUS
    <2>4. Adds(h, s, q)  BY <2>2, <2>3, Zenon
    <2>5. PICK f : f = [t \in SUBSET s |-> g[t]]  OBVIOUS
    <2>6. Adds(f, s, q)
      <3>1. \A t \in SUBSET s : t \in SUBSET U /\ f[t] = g[t] /\ g[t] \in Int  BY <1>1, <2>5 DEF Adds
      <3>2. f \in [SUBSET s -> Int] /\ f[{}] = 0  BY <1>1, <2>5, <3>1 DEF Adds
      <3>3. ASSUME NEW t \in SUBSET s, NEW x \in s, x \notin t PROVE f[t \cup {x}] = q[x] + f[t]
        <4>1. t \cup {x} \in SUBSET s  OBVIOUS
        <4>2. g[t \cup {x}] = q[x] + g[t]  BY <1>1, <3>1, <3>3 DEF Adds
        <4> QED BY <3>1, <4>1, <4>2
      <3> QED BY <3>2, <3>3 DEF Adds
    <2>7. h[s] = f[s]  BY <2>1, <2>4, <2>6, SumsAgree
    <2>8. Sum(q, s) = h[s]  BY <2>3 DEF Sum
    <2> QED BY <2>5, <2>7, <2>8
  <1> QED BY <1>1, <1>2

LEMMA SumRules ==
  ASSUME NEW U, IsFiniteSet(U), NEW q, \A x \in U : q[x] \in Int
  PROVE  /\ Sum(q, {}) = 0
         /\ \A s \in SUBSET U : Sum(q, s) \in Int
         /\ \A s \in SUBSET U, x \in U : x \notin s => Sum(q, s \cup {x}) = q[x] + Sum(q, s)
         /\ \A s \in SUBSET U, x \in U : x \in s => Sum(q, s) = q[x] + Sum(q, s \ {x})
  <1>1. PICK g : Adds(g, U, q) /\ \A s \in SUBSET U : Sum(q, s) = g[s]  BY SumOfSubsets
  <1>2. Sum(q, {}) = 0 /\ \A s \in SUBSET U : Sum(q, s) \in Int  BY <1>1 DEF Adds
  <1>3. ASSUME NEW s \in SUBSET U, NEW x \in U, x \notin s PROVE Sum(q, s \cup {x}) = q[x] + Sum(q, s)
    <2>1. s \cup {x} \in SUBSET U  OBVIOUS
    <2> QED BY <1>1, <1>3, <2>1 DEF Adds
  <1>4. ASSUME NEW s \in SUBSET U, NEW x \in U, x \in s PROVE Sum(q, s) = q[x] + Sum(q, s \ {x})
    <2>1. s \ {x} \in SUBSET U /\ x \notin s \ {x} /\ (s \ {x}) \cup {x} = s  BY <1>4
    <2>2. Sum(q, (s \ {x}) \cup {x}) = q[x] + Sum(q, s \ {x})  BY <1>3, <2>1
    <2> QED BY <2>1, <2>2
  <1> QED BY <1>2, <1>3, <1>4

\* A sum depends on what is added up.
LEMMA SumSame ==
  ASSUME NEW U, IsFiniteSet(U), NEW q, NEW r, \A x \in U : q[x] \in Int, \A x \in U : q[x] = r[x]
  PROVE  Sum(q, U) = Sum(r, U)
  <1>1. \A x \in U : r[x] \in Int  OBVIOUS
  <1>2. PICK g : Adds(g, U, q) /\ \A s \in SUBSET U : Sum(q, s) = g[s]  BY SumOfSubsets
  <1>3. PICK h : Adds(h, U, r) /\ \A s \in SUBSET U : Sum(r, s) = h[s]  BY <1>1, SumOfSubsets
  <1>4. \A s \in SUBSET U : g[s] = h[s]  BY <1>2, <1>3, SumsAgree
  <1>5. U \in SUBSET U  OBVIOUS
  <1> QED BY <1>2, <1>3, <1>4, <1>5

\* Two parts add up to the whole.
LEMMA SumOfParts ==
  ASSUME NEW A, NEW B, IsFiniteSet(A), IsFiniteSet(B), A \cap B = {}, NEW q, \A x \in A \cup B : q[x] \in Int
  PROVE  Sum(q, A \cup B) = Sum(q, A) + Sum(q, B)
  <1>1. IsFiniteSet(A \cup B)  BY FS_Union
  <1>2. PICK g : Adds(g, A \cup B, q) /\ \A s \in SUBSET (A \cup B) : Sum(q, s) = g[s]
    BY <1>1, SumOfSubsets
  <1> DEFINE C == {V \in SUBSET B : g[A \cup V] # g[A] + g[V]}
  <1>3. C = {}
    <2> SUFFICES ASSUME C # {} PROVE FALSE  OBVIOUS
    <2>1. PICK V \in C : \A W \in C : W \subseteq V => W = V
      <3>1. C \in SUBSET SUBSET B /\ C # {}  OBVIOUS
      <3> HIDE DEF C
      <3> QED BY <3>1, SmallestSet
    <2>2. V \in SUBSET B /\ g[A \cup V] # g[A] + g[V]  BY <2>1
    <2>3. g[A] \in Int /\ g[{}] = 0  BY <1>2 DEF Adds
    <2>4. V # {}
      <3> SUFFICES ASSUME V = {} PROVE FALSE  OBVIOUS
      <3>1. A \cup V = A /\ g[A \cup V] = g[A] /\ g[V] = 0  BY <2>3
      <3>2. g[A] + 0 = g[A]  BY <2>3
      <3> QED BY <2>2, <3>1, <3>2
    <2>5. PICK x \in V : TRUE  BY <2>4
    <2>6. g[A \cup (V \ {x})] = g[A] + g[V \ {x}]  BY <2>1, <2>2, <2>5
    <2>7. /\ (V \ {x}) \cup {x} = V /\ V \ {x} \in SUBSET (A \cup B) /\ x \in A \cup B /\ x \notin V \ {x}
          /\ (A \cup (V \ {x})) \cup {x} = A \cup V /\ A \cup (V \ {x}) \in SUBSET (A \cup B)
          /\ x \notin A \cup (V \ {x})  BY <2>2, <2>5
    <2>8. /\ g[(V \ {x}) \cup {x}] = q[x] + g[V \ {x}]
          /\ g[(A \cup (V \ {x})) \cup {x}] = q[x] + g[A \cup (V \ {x})]
          /\ g[V \ {x}] \in Int /\ q[x] \in Int  BY <1>2, <2>7 DEF Adds
    <2>9. g[V] = q[x] + g[V \ {x}] /\ g[A \cup V] = q[x] + (g[A] + g[V \ {x}])  BY <2>6, <2>7, <2>8
    <2> QED BY <2>2, <2>3, <2>8, <2>9
  <1>4. g[A \cup B] = g[A] + g[B]  BY <1>3
  <1>5. A \in SUBSET (A \cup B) /\ B \in SUBSET (A \cup B) /\ A \cup B \in SUBSET (A \cup B)  OBVIOUS
  <1> QED BY <1>2, <1>4, <1>5

\* What is never negative does not add up to less than nothing.
LEMMA SumNatural ==
  ASSUME NEW U, IsFiniteSet(U), NEW q, \A x \in U : q[x] \in Nat  PROVE Sum(q, U) \in Nat
  <1>1. \A x \in U : q[x] \in Int  OBVIOUS
  <1>2. PICK g : Adds(g, U, q) /\ \A s \in SUBSET U : Sum(q, s) = g[s]  BY <1>1, SumOfSubsets
  <1> DEFINE C == {V \in SUBSET U : g[V] \notin Nat}
  <1>3. C = {}
    <2> SUFFICES ASSUME C # {} PROVE FALSE  OBVIOUS
    <2>1. PICK V \in C : \A W \in C : W \subseteq V => W = V
      <3>1. C \in SUBSET SUBSET U /\ C # {}  OBVIOUS
      <3> HIDE DEF C
      <3> QED BY <3>1, SmallestSet
    <2>2. V \in SUBSET U /\ g[V] \notin Nat  BY <2>1
    <2>3. V # {}
      <3>1. g[{}] = 0  BY <1>2 DEF Adds
      <3> SUFFICES ASSUME V = {} PROVE FALSE  OBVIOUS
      <3> QED BY <2>2, <3>1
    <2>4. PICK x \in V : TRUE  BY <2>3
    <2>5. g[V \ {x}] \in Nat  BY <2>1, <2>2, <2>4
    <2>6. (V \ {x}) \cup {x} = V /\ V \ {x} \in SUBSET U /\ x \in U /\ x \notin V \ {x}  BY <2>2, <2>4
    <2>7. g[(V \ {x}) \cup {x}] = q[x] + g[V \ {x}]  BY <1>2, <2>6 DEF Adds
    <2>8. g[V] = q[x] + g[V \ {x}] /\ q[x] \in Nat  BY <2>6, <2>7
    <2> QED BY <2>2, <2>5, <2>8
  <1>4. U \in SUBSET U  OBVIOUS
  <1> QED BY <1>2, <1>3, <1>4

\* What the library's fold gives.
LEMMA FoldIsSum ==
  ASSUME NEW U, IsFiniteSet(U), NEW q, \A x \in U : q[x] \in Int
  PROVE  MapThenSumSet(LAMBDA z : q[z], U) = Sum(q, U)
  <1>0. PICK g : Adds(g, U, q) /\ \A s \in SUBSET U : Sum(q, s) = g[s]  BY SumOfSubsets
  <1> DEFINE P(f) == f = [s \in SUBSET U |-> IF s = {} THEN 0
      ELSE LET x == CHOOSE y \in s : TRUE IN q[x] + f[s \ {x}]]
  <1>1. P(g)
    <2>1. \A s \in SUBSET U : g[s] = IF s = {} THEN 0
        ELSE LET x == CHOOSE y \in s : TRUE IN q[x] + g[s \ {x}]
      <3> SUFFICES ASSUME NEW s \in SUBSET U, s # {}, NEW x, x = CHOOSE y \in s : TRUE
          PROVE  g[s] = q[x] + g[s \ {x}]  BY <1>0 DEF Adds
      <3>1. x \in s /\ (s \ {x}) \cup {x} = s  OBVIOUS
      <3> QED BY <1>0, <3>1 DEF Adds
    <2>2. g = [s \in SUBSET U |-> g[s]]  BY <1>0 DEF Adds
    <2> QED BY <2>1, <2>2
  <1>2. P(CHOOSE e : P(e))  BY <1>1
  <1>3. PICK f : f = CHOOSE e : P(e)  OBVIOUS
  <1>4. f[U] = g[U]
    <2>1. P(f)  BY <1>2, <1>3
    <2>2. Unfolds(f, U, q)  BY <2>1 DEF Unfolds
    <2>3. \A s \in SUBSET U : f[s] = g[s]  BY <1>0, <2>2, FoldedIsSum
    <2>4. U \in SUBSET U  OBVIOUS
    <2> QED BY <2>3, <2>4
  <1>5. MapThenSumSet(LAMBDA z : q[z], U) = f[U]  BY <1>3 DEF MapThenSumSet, MapThenFoldSet
  <1>6. U \in SUBSET U  OBVIOUS
  <1> QED BY <1>0, <1>4, <1>5, <1>6

\* What is added up part by part.
BySort(U, q, sort, V, r) ==
    /\ IsFiniteSet(U) /\ IsFiniteSet(V)
    /\ \A u \in U : q[u] \in Int /\ sort[u] \in V
    /\ \A v \in V : r[v] = Sum(q, {u \in U : sort[u] = v})

LEMMA SumBySorts ==
  ASSUME NEW U, NEW q, NEW sort, NEW V, NEW r, BySort(U, q, sort, V, r)
  PROVE  Sum(r, V) = Sum(q, U)
  <1>a. /\ IsFiniteSet(U) /\ IsFiniteSet(V)
        /\ \A u \in U : q[u] \in Int /\ sort[u] \in V
        /\ \A v \in V : r[v] = Sum(q, {u \in U : sort[u] = v})  BY DEF BySort
  <1> DEFINE Of(W) == {u \in U : sort[u] \in W}
  <1>0. \A W : IsFiniteSet(Of(W)) /\ Of(W) \in SUBSET U  BY <1>a, FS_Subset
  <1>1. PICK g : Adds(g, U, q) /\ \A S \in SUBSET U : Sum(q, S) = g[S]  BY <1>a, SumOfSubsets
  <1>2. \A v \in V : r[v] \in Int
    <2>1. \A v \in V : {u \in U : sort[u] = v} \in SUBSET U  OBVIOUS
    <2> QED BY <1>a, <1>1, <2>1 DEF Adds
  <1>3. PICK h : Adds(h, V, r) /\ \A S \in SUBSET V : Sum(r, S) = h[S]  BY <1>a, <1>2, SumOfSubsets
  <1> DEFINE C == {W \in SUBSET V : h[W] # g[Of(W)]}
  <1>4. C = {}
    <2> SUFFICES ASSUME C # {} PROVE FALSE  OBVIOUS
    <2>1. PICK W \in C : \A X \in C : X \subseteq W => X = W
      <3>1. C \in SUBSET SUBSET V /\ C # {}  OBVIOUS
      <3> HIDE DEF C
      <3> QED BY <1>a, <3>1, SmallestSet
    <2>2. W \in SUBSET V /\ h[W] # g[Of(W)]  BY <2>1
    <2>3. W # {}
      <3>1. Of({}) = {}  OBVIOUS
      <3>2. h[{}] = 0 /\ g[{}] = 0  BY <1>1, <1>3 DEF Adds
      <3> SUFFICES ASSUME W = {} PROVE FALSE  OBVIOUS
      <3> QED BY <2>2, <3>1, <3>2
    <2>4. PICK x \in W : TRUE  BY <2>3
    <2>5. h[W \ {x}] = g[Of(W \ {x})]  BY <2>1, <2>2, <2>4
    <2>6. h[W] = r[x] + h[W \ {x}]
      <3>1. (W \ {x}) \cup {x} = W /\ W \ {x} \in SUBSET V /\ x \in V /\ x \notin W \ {x}  BY <2>2, <2>4
      <3>2. h[(W \ {x}) \cup {x}] = r[x] + h[W \ {x}]  BY <1>3, <3>1 DEF Adds
      <3> QED BY <3>1, <3>2
    <2>7. PICK A : A = {u \in U : sort[u] = x}  OBVIOUS
    <2>8. PICK B : B = Of(W \ {x})  OBVIOUS
    <2>9. /\ A \in SUBSET U /\ B \in SUBSET U /\ A \cap B = {} /\ Of(W) = A \cup B
          /\ IsFiniteSet(A) /\ IsFiniteSet(B)
      <3>1. Of(W) = A \cup B  BY <2>2, <2>4, <2>7, <2>8
      <3>2. A \in SUBSET U /\ B \in SUBSET U /\ A \cap B = {}  BY <2>7, <2>8
      <3> QED BY <1>a, <3>1, <3>2, FS_Subset
    <2>10. Sum(q, A \cup B) = Sum(q, A) + Sum(q, B)
      <3>1. \A u \in A \cup B : q[u] \in Int  BY <1>a, <2>9
      <3> QED BY <2>9, <3>1, SumOfParts
    <2>11. g[A \cup B] = r[x] + g[B]
      <3>1. A \cup B \in SUBSET U  BY <2>9
      <3>2. Sum(q, A) = r[x]  BY <1>a, <2>2, <2>4, <2>7
      <3> QED BY <1>1, <2>9, <2>10, <3>1, <3>2
    <2> HIDE DEF Of
    <2> QED BY <2>2, <2>5, <2>6, <2>8, <2>9, <2>11
  <1>5. h[V] = g[Of(V)]  BY <1>4
  <1>6. Of(V) = U /\ V \in SUBSET V /\ U \in SUBSET U  BY <1>a
  <1> HIDE DEF Of
  <1> QED BY <1>1, <1>3, <1>5, <1>6

LEMMA SumOne ==
  ASSUME NEW x, NEW q, q[x] \in Int  PROVE Sum(q, {x}) = q[x]
  <1>1. IsFiniteSet({x}) /\ \A y \in {x} : q[y] \in Int  BY FS_Singleton
  <1>2. Sum(q, {}) = 0 /\ \A s \in SUBSET {x}, y \in {x} : y \notin s => Sum(q, s \cup {y}) = q[y] + Sum(q, s)
    BY <1>1, SumRules
  <1>3. {} \cup {x} = {x} /\ {} \in SUBSET {x} /\ x \in {x} /\ x \notin {}  OBVIOUS
  <1>4. Sum(q, {} \cup {x}) = q[x] + Sum(q, {})  BY <1>2, <1>3
  <1> QED BY <1>2, <1>3, <1>4

\* Nothing and nothing is nothing.
LEMMA SumOfNothing ==
  ASSUME NEW U, IsFiniteSet(U), NEW q, \A x \in U : q[x] = 0  PROVE Sum(q, U) = 0
  <1>1. \A x \in U : q[x] \in Int  OBVIOUS
  <1>2. PICK g : Adds(g, U, q) /\ \A s \in SUBSET U : Sum(q, s) = g[s]  BY <1>1, SumOfSubsets
  <1> DEFINE C == {V \in SUBSET U : g[V] # 0}
  <1>3. C = {}
    <2> SUFFICES ASSUME C # {} PROVE FALSE  OBVIOUS
    <2>1. PICK V \in C : \A W \in C : W \subseteq V => W = V
      <3>1. C \in SUBSET SUBSET U /\ C # {}  OBVIOUS
      <3> HIDE DEF C
      <3> QED BY <3>1, SmallestSet
    <2>2. V \in SUBSET U /\ g[V] # 0  BY <2>1
    <2>3. V # {}
      <3>1. g[{}] = 0  BY <1>2 DEF Adds
      <3> SUFFICES ASSUME V = {} PROVE FALSE  OBVIOUS
      <3> QED BY <2>2, <3>1
    <2>4. PICK x \in V : TRUE  BY <2>3
    <2>5. g[V \ {x}] = 0  BY <2>1, <2>2, <2>4
    <2>6. (V \ {x}) \cup {x} = V /\ V \ {x} \in SUBSET U /\ x \in U /\ x \notin V \ {x}  BY <2>2, <2>4
    <2>7. g[(V \ {x}) \cup {x}] = q[x] + g[V \ {x}]  BY <1>2, <2>6 DEF Adds
    <2> QED BY <2>2, <2>5, <2>6, <2>7
  <1>4. U \in SUBSET U  OBVIOUS
  <1> QED BY <1>2, <1>3, <1>4

\* What is nothing need not be added.
LEMMA SumOfTheRest ==
  ASSUME NEW A, NEW B, IsFiniteSet(B), A \subseteq B, NEW q, \A x \in A : q[x] \in Int, \A x \in B \ A : q[x] = 0
  PROVE  Sum(q, B) = Sum(q, A) /\ Sum(q, A) \in Int
  <1>1. IsFiniteSet(A) /\ IsFiniteSet(B \ A)  BY FS_Subset
  <1>2. Sum(q, B \ A) = 0  BY <1>1, SumOfNothing
  <1>3. A \cup (B \ A) = B /\ A \cap (B \ A) = {}  OBVIOUS
  <1>4. \A x \in A \cup (B \ A) : q[x] \in Int  OBVIOUS
  <1>5. Sum(q, A \cup (B \ A)) = Sum(q, A) + Sum(q, B \ A)  BY <1>1, <1>3, <1>4, SumOfParts
  <1>6. Sum(q, A) \in Int
    <2>1. \A x \in A : q[x] \in Int  OBVIOUS
    <2>2. PICK g : Adds(g, A, q) /\ \A s \in SUBSET A : Sum(q, s) = g[s]  BY <1>1, <2>1, SumOfSubsets
    <2>3. A \in SUBSET A  OBVIOUS
    <2> QED BY <2>2, <2>3 DEF Adds
  <1> QED BY <1>2, <1>3, <1>5, <1>6

\* A finite set and at most two more.
LEMMA FewMore ==
  ASSUME NEW A, NEW B, NEW x, NEW y, IsFiniteSet(A), B \subseteq A \cup {x, y}
  PROVE  IsFiniteSet(B)
  <1>1. IsFiniteSet(A \cup {x}) /\ IsFiniteSet((A \cup {x}) \cup {y})
    <2>1. IsFiniteSet(A \cup {x})  BY FS_AddElement
    <2> QED BY <2>1, FS_AddElement
  <1>2. B \subseteq (A \cup {x}) \cup {y}  OBVIOUS
  <1> QED BY <1>1, <1>2, FS_Subset

\* What there is one of for each of finitely many is finite.
LEMMA FiniteImage ==
  ASSUME NEW U, IsFiniteSet(U), NEW f  PROVE IsFiniteSet({f[u] : u \in U})
  <1> DEFINE T == {f[u] : u \in U}
      g == [u \in U |-> f[u]]
  <1>1. g \in Surjection(U, T)  BY DEF Surjection
  <1> HIDE DEF T, g
  <1>2. IsFiniteSet(T)  BY <1>1, FS_Surjection
  <1> QED BY <1>2 DEF T

\* As many times the same.
LEMMA SumOfTheSame ==
  ASSUME NEW U, IsFiniteSet(U), NEW k \in Int, NEW q, \A u \in U : q[u] = k
  PROVE  Sum(q, U) = Cardinality(U) * k
  <1>0. \A u \in U : q[u] \in Int  OBVIOUS
  <1>1. PICK g : Adds(g, U, q) /\ \A s \in SUBSET U : Sum(q, s) = g[s]  BY <1>0, SumOfSubsets
  <1>2. PICK h : h = [s \in SUBSET U |-> Cardinality(s) * k]  OBVIOUS
  <1>3. \A s \in SUBSET U : IsFiniteSet(s) /\ Cardinality(s) \in Nat /\ h[s] = Cardinality(s) * k
    BY <1>2, FS_Subset, FS_CardinalityType
  <1>4. h[{}] = 0
    <2>1. Cardinality({}) = 0 /\ {} \in SUBSET U  BY FS_EmptySet
    <2> QED BY <1>3, <2>1
  <1>5. ASSUME NEW s \in SUBSET U, NEW x \in U, x \notin s PROVE h[s \cup {x}] = q[x] + h[s]
    <2>1. Cardinality(s \cup {x}) = Cardinality(s) + 1  BY <1>3, <1>5, FS_AddElement
    <2>2. s \cup {x} \in SUBSET U  OBVIOUS
    <2>3. (Cardinality(s) + 1) * k = k + Cardinality(s) * k  BY <1>3
    <2> QED BY <1>3, <2>1, <2>2, <2>3
  <1>6. Adds(h, U, q)
    <2>1. \A s \in SUBSET U : Cardinality(s) * k \in Int  BY <1>3
    <2>2. h \in [SUBSET U -> Int]  BY <1>2, <2>1
    <2> QED BY <1>4, <1>5, <2>2 DEF Adds
  <1>7. \A s \in SUBSET U : g[s] = h[s]  BY <1>1, <1>6, SumsAgree
  <1>8. U \in SUBSET U  OBVIOUS
  <1> QED BY <1>1, <1>3, <1>7, <1>8

\* Rows first or columns first.
LEMMA SumsSwap ==
  ASSUME NEW C, NEW D, IsFiniteSet(C), IsFiniteSet(D), NEW x, \A c \in C, d \in D : x[c][d] \in Int
  PROVE  /\ Sum([c \in C |-> Sum(x[c], D)], C) = Sum([d \in D |-> Sum([c \in C |-> x[c][d]], C)], D)
         /\ \A c \in C : Sum(x[c], D) \in Int
         /\ \A d \in D : Sum([c \in C |-> x[c][d]], C) \in Int
  <1>1. PICK U, q : U = C \X D /\ q = [u \in U |-> x[u[1]][u[2]]]  OBVIOUS
  <1>2. IsFiniteSet(U) /\ \A u \in U : q[u] \in Int /\ u[1] \in C /\ u[2] \in D  BY <1>1, FS_Product
  <1>3. PICK left, right : left = [u \in U |-> u[1]] /\ right = [u \in U |-> u[2]]  OBVIOUS
  <1>4. PICK r, s : /\ r = [c \in C |-> Sum(q, {u \in U : left[u] = c})]
                    /\ s = [d \in D |-> Sum(q, {u \in U : right[u] = d})]  OBVIOUS
  <1>5. Sum(r, C) = Sum(q, U)
    <2>1. BySort(U, q, left, C, r)  BY <1>2, <1>3, <1>4 DEF BySort
    <2> QED BY <2>1, SumBySorts
  <1>6. Sum(s, D) = Sum(q, U)
    <2>1. BySort(U, q, right, D, s)  BY <1>2, <1>3, <1>4 DEF BySort
    <2> QED BY <2>1, SumBySorts
  <1>7. ASSUME NEW c \in C PROVE r[c] = Sum(x[c], D) /\ Sum(x[c], D) \in Int
    <2>1. PICK V : V = {u \in U : left[u] = c}  OBVIOUS
    <2>2. IsFiniteSet(V) /\ \A u \in V : q[u] \in Int /\ right[u] \in D  BY <1>2, <1>3, <2>1, FS_Subset
    <2>3. ASSUME NEW d \in D PROVE x[c][d] = Sum(q, {u \in V : right[u] = d})
      <3>1. <<c, d>> \in V /\ q[<<c, d>>] = x[c][d] /\ {u \in V : right[u] = d} = {<<c, d>>}
        BY <1>1, <1>3, <2>1
      <3>2. Sum(q, {<<c, d>>}) = q[<<c, d>>]  BY <2>2, <3>1, SumOne
      <3> QED BY <3>1, <3>2
    <2>4. BySort(V, q, right, D, x[c])  BY <2>2, <2>3 DEF BySort
    <2>5. Sum(x[c], D) = Sum(q, V)  BY <2>4, SumBySorts
    <2>6. \A t \in SUBSET U : Sum(q, t) \in Int  BY <1>2, SumRules
    <2> QED BY <1>4, <2>1, <2>5, <2>6
  <1>8. ASSUME NEW d \in D
      PROVE  s[d] = Sum([c \in C |-> x[c][d]], C) /\ Sum([c \in C |-> x[c][d]], C) \in Int
    <2>0. PICK y : y = [c \in C |-> x[c][d]]  OBVIOUS
    <2>1. PICK V : V = {u \in U : right[u] = d}  OBVIOUS
    <2>2. IsFiniteSet(V) /\ \A u \in V : q[u] \in Int /\ left[u] \in C  BY <1>2, <1>3, <2>1, FS_Subset
    <2>3. ASSUME NEW c \in C PROVE y[c] = Sum(q, {u \in V : left[u] = c})
      <3>1. <<c, d>> \in V /\ q[<<c, d>>] = y[c] /\ {u \in V : left[u] = c} = {<<c, d>>}
        BY <1>1, <1>3, <2>0, <2>1
      <3>2. Sum(q, {<<c, d>>}) = q[<<c, d>>]  BY <2>2, <3>1, SumOne
      <3> QED BY <3>1, <3>2
    <2>4. BySort(V, q, left, C, y)  BY <2>2, <2>3 DEF BySort
    <2>5. Sum(y, C) = Sum(q, V)  BY <2>4, SumBySorts
    <2>6. \A t \in SUBSET U : Sum(q, t) \in Int  BY <1>2, SumRules
    <2> QED BY <1>4, <2>0, <2>1, <2>5, <2>6
  <1>9. r = [c \in C |-> Sum(x[c], D)]  BY <1>4, <1>7
  <1>10. s = [d \in D |-> Sum([c \in C |-> x[c][d]], C)]  BY <1>4, <1>8
  <1> QED BY <1>5, <1>6, <1>7, <1>8, <1>9, <1>10

\* Sums differ by no more than their parts altogether.
LEMMA SumsClose ==
  ASSUME NEW U, IsFiniteSet(U), NEW q, NEW r, NEW t, NEW k \in Int, NEW m \in Int,
      \A x \in U : q[x] \in Int /\ r[x] \in Int /\ t[x] \in Int,
      \A x \in U : -t[x] <= k * q[x] - m * r[x] /\ k * q[x] - m * r[x] <= t[x]
  PROVE  -Sum(t, U) <= k * Sum(q, U) - m * Sum(r, U) /\ k * Sum(q, U) - m * Sum(r, U) <= Sum(t, U)
  <1> DEFINE Near(V) == /\ -Sum(t, V) <= k * Sum(q, V) - m * Sum(r, V)
                        /\ k * Sum(q, V) - m * Sum(r, V) <= Sum(t, V)
             C == {V \in SUBSET U : ~Near(V)}
  <1>1. SUFFICES ASSUME C # {} PROVE FALSE
    <2>1. U \in SUBSET U  OBVIOUS
    <2> QED BY <2>1
  <1>2. PICK V \in C : \A W \in C : W \subseteq V => W = V
    <2>1. C \in SUBSET SUBSET U  OBVIOUS
    <2> HIDE DEF C
    <2> QED BY <1>1, <2>1, SmallestSet
  <1>3. /\ Sum(q, {}) = 0 /\ Sum(r, {}) = 0 /\ Sum(t, {}) = 0
        /\ \A s \in SUBSET U : Sum(q, s) \in Int /\ Sum(r, s) \in Int /\ Sum(t, s) \in Int
        /\ \A s \in SUBSET U, x \in U : x \in s =>
              /\ Sum(q, s) = q[x] + Sum(q, s \ {x})
              /\ Sum(r, s) = r[x] + Sum(r, s \ {x})
              /\ Sum(t, s) = t[x] + Sum(t, s \ {x})
    <2>1. (\A x \in U : q[x] \in Int) /\ (\A x \in U : r[x] \in Int) /\ (\A x \in U : t[x] \in Int)
      OBVIOUS
    <2>2. /\ Sum(q, {}) = 0 /\ \A s \in SUBSET U : Sum(q, s) \in Int
          /\ \A s \in SUBSET U, x \in U : x \in s => Sum(q, s) = q[x] + Sum(q, s \ {x})  BY <2>1, SumRules
    <2>3. /\ Sum(r, {}) = 0 /\ \A s \in SUBSET U : Sum(r, s) \in Int
          /\ \A s \in SUBSET U, x \in U : x \in s => Sum(r, s) = r[x] + Sum(r, s \ {x})  BY <2>1, SumRules
    <2>4. /\ Sum(t, {}) = 0 /\ \A s \in SUBSET U : Sum(t, s) \in Int
          /\ \A s \in SUBSET U, x \in U : x \in s => Sum(t, s) = t[x] + Sum(t, s \ {x})  BY <2>1, SumRules
    <2> QED BY <2>2, <2>3, <2>4
  <1>4. V \in SUBSET U /\ ~Near(V)  BY <1>2
  <1>5. V # {}
    <2>1. k * 0 - m * 0 = 0  OBVIOUS
    <2>2. Near({})  BY <1>3, <2>1
    <2> QED BY <1>4, <2>2
  <1>6. PICK x \in V : TRUE  BY <1>5
  <1>7. V \ {x} \in SUBSET U /\ V \ {x} \notin C  BY <1>2, <1>4, <1>6
  <1>8. Near(V \ {x})  BY <1>7
  <1>9. PICK a, b, c : a = Sum(q, V \ {x}) /\ b = Sum(r, V \ {x}) /\ c = Sum(t, V \ {x})  OBVIOUS
  <1>10. /\ a \in Int /\ b \in Int /\ c \in Int /\ x \in U
         /\ Sum(q, V) = q[x] + a /\ Sum(r, V) = r[x] + b /\ Sum(t, V) = t[x] + c
    BY <1>3, <1>4, <1>6, <1>7, <1>9
  <1>11. -c <= k * a - m * b /\ k * a - m * b <= c  BY <1>8, <1>9
  <1>12. -t[x] <= k * q[x] - m * r[x] /\ k * q[x] - m * r[x] <= t[x] /\ q[x] \in Int /\ r[x] \in Int /\ t[x] \in Int
    BY <1>10
  <1>13. k * (q[x] + a) = k * q[x] + k * a /\ m * (r[x] + b) = m * r[x] + m * b  BY <1>10, <1>12
  <1>14. PICK ka, mb, kq, mr : ka = k * a /\ mb = m * b /\ kq = k * q[x] /\ mr = m * r[x]  OBVIOUS
  <1>15. ka \in Int /\ mb \in Int /\ kq \in Int /\ mr \in Int  BY <1>10, <1>12, <1>14
  <1>16. k * Sum(q, V) - m * Sum(r, V) = kq + ka - (mr + mb)  BY <1>10, <1>13, <1>14
  <1>17. -Sum(t, V) <= k * Sum(q, V) - m * Sum(r, V) /\ k * Sum(q, V) - m * Sum(r, V) <= Sum(t, V)
    BY <1>10, <1>11, <1>12, <1>14, <1>15, <1>16
  <1> QED BY <1>4, <1>17
=============================================================================
