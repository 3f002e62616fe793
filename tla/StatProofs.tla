----------------------------- MODULE StatProofs -----------------------------
(***************************************************************************)
(* The statistics of kt_stat, for a list of any length and strings of any  *)
(* lengths.                                                                *)
(*                                                                         *)
(* kb_scan stays within the array that was sized by count and fills it.    *)
(* The invariant behind it says how far kb_scan is: the elements before    *)
(* idx are the lengths of the first strings, and ptr is at the next node.  *)
(*                                                                         *)
(* ds_med, ds_max and ds_min are folds over the array.  A fold is a        *)
(* recursion over the subsets of a finite set; that it exists and what it  *)
(* computes are inductions over them, made from the fact that a set of     *)
(* natural numbers that is not empty has a least element.                  *)
(***************************************************************************)
EXTENDS DsStat, PartsProofs, FiniteSetTheorems

(* The folds of the statistics.  Facts about them are inductions over the  *)
(* set that is folded.                                                     *)

(* A set of natural numbers that is not empty has a least element. *)
LEMMA Least ==
  ASSUME NEW T, T \subseteq Nat, T # {}
  PROVE  \E n \in T : \A m \in T : n <= m
<1>1. PICK n \in T : \A m \in T : ~ (<<m, n>> \in OpToRel(<, Nat))
  BY NatLessThanWellFounded, WFMin, Zenon
<1>2. \A m \in T : <<m, n>> \in OpToRel(<, Nat) <=> m < n
  BY DEF OpToRel
<1>3. \A m \in T : ~ (m < n)
  BY <1>1, <1>2, Zenon
<1>4. \A m \in T : n <= m
  BY <1>3
<1> QED BY <1>4

(* Induction, for a set of numbers: the theorems of the library take a     *)
(* predicate as a parameter, a set does as well.                           *)
LEMMA NatSet ==
  ASSUME NEW G, 0 \in G, \A n \in Nat : n \in G => n + 1 \in G
  PROVE  \A n \in Nat : n \in G
<1> SUFFICES ASSUME Nat \ G # {} PROVE FALSE
  OBVIOUS
<1>1. PICK n \in Nat \ G : \A m \in Nat \ G : n <= m
  BY Least, Zenon
<1>2. n # 0 /\ n - 1 \in Nat
  BY <1>1
<1>3. n - 1 \in G
  BY <1>1, <1>2
<1>4. n - 1 + 1 \in G
  BY <1>2, <1>3
<1> QED BY <1>1, <1>4

(* What taking an element out of a finite set does to its size. *)
LEMMA Sizes ==
  ASSUME NEW S, IsFiniteSet(S), NEW s \in SUBSET S
  PROVE  /\ IsFiniteSet(s) /\ Cardinality(s) \in Nat
         /\ Cardinality(s) <= Cardinality(S)
         /\ (s = {}) <=> (Cardinality(s) = 0)
         /\ \A x \in s : Cardinality(s \ {x}) = Cardinality(s) - 1
<1>1. IsFiniteSet(s) /\ Cardinality(s) <= Cardinality(S)
  BY FS_Subset
<1>2. Cardinality(s) \in Nat
  BY <1>1, FS_CardinalityType
<1>3. (s = {}) <=> (Cardinality(s) = 0)
  BY <1>1, FS_EmptySet, Zenon
<1>4. \A x \in s : Cardinality(s \ {x}) = Cardinality(s) - 1
  BY <1>1, FS_RemoveElement
<1> QED BY <1>1, <1>2, <1>3, <1>4

(* The same for the subsets of a finite set. *)
LEMMA SubsetSet ==
  ASSUME NEW S, IsFiniteSet(S), NEW G, {} \in G,
         \A s \in SUBSET S : (s # {} /\ \A x \in s : s \ {x} \in G) => s \in G
  PROVE  \A s \in SUBSET S : s \in G
<1> DEFINE N == {n \in Nat : \A s \in SUBSET S : Cardinality(s) = n => s \in G}
<1>1. 0 \in N
  BY Sizes, Zenon DEF N
<1>2. ASSUME NEW n \in Nat, n \in N PROVE n + 1 \in N
  <2> SUFFICES ASSUME NEW s \in SUBSET S, Cardinality(s) = n + 1 PROVE s \in G
    OBVIOUS
  <2>1. s # {} /\ \A x \in s : Cardinality(s \ {x}) = n
    BY Sizes
  <2>2. \A x \in s : s \ {x} \in SUBSET S
    OBVIOUS
  <2> QED BY <1>2, <2>1, <2>2
<1> HIDE DEF N
<1>3. \A n \in Nat : n \in N
  BY <1>1, <1>2, NatSet
<1>4. \A s \in SUBSET S : Cardinality(s) \in Nat
  BY Sizes
<1> QED BY <1>3, <1>4 DEF N

Pick(s) == CHOOSE x \in s : TRUE

(* What MapThenFoldSet defines: a function on the subsets of S, each value *)
(* from the value at the set without one element.                          *)
FoldOn(f, S, T, base, step) ==
  /\ f \in [SUBSET S -> T]
  /\ \A s \in SUBSET S : f[s] = IF s = {} THEN base ELSE step[<<Pick(s), f[s \ {Pick(s)}]>>]

(* It exists if S is finite. *)
LEMMA FoldExists ==
  ASSUME NEW S, IsFiniteSet(S), NEW T, NEW base \in T, NEW step \in [S \X T -> T]
  PROVE  \E f : FoldOn(f, S, T, base, step)
<1> DEFINE Upto(n) == {s \in SUBSET S : Cardinality(s) <= n}
           Value(f, s) == IF s = {} THEN base ELSE step[<<Pick(s), f[s \ {Pick(s)}]>>]
           G == {n \in Nat : \E f \in [Upto(n) -> T] : \A s \in Upto(n) : f[s] = Value(f, s)}
<1>1. \A s \in SUBSET S : s # {} => /\ Pick(s) \in s
                                    /\ s \ {Pick(s)} \in SUBSET S
                                    /\ Cardinality(s \ {Pick(s)}) = Cardinality(s) - 1
  BY Sizes, Zenon DEF Pick
<1>2. \A s \in SUBSET S : Cardinality(s) \in Nat /\ Cardinality(s) <= Cardinality(S)
  BY Sizes
<1>3. 0 \in G
  <2>1. \A s \in Upto(0) : s = {}
    BY <1>2, Sizes
  <2>2. [s \in Upto(0) |-> base] \in [Upto(0) -> T]
    OBVIOUS
  <2>3. \A s \in Upto(0) : [u \in Upto(0) |-> base][s] = Value([u \in Upto(0) |-> base], s)
    BY <2>1
  <2> QED BY <2>2, <2>3, Zenon
<1>4. ASSUME NEW n \in Nat, n \in G PROVE n + 1 \in G
  <2>1. PICK f \in [Upto(n) -> T] : \A s \in Upto(n) : f[s] = Value(f, s)
    BY <1>4, Zenon
  <2> DEFINE g == [s \in Upto(n + 1) |-> IF s \in Upto(n) THEN f[s] ELSE Value(f, s)]
  <2>2. \A s \in Upto(n + 1) : s # {} => s \ {Pick(s)} \in Upto(n) /\ Pick(s) \in S
    BY <1>1, <1>2
  <2>3. \A s \in Upto(n) : s \in Upto(n + 1)
    BY <1>2
  <2>4. \A s \in Upto(n + 1) : g[s] = Value(f, s)
    BY <2>1
  <2>5. \A s \in Upto(n + 1) : Value(f, s) \in T
    BY <2>2
  <2>6. \A s \in Upto(n) : g[s] = f[s]
    BY <2>3
  <2> HIDE DEF Upto, g
  <2>7. \A s \in Upto(n + 1) : Value(g, s) = Value(f, s)
    <3>1. \A s \in Upto(n + 1) : s # {} => g[s \ {Pick(s)}] = f[s \ {Pick(s)}]
      BY <2>2, <2>6, Zenon
    <3> QED BY <3>1, Zenon
  <2> HIDE DEF Value
  <2>8. g \in [Upto(n + 1) -> T]
    BY <2>4, <2>5 DEF g
  <2>9. \A s \in Upto(n + 1) : g[s] = Value(g, s)
    BY <2>4, <2>7
  <2>10. n + 1 \in Nat
    OBVIOUS
  <2> QED BY <2>8, <2>9, <2>10, Zenon DEF G
<1> HIDE DEF G
<1>5. Cardinality(S) \in G
  BY <1>2, <1>3, <1>4, NatSet
<1>6. Upto(Cardinality(S)) = SUBSET S
  BY <1>2
<1> HIDE DEF Upto, Value
<1>7. PICK f \in [Upto(Cardinality(S)) -> T] :
        \A s \in Upto(Cardinality(S)) : f[s] = Value(f, s)
  BY <1>5 DEF G
<1> QED BY <1>6, <1>7 DEF Value, FoldOn

SumOf(fun) == FoldFunction(Plus, 0, fun)

(* The sums of a function over the subsets of its domain, whatever element *)
(* is added last.                                                          *)
Sums(g, D, fun) ==
  /\ g \in [SUBSET D -> Nat]
  /\ g[{}] = 0
  /\ \A s \in SUBSET D : \A x \in s : g[s] = fun[x] + g[s \ {x}]

(* The fold computes them: it does not depend on the order in which it     *)
(* takes the elements.                                                     *)
LEMMA FoldPlus ==
  ASSUME NEW D, IsFiniteSet(D), NEW fun \in [D -> Nat]
  PROVE  \E g : Sums(g, D, fun) /\ SumOf(fun) = g[D]
<1> DEFINE Q(g) == g = [s \in SUBSET D |-> IF s = {} THEN 0 ELSE fun[Pick(s)] + g[s \ {Pick(s)}]]
           g == CHOOSE h : Q(h)
           step == [p \in D \X Nat |-> fun[p[1]] + p[2]]
<1>1. \E f : Q(f)
  <2>1. step \in [D \X Nat -> Nat]
    OBVIOUS
  <2>2. \A x \in D, n \in Nat : step[<<x, n>>] = fun[x] + n
    OBVIOUS
  <2> HIDE DEF step
  <2>3. PICK f : FoldOn(f, D, Nat, 0, step)
    BY <2>1, FoldExists, Zenon
  <2>4. \A s \in SUBSET D : s # {} => Pick(s) \in D /\ s \ {Pick(s)} \in SUBSET D
    BY DEF Pick
  <2>5. \A s \in SUBSET D : f[s] = IF s = {} THEN 0 ELSE fun[Pick(s)] + f[s \ {Pick(s)}]
    <3> SUFFICES ASSUME NEW s \in SUBSET D, s # {}
                 PROVE  f[s] = fun[Pick(s)] + f[s \ {Pick(s)}]
      BY <2>3, Zenon DEF FoldOn
    <3>1. Pick(s) \in D /\ f[s \ {Pick(s)}] \in Nat
      BY <2>3, <2>4 DEF FoldOn
    <3>2. f[s] = step[<<Pick(s), f[s \ {Pick(s)}]>>]
      BY <2>3, Zenon DEF FoldOn
    <3> QED BY <2>2, <3>1, <3>2
  <2>6. f = [s \in SUBSET D |-> f[s]]
    BY <2>3 DEF FoldOn
  <2> QED BY <2>5, <2>6, Zenon
<1>2. Q(g)
  BY <1>1, Zenon
<1>3. SumOf(fun) = g[D]
  BY Zenon DEF SumOf, FoldFunction, FoldFunctionOnSet, MapThenFoldSet, Plus, Pick
<1> HIDE DEF g
<1>4. g[{}] = 0
  BY <1>2
<1>5. \A s \in SUBSET D : s # {} => Pick(s) \in s /\ g[s] = fun[Pick(s)] + g[s \ {Pick(s)}]
  BY <1>2, Zenon DEF Pick
<1> DEFINE G == {s \in SUBSET D : /\ g[s] \in Nat
                               /\ \A x \in s : g[s \ {x}] \in Nat /\ g[s] = fun[x] + g[s \ {x}]}
<1>6. {} \in G
  BY <1>4
<1>7. ASSUME NEW s \in SUBSET D, s # {}, \A x \in s : s \ {x} \in G PROVE s \in G
  <2> DEFINE p == Pick(s)
  <2>1. p \in s /\ g[s] = fun[p] + g[s \ {p}]
    BY <1>5, <1>7
  <2>2. \A x \in s : g[s \ {x}] \in Nat /\ fun[x] \in Nat
    BY <1>7
  <2>3. ASSUME NEW x \in s, x # p PROVE g[s] = fun[x] + g[s \ {x}]
    <3>1. g[s \ {p}] = fun[x] + g[(s \ {p}) \ {x}]
      BY <1>7, <2>1, <2>3
    <3>2. g[s \ {x}] = fun[p] + g[(s \ {x}) \ {p}]
      BY <1>7, <2>1, <2>3
    <3>3. (s \ {p}) \ {x} = (s \ {x}) \ {p}
      OBVIOUS
    <3>4. g[(s \ {p}) \ {x}] \in Nat
      BY <1>7, <2>1, <2>3, Zenon
    <3>5. fun[x] \in Nat /\ fun[p] \in Nat
      BY <2>1, <2>2
    <3>6. g[s \ {x}] = fun[p] + g[(s \ {p}) \ {x}]
      BY <3>2, <3>3
    <3> QED BY <2>1, <3>1, <3>4, <3>5, <3>6
  <2>4. g[s] \in Nat
    BY <2>1, <2>2
  <2> HIDE DEF p
  <2>5. \A x \in s : g[s] = fun[x] + g[s \ {x}]
    BY <2>1, <2>3, Zenon
  <2> QED BY <2>2, <2>4, <2>5
<1> HIDE DEF G
<1>8. \A s \in SUBSET D : s \in G
  BY <1>6, <1>7, SubsetSet, Zenon
<1>9. g \in [SUBSET D -> Nat]
  <2>1. g = [s \in SUBSET D |-> g[s]]
    BY <1>2
  <2> QED BY <1>8, <2>1, Zenon DEF G
<1>10. \A s \in SUBSET D : \A x \in s : g[s] = fun[x] + g[s \ {x}]
  BY <1>8, Zenon DEF G
<1> QED BY <1>3, <1>4, <1>9, <1>10, Zenon DEF Sums

LEMMA LastOut ==
  ASSUME NEW k \in Nat
  PROVE  (1 .. k + 1) \ {k + 1} = 1 .. k
OBVIOUS

(* Numbering the elements from 0 or from 1 gives the same sum. *)
LEMMA SumShift ==
  ASSUME NEW n \in Nat, NEW f \in [0 .. n - 1 -> Nat], NEW h \in [1 .. n -> Nat],
         \A k \in 1 .. n : h[k] = f[k - 1]
  PROVE  SumOf(f) \in Nat /\ SumOf(h) = SumOf(f)
<1>1. IsFiniteSet(0 .. n - 1) /\ IsFiniteSet(1 .. n)
  BY FS_Interval
<1>2. PICK u : Sums(u, 0 .. n - 1, f) /\ SumOf(f) = u[0 .. n - 1]
  BY <1>1, FoldPlus, Zenon
<1>3. PICK v : Sums(v, 1 .. n, h) /\ SumOf(h) = v[1 .. n]
  BY <1>1, FoldPlus, Zenon
<1> DEFINE G == {k \in Nat : k <= n => u[0 .. k - 1] = v[1 .. k]}
<1>4. 0 \in G
  <2>1. 0 .. 0 - 1 = {} /\ 1 .. 0 = {}
    OBVIOUS
  <2> QED BY <1>2, <1>3, <2>1 DEF Sums
<1>5. ASSUME NEW k \in Nat, k \in G PROVE k + 1 \in G
  <2> SUFFICES ASSUME k + 1 <= n PROVE u[0 .. k] = v[1 .. k + 1]
    OBVIOUS
  <2>1. 0 .. k \in SUBSET (0 .. n - 1) /\ k \in 0 .. k /\ (0 .. k) \ {k} = 0 .. k - 1
    OBVIOUS
  <2>2. u[0 .. k] = f[k] + u[0 .. k - 1]
    <3>1. \A x \in 0 .. k : u[0 .. k] = f[x] + u[(0 .. k) \ {x}]
      BY <1>2, <2>1, Zenon DEF Sums
    <3> QED BY <2>1, <3>1, Zenon
  <2>3. v[1 .. k + 1] = h[k + 1] + v[1 .. k]
    <3>1. 1 .. k + 1 \in SUBSET (1 .. n) /\ k + 1 \in 1 .. k + 1
      OBVIOUS
    <3>2. (1 .. k + 1) \ {k + 1} = 1 .. k
      BY LastOut
    <3>3. \A x \in 1 .. k + 1 : v[1 .. k + 1] = h[x] + v[(1 .. k + 1) \ {x}]
      BY <1>3, <3>1, Zenon DEF Sums
    <3> QED BY <3>1, <3>2, <3>3, Zenon
  <2>4. h[k + 1] = f[k]
    OBVIOUS
  <2> QED BY <1>5, <2>2, <2>3, <2>4
<1> HIDE DEF G
<1>6. n \in G
  BY <1>4, <1>5, NatSet, Zenon
<1>7. u[0 .. n - 1] = v[1 .. n]
  BY <1>6 DEF G
<1>8. u[0 .. n - 1] \in Nat
  BY <1>2 DEF Sums
<1> QED BY <1>2, <1>3, <1>7, <1>8

LargestOf(m, base, fun, D) ==
  /\ m \in Nat /\ base <= m
  /\ \A x \in D : fun[x] <= m
  /\ m = base \/ \E x \in D : m = fun[x]

(* The fold of ds_max is the largest of the elements and its start.           *)
LEMMA FoldLarger ==
  ASSUME NEW D, IsFiniteSet(D), NEW fun \in [D -> Nat], NEW base \in Nat
  PROVE  LargestOf(FoldFunction(Larger, base, fun), base, fun, D)
<1> DEFINE Q(g) == g = [s \in SUBSET D |->
                          IF s = {} THEN base ELSE Larger(fun[Pick(s)], g[s \ {Pick(s)}])]
           g == CHOOSE h : Q(h)
           step == [p \in D \X Nat |-> Larger(fun[p[1]], p[2])]
<1>1. \E f : Q(f)
  <2>1. step \in [D \X Nat -> Nat]
    <3>1. \A a, b \in Nat : Larger(a, b) \in Nat
      BY DEF Larger
    <3> QED BY <3>1, Zenon
  <2>2. \A x \in D, n \in Nat : step[<<x, n>>] = Larger(fun[x], n)
    OBVIOUS
  <2> HIDE DEF step
  <2>3. PICK f : FoldOn(f, D, Nat, base, step)
    BY <2>1, FoldExists, Zenon
  <2>4. \A s \in SUBSET D : s # {} => Pick(s) \in D /\ s \ {Pick(s)} \in SUBSET D
    BY DEF Pick
  <2>5. \A s \in SUBSET D : f[s] = IF s = {} THEN base ELSE Larger(fun[Pick(s)], f[s \ {Pick(s)}])
    <3> SUFFICES ASSUME NEW s \in SUBSET D, s # {}
                 PROVE  f[s] = Larger(fun[Pick(s)], f[s \ {Pick(s)}])
      BY <2>3, Zenon DEF FoldOn
    <3>1. Pick(s) \in D /\ f[s \ {Pick(s)}] \in Nat
      BY <2>3, <2>4 DEF FoldOn
    <3>2. f[s] = step[<<Pick(s), f[s \ {Pick(s)}]>>]
      BY <2>3, Zenon DEF FoldOn
    <3> QED BY <2>2, <3>1, <3>2
  <2>6. f = [s \in SUBSET D |-> f[s]]
    BY <2>3 DEF FoldOn
  <2> QED BY <2>5, <2>6, Zenon
<1>2. Q(g)
  BY <1>1, Zenon
<1>3. FoldFunction(Larger, base, fun) = g[D]
  BY Zenon DEF FoldFunction, FoldFunctionOnSet, MapThenFoldSet, Pick
<1> HIDE DEF g
<1>4. g[{}] = base
  BY <1>2
<1>5. \A s \in SUBSET D :
        s # {} => Pick(s) \in s /\ g[s] = Larger(fun[Pick(s)], g[s \ {Pick(s)}])
  BY <1>2 DEF Pick
<1> DEFINE G == {s \in SUBSET D : /\ g[s] \in Nat /\ base <= g[s]
                                  /\ \A x \in s : fun[x] <= g[s]
                                  /\ g[s] = base \/ \E x \in s : g[s] = fun[x]}
<1>6. {} \in G
  BY <1>4
<1>7. ASSUME NEW s \in SUBSET D, s # {}, \A x \in s : s \ {x} \in G PROVE s \in G
  <2> DEFINE p == Pick(s)
  <2>1. p \in s /\ g[s] = Larger(fun[p], g[s \ {p}])
    BY <1>5, <1>7, Zenon
  <2>2. s \ {p} \in G /\ fun[p] \in Nat
    BY <1>7, <2>1, Zenon
  <2> HIDE DEF p
  <2>3. g[s] \in Nat /\ base <= g[s] /\ fun[p] <= g[s] /\ (g[s] = fun[p] \/ g[s] = g[s \ {p}]) /\ g[s \ {p}] <= g[s]
    BY <2>1, <2>2 DEF Larger
  <2>4. ASSUME NEW x \in s \ {p} PROVE fun[x] <= g[s]
    <3>1. fun[x] \in Nat /\ g[s \ {p}] \in Nat /\ fun[x] <= g[s \ {p}]
      BY <2>2
    <3> QED BY <2>3, <3>1
  <2>5. g[s] = base \/ \E x \in s : g[s] = fun[x]
    BY <2>1, <2>2, <2>3
  <2> QED BY <2>3, <2>4, <2>5
<1> HIDE DEF G
<1>8. D \in G
  BY <1>6, <1>7, SubsetSet, Zenon
<1> QED BY <1>3, <1>8, Zenon DEF G, LargestOf

SmallestOf(m, base, fun, D) ==
  /\ m \in Nat /\ m <= base
  /\ \A x \in D : m <= fun[x]
  /\ m = base \/ \E x \in D : m = fun[x]

(* The fold of ds_min is the smallest of the elements and its start.          *)
LEMMA FoldSmaller ==
  ASSUME NEW D, IsFiniteSet(D), NEW fun \in [D -> Nat], NEW base \in Nat
  PROVE  SmallestOf(FoldFunction(Smaller, base, fun), base, fun, D)
<1> DEFINE Q(g) == g = [s \in SUBSET D |->
                          IF s = {} THEN base ELSE Smaller(fun[Pick(s)], g[s \ {Pick(s)}])]
           g == CHOOSE h : Q(h)
           step == [p \in D \X Nat |-> Smaller(fun[p[1]], p[2])]
<1>1. \E f : Q(f)
  <2>1. step \in [D \X Nat -> Nat]
    <3>1. \A a, b \in Nat : Smaller(a, b) \in Nat
      BY DEF Smaller
    <3> QED BY <3>1, Zenon
  <2>2. \A x \in D, n \in Nat : step[<<x, n>>] = Smaller(fun[x], n)
    OBVIOUS
  <2> HIDE DEF step
  <2>3. PICK f : FoldOn(f, D, Nat, base, step)
    BY <2>1, FoldExists, Zenon
  <2>4. \A s \in SUBSET D : s # {} => Pick(s) \in D /\ s \ {Pick(s)} \in SUBSET D
    BY DEF Pick
  <2>5. \A s \in SUBSET D : f[s] = IF s = {} THEN base ELSE Smaller(fun[Pick(s)], f[s \ {Pick(s)}])
    <3> SUFFICES ASSUME NEW s \in SUBSET D, s # {}
                 PROVE  f[s] = Smaller(fun[Pick(s)], f[s \ {Pick(s)}])
      BY <2>3, Zenon DEF FoldOn
    <3>1. Pick(s) \in D /\ f[s \ {Pick(s)}] \in Nat
      BY <2>3, <2>4 DEF FoldOn
    <3>2. f[s] = step[<<Pick(s), f[s \ {Pick(s)}]>>]
      BY <2>3, Zenon DEF FoldOn
    <3> QED BY <2>2, <3>1, <3>2
  <2>6. f = [s \in SUBSET D |-> f[s]]
    BY <2>3 DEF FoldOn
  <2> QED BY <2>5, <2>6, Zenon
<1>2. Q(g)
  BY <1>1, Zenon
<1>3. FoldFunction(Smaller, base, fun) = g[D]
  BY Zenon DEF FoldFunction, FoldFunctionOnSet, MapThenFoldSet, Pick
<1> HIDE DEF g
<1>4. g[{}] = base
  BY <1>2
<1>5. \A s \in SUBSET D :
        s # {} => Pick(s) \in s /\ g[s] = Smaller(fun[Pick(s)], g[s \ {Pick(s)}])
  BY <1>2 DEF Pick
<1> DEFINE G == {s \in SUBSET D : /\ g[s] \in Nat /\ g[s] <= base
                                  /\ \A x \in s : g[s] <= fun[x]
                                  /\ g[s] = base \/ \E x \in s : g[s] = fun[x]}
<1>6. {} \in G
  BY <1>4
<1>7. ASSUME NEW s \in SUBSET D, s # {}, \A x \in s : s \ {x} \in G PROVE s \in G
  <2> DEFINE p == Pick(s)
  <2>1. p \in s /\ g[s] = Smaller(fun[p], g[s \ {p}])
    BY <1>5, <1>7, Zenon
  <2>2. s \ {p} \in G /\ fun[p] \in Nat
    BY <1>7, <2>1, Zenon
  <2> HIDE DEF p
  <2>3. g[s] \in Nat /\ g[s] <= base /\ g[s] <= fun[p] /\ (g[s] = fun[p] \/ g[s] = g[s \ {p}]) /\ g[s] <= g[s \ {p}]
    BY <2>1, <2>2 DEF Smaller
  <2>4. ASSUME NEW x \in s \ {p} PROVE g[s] <= fun[x]
    <3>1. fun[x] \in Nat /\ g[s \ {p}] \in Nat /\ g[s \ {p}] <= fun[x]
      BY <2>2
    <3> QED BY <2>3, <3>1
  <2>5. g[s] = base \/ \E x \in s : g[s] = fun[x]
    BY <2>1, <2>2, <2>3
  <2> QED BY <2>3, <2>4, <2>5
<1> HIDE DEF G
<1>8. D \in G
  BY <1>6, <1>7, SubsetSet, Zenon
<1> QED BY <1>3, <1>8, Zenon DEF G, SmallestOf

-----------------------------------------------------------------------------
(* How far kb_scan is: idx elements are filled and ptr is at the next node *)
ScanInv ==
  /\ phase \in {"idle", "scan", "report"}
  /\ phase = "scan" =>
       /\ ds_dim = Len(chain)
       /\ idx \in 0 .. Len(chain)
       /\ ptr = IF idx = Len(chain) THEN NULL ELSE chain[idx + 1]
       /\ ds_list \in [0 .. Len(chain) - 1 -> Nat \cup {Garbage}]
       /\ \A j \in 0 .. idx - 1 : ds_list[j] = strlen[data[chain[j + 1]]]
  /\ phase = "report" =>
       /\ ds_dim = Len(chain)
       /\ ds_list \in [0 .. Len(chain) - 1 -> Nat]
       /\ \A j \in 0 .. Len(chain) - 1 : ds_list[j] = strlen[data[chain[j + 1]]]
  /\ phase # "idle" => Len(chain) # 0

StatInv == KbInv /\ ScanInv

LEMMA StatStep == StatInv /\ [StatNext]_<<kvars, svars>> => StatInv'
<1> SUFFICES ASSUME StatInv, [StatNext]_<<kvars, svars>> PROVE StatInv'
  OBVIOUS
<1>1. KbInv'
  BY KbStep DEF StatInv, StatNext, Use, Populate, Scan, ScanEnd, Report
<1>2. /\ chain \in Seq(Node) /\ Len(chain) \in Nat /\ count = Len(chain)
      /\ \A i \in 1 .. Len(chain) : chain[i] \in Node /\ data[chain[i]] \in Str
      /\ \A i \in 1 .. Len(chain) :
           next[chain[i]] = IF i = Len(chain) THEN NULL ELSE chain[i + 1]
      /\ count # 0 => head = chain[1]
  BY DEF StatInv, KbInv, KbTypeOK, ListIntact, CountExact
<1>3. CASE Use
  BY <1>1, <1>3 DEF Use, svars, StatInv, ScanInv
<1>4. CASE Populate
  <2>1. /\ phase' = "scan" /\ ds_dim' = Len(chain) /\ idx' = 0 /\ chain' = chain
        /\ Len(chain) # 0 /\ ptr' = chain[1]
        /\ ds_list' = [k \in 0 .. Len(chain) - 1 |-> Garbage]
    BY <1>2, <1>4 DEF Populate, kvars, NewArray
  <2> QED BY <1>1, <1>2, <2>1 DEF StatInv, ScanInv
<1>5. CASE Scan
  <2>1. /\ phase' = "scan" /\ phase = "scan" /\ ds_dim' = ds_dim /\ chain' = chain /\ data' = data
        /\ ptr # NULL /\ idx' = idx + 1 /\ ptr' = next[ptr]
        /\ ds_list' = [ds_list EXCEPT ![idx] = strlen[data[ptr]]]
    BY <1>5 DEF Scan, kvars
  <2>2. /\ idx \in 0 .. Len(chain) - 1 /\ ptr = chain[idx + 1] /\ idx + 1 \in 1 .. Len(chain)
        /\ ds_list \in [0 .. Len(chain) - 1 -> Nat \cup {Garbage}]
        /\ \A j \in 0 .. idx - 1 : ds_list[j] = strlen[data[chain[j + 1]]]
        /\ ds_dim = Len(chain) /\ Len(chain) # 0
    BY <1>2, <2>1 DEF StatInv, ScanInv
  <2>3. strlen[data[ptr]] \in Nat
    BY <1>2, <2>2, StrlenAssumption
  <2>4. ptr' = IF idx + 1 = Len(chain) THEN NULL ELSE chain[idx + 2]
    BY <1>2, <2>1, <2>2
  <2>5. /\ ds_list' \in [0 .. Len(chain) - 1 -> Nat \cup {Garbage}]
        /\ \A j \in 0 .. idx : ds_list'[j] = strlen[data[chain[j + 1]]]
    BY <1>2, <2>1, <2>2, <2>3
  <2> QED BY <1>1, <1>2, <2>1, <2>2, <2>4, <2>5 DEF StatInv, ScanInv
<1>6. CASE ScanEnd
  <2>1. /\ phase' = "report" /\ phase = "scan" /\ chain' = chain /\ ds_list' = ds_list
        /\ ptr = NULL /\ data' = data /\ ds_dim' = ds_dim
    BY <1>6 DEF ScanEnd, kvars
  <2>2. idx = Len(chain)
    <3>1. \A i \in 1 .. Len(chain) : chain[i] # NULL
      BY <1>2, HeapAssumption
    <3> QED BY <1>2, <2>1, <3>1 DEF StatInv, ScanInv
  <2>3. /\ ds_list \in [0 .. Len(chain) - 1 -> Nat \cup {Garbage}]
        /\ \A j \in 0 .. Len(chain) - 1 : ds_list[j] = strlen[data[chain[j + 1]]]
        /\ ds_dim = Len(chain) /\ Len(chain) # 0
    BY <1>2, <2>1, <2>2 DEF StatInv, ScanInv
  <2>4. \A j \in 0 .. Len(chain) - 1 : ds_list[j] \in Nat
    BY <1>2, <2>3, StrlenAssumption
  <2>5. ds_list \in [0 .. Len(chain) - 1 -> Nat]
    BY <2>3, <2>4
  <2> QED BY <1>1, <2>1, <2>3, <2>5 DEF StatInv, ScanInv
<1>7. CASE Report
  BY <1>1, <1>7 DEF Report, StatInv, ScanInv
<1>8. CASE UNCHANGED <<kvars, svars>>
  BY <1>1, <1>8 DEF kvars, svars, StatInv, ScanInv
<1> QED BY <1>3, <1>4, <1>5, <1>6, <1>7, <1>8 DEF StatNext

LEMMA StatInvariance == StatSpec => []StatInv
<1>1. StatInit => StatInv
  BY HeapAssumption
     DEF StatInit, StatInv, ScanInv, KbInit, KbInv, KbTypeOK, ListIntact, NoLeak, CountExact,
         kb_isempty
<1> QED BY <1>1, StatStep, PTL DEF StatSpec

(* kb_scan stores within the array ds_populate sized by count, and fills   *)
(* it, whatever kb_push and kb_pop did between the passes.                 *)
THEOREM StatScan == StatSpec => []ScanFits
<1>1. StatInv => ScanFits
  <2> SUFFICES ASSUME StatInv PROVE ScanFits
    OBVIOUS
  <2>1. Len(chain) \in Nat /\ count = Len(chain)
    BY DEF StatInv, KbInv, KbTypeOK, CountExact
  <2> QED BY <2>1 DEF StatInv, ScanInv, ScanFits
<1> QED BY <1>1, StatInvariance, PTL

(* Max and Min of module FiniteSetsExt. *)
LEMMA TheMax ==
  ASSUME NEW S \in SUBSET Nat, NEW m \in S, \A y \in S : m >= y
  PROVE  m = Max(S)
<1>1. Max(S) \in S /\ \A y \in S : Max(S) >= y
  BY Zenon DEF Max
<1>2. PICK x \in S : x = Max(S) /\ \A y \in S : x >= y
  BY <1>1, Zenon
<1>3. x = m
  BY <1>2
<1> QED BY <1>2, <1>3, Zenon

LEMMA TheMin ==
  ASSUME NEW S \in SUBSET Nat, NEW m \in S, \A y \in S : m <= y
  PROVE  m = Min(S)
<1>1. Min(S) \in S /\ \A y \in S : Min(S) <= y
  BY Zenon DEF Min
<1>2. PICK x \in S : x = Min(S) /\ \A y \in S : x <= y
  BY <1>1, Zenon
<1>3. x = m
  BY <1>2
<1> QED BY <1>2, <1>3, Zenon

(* The numbers kt_stat prints are the number of strings in the device, and *)
(* the average (rounded down), largest and smallest of their lengths, for  *)
(* a list of any length and strings of any lengths: ds_max may start from  *)
(* 0 because no length is negative, ds_min from the maximum it is passed,  *)
(* and ds_med divides by a dimension that is not 0.                        *)
THEOREM StatReport == StatSpec => ReportRight
<1> DEFINE n == Len(chain)
<1>1. ASSUME StatInv, Report
      PROVE  /\ report'.dim = n
             /\ report'.max = Max(Range(lengths))
             /\ report'.min = Min(Range(lengths))
             /\ report'.med * n <= SumOf(lengths)
             /\ SumOf(lengths) < (report'.med + 1) * n
  <2>1. /\ n \in Nat \ {0} /\ ds_dim = n
        /\ ds_list \in [0 .. n - 1 -> Nat]
        /\ \A j \in 0 .. n - 1 : ds_list[j] = strlen[data[chain[j + 1]]]
    BY <1>1 DEF StatInv, ScanInv, Report, KbInv, KbTypeOK
  <2>2. report' = [dim |-> ds_dim, med |-> ds_med, max |-> ds_max, min |-> ds_min(ds_max)]
    BY <1>1, Zenon DEF Report
  <2>3. lengths = [k \in 1 .. n |-> strlen[data[chain[k]]]]
    BY DEF lengths
  <2>4. \A k \in 1 .. n : k - 1 \in 0 .. n - 1 /\ lengths[k] = ds_list[k - 1]
    BY <2>1, <2>3
  <2>5. lengths \in [1 .. n -> Nat]
    BY <2>1, <2>3, <2>4
  <2>6. Range(lengths) = {ds_list[j] : j \in 0 .. n - 1}
    <3>1. Range(lengths) = {lengths[k] : k \in 1 .. n}
      BY <2>3 DEF Range
    <3>2. \A j \in 0 .. n - 1 : j + 1 \in 1 .. n /\ ds_list[j] = lengths[j + 1]
      BY <2>1, <2>3
    <3> QED BY <2>4, <3>1, <3>2
  <2>7. IsFiniteSet(0 .. n - 1) /\ 0 \in 0 .. n - 1
    BY <2>1, FS_Interval
  <2> HIDE DEF n
  <2>8. /\ ds_max \in Nat
        /\ \A j \in 0 .. n - 1 : ds_list[j] <= ds_max
        /\ ds_max = 0 \/ \E j \in 0 .. n - 1 : ds_max = ds_list[j]
    <3>1. ds_list \in [0 .. n - 1 -> Nat] /\ 0 \in Nat
      BY <2>1
    <3>2. LargestOf(FoldFunction(Larger, 0, ds_list), 0, ds_list, 0 .. n - 1)
      BY <2>7, <3>1, FoldLarger, Zenon
    <3> QED BY <3>2, Zenon DEF LargestOf, ds_max
  <2>9. \E j \in 0 .. n - 1 : ds_max = ds_list[j]
    BY <2>1, <2>7, <2>8
  <2>10. ds_max = Max(Range(lengths))
    <3>1. ds_max \in Range(lengths) /\ \A y \in Range(lengths) : ds_max >= y
      BY <2>1, <2>6, <2>8, <2>9
    <3>2. Range(lengths) \in SUBSET Nat
      BY <2>1, <2>6
    <3> QED BY <3>1, <3>2, TheMax, Zenon
  <2>11. /\ ds_min(ds_max) \in Nat
         /\ \A j \in 0 .. n - 1 : ds_min(ds_max) <= ds_list[j]
         /\ \E j \in 0 .. n - 1 : ds_min(ds_max) = ds_list[j]
    <3>1. CASE ds_max = 0
      <4>1. ds_min(ds_max) = 0
        BY <3>1, Zenon DEF ds_min
      <4> QED BY <2>1, <2>8, <2>9, <3>1, <4>1
    <3>2. CASE ds_max # 0
      <4>1. ds_min(ds_max) = FoldFunction(Smaller, ds_max, ds_list)
        BY <3>2, Zenon DEF ds_min
      <4>2. /\ ds_min(ds_max) \in Nat
            /\ \A j \in 0 .. n - 1 : ds_min(ds_max) <= ds_list[j]
            /\ ds_min(ds_max) = ds_max \/ \E j \in 0 .. n - 1 : ds_min(ds_max) = ds_list[j]
        <5>1. SmallestOf(ds_min(ds_max), ds_max, ds_list, 0 .. n - 1)
          <6>1. ds_list \in [0 .. n - 1 -> Nat] /\ ds_max \in Nat
            BY <2>1, <2>8
          <6> QED BY <2>7, <4>1, <6>1, FoldSmaller, Zenon
        <5> QED BY <5>1, Zenon DEF SmallestOf
      <4> QED BY <2>9, <4>2, Zenon
    <3> QED BY <3>1, <3>2, Zenon
  <2>12. ds_min(ds_max) = Min(Range(lengths))
    <3>1. ds_min(ds_max) \in Range(lengths) /\ \A y \in Range(lengths) : ds_min(ds_max) <= y
      BY <2>1, <2>6, <2>11, Zenon
    <3>2. Range(lengths) \in SUBSET Nat
      BY <2>1, <2>6
    <3> QED BY <3>1, <3>2, TheMin, Zenon
  <2>13. SumOf(ds_list) \in Nat /\ SumOf(lengths) = SumOf(ds_list)
    <3>1. n \in Nat
      BY <2>1
    <3>2. \A k \in 1 .. n : lengths[k] = ds_list[k - 1]
      BY <2>4, Zenon
    <3>3. ds_list \in [0 .. n - 1 -> Nat]
      BY <2>1
    <3> QED BY <2>5, <3>1, <3>2, <3>3, SumShift, Zenon
  <2>14. ds_med = SumOf(ds_list) \div n
    BY <2>1, Zenon DEF ds_med, SumOf
  <2>15. /\ report'.dim = n /\ report'.med = SumOf(ds_list) \div n
         /\ report'.max = ds_max /\ report'.min = ds_min(ds_max)
    BY <2>1, <2>2, <2>14
  <2>16. ASSUME NEW a \in Nat, NEW b \in Nat \ {0}
         PROVE  (a \div b) * b <= a /\ a < (a \div b + 1) * b
    BY DivMod
  <2> QED BY <2>1, <2>10, <2>12, <2>13, <2>15, <2>16, Zenon
<1>2. StatInv => (Report => /\ report'.dim = Len(chain)
                            /\ report'.max = Max(Range(lengths))
                            /\ report'.min = Min(Range(lengths))
                            /\ report'.med * Len(chain) <= FoldFunction(Plus, 0, lengths)
                            /\ FoldFunction(Plus, 0, lengths) < (report'.med + 1) * Len(chain))
  BY <1>1, Zenon DEF SumOf
<1> QED BY <1>2, StatInvariance, PTL DEF ReportRight
=============================================================================
