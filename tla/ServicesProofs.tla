---------------------------- MODULE ServicesProofs ----------------------------
(***************************************************************************)
(* Theorems about the delivery byte budget and the quality ledger of the   *)
(* Relay and the sharded Collector: for any number of captures, workers,   *)
(* connections, requests, operators and shards.                            *)
(*                                                                         *)
(* Their properties count, so the proofs rest on lemmas about sums over    *)
(* finite sets.                                                            *)
(***************************************************************************)
EXTENDS MCServices, FiniteSetTheorems, TLAPS

-----------------------------------------------------------------------------
(***************************************************************************)
(* Sums.  A set of subsets that holds a subset whenever it holds all       *)
(* smaller ones holds them all: this is what induction on the size of a    *)
(* finite set comes to.                                                    *)
(***************************************************************************)
LEMMA SubsetInduction ==
    ASSUME NEW S, IsFiniteSet(S), NEW Z,
           \A T \in SUBSET S : (\A U \in SUBSET T : U # T => U \in Z) => T \in Z
    PROVE  \A T \in SUBSET S : T \in Z
<1> DEFINE B == {T \in SUBSET S : T \notin Z}
<1>1. SUFFICES ASSUME B # {} PROVE FALSE
  OBVIOUS
<1>2. B \subseteq FiniteSubsetsOf(S)
  BY FS_Subset DEF FiniteSubsetsOf
<1>3. IsWellFoundedOn(StrictSubsetOrdering(S), FiniteSubsetsOf(S))
  BY FS_StrictSubsetOrderingWellFounded
<1>4. \E T \in B : \A U \in B : ~(<<U, T>> \in StrictSubsetOrdering(S))
  <2> HIDE DEF B
  <2>1. QED
    BY <1>1, <1>2, <1>3, WFMin
<1>5. PICK T \in B : \A U \in B : ~(<<U, T>> \in StrictSubsetOrdering(S))
  BY <1>4
<1>6. ASSUME NEW U \in SUBSET T, U # T
      PROVE  U \in Z
  <2>1. U \in SUBSET S /\ T \in SUBSET S
    OBVIOUS
  <2>2. <<U, T>> \in StrictSubsetOrdering(S)
    BY <1>6, <2>1 DEF StrictSubsetOrdering
  <2>3. QED
    BY <1>5, <2>1, <2>2
<1>7. QED
  BY <1>5, <1>6

\* Adds(g, f, S): g is the sum of f over each subset of S, in the order in which
\* elements are chosen.
Picked(s) == CHOOSE x \in s : TRUE
Adds(g, f, S) ==
    g = [s \in SUBSET S |-> IF s = {} THEN 0 ELSE f[Picked(s)] + g[s \ {Picked(s)}]]
Sum(f, S) == SumFunctionOnSet(f, S)

LEMMA SumUnfolds ==
    ASSUME NEW f, NEW S
    PROVE  Sum(f, S) = (CHOOSE g : Adds(g, f, S))[S]
BY DEF Sum, Adds, Picked, SumFunctionOnSet, FoldFunctionOnSet, MapThenFoldSet

\* There is one such function at most, whichever set it is for.
LEMMA OneAdds ==
    ASSUME NEW f, NEW S, NEW T, NEW g, NEW h, IsFiniteSet(S), T \in SUBSET S,
           Adds(g, f, S), Adds(h, f, T)
    PROVE  g[T] = h[T]
<1> DEFINE Z == {U \in SUBSET T : g[U] = h[U]}
<1>1. IsFiniteSet(T)
  BY FS_Subset
<1>2. ASSUME NEW U \in SUBSET T, \A V \in SUBSET U : V # U => V \in Z
      PROVE  U \in Z
  <2> DEFINE x == Picked(U)
  <2>1. /\ g[U] = IF U = {} THEN 0 ELSE f[x] + g[U \ {x}]
        /\ h[U] = IF U = {} THEN 0 ELSE f[x] + h[U \ {x}]
    BY DEF Adds
  <2>2. CASE U = {}
    BY <2>1, <2>2
  <2>3. CASE U # {}
    <3>1. x \in U
      BY <2>3 DEF Picked
    <3>2. U \ {x} \in Z
      BY <1>2, <3>1
    <3>3. QED
      BY <2>1, <2>3, <3>2
  <2>4. QED
    BY <2>2, <2>3
<1>3. \A U \in SUBSET T : U \in Z
  <2> HIDE DEF Z
  <2>1. QED
    BY <1>1, <1>2, SubsetInduction
<1>4. QED
  BY <1>3

\* There is one.
LEMMA SomeAdds ==
    ASSUME NEW f, NEW S, IsFiniteSet(S)
    PROVE  \E g : Adds(g, f, S)
<1> DEFINE Z == {T \in SUBSET S : \E g : Adds(g, f, T)}
<1>1. ASSUME NEW T \in SUBSET S, \A U \in SUBSET T : U # T => U \in Z
      PROVE  T \in Z
  <2> DEFINE h(U) == (CHOOSE g : Adds(g, f, U))[U]
             g == [s \in SUBSET T |-> IF s = {} THEN 0 ELSE f[Picked(s)] + h(s \ {Picked(s)})]
  <2>1. ASSUME NEW s \in SUBSET T, s # {}
        PROVE  g[s \ {Picked(s)}] = h(s \ {Picked(s)})
    <3> DEFINE u == s \ {Picked(s)}
    <3>1. Picked(s) \in s
      BY <2>1 DEF Picked
    <3>2. u \in SUBSET T /\ u # T /\ u \in SUBSET S
      BY <3>1
    <3>3. \E k : Adds(k, f, u)
      BY <1>1, <3>2
    <3>4. Adds(CHOOSE k : Adds(k, f, u), f, u)
      BY <3>3
    <3>5. PICK k : Adds(k, f, u) /\ h(u) = k[u]
      BY <3>4
    <3>6. k[u] = IF u = {} THEN 0 ELSE f[Picked(u)] + k[u \ {Picked(u)}]
      BY <3>5 DEF Adds
    <3>7. g[u] = IF u = {} THEN 0 ELSE f[Picked(u)] + h(u \ {Picked(u)})
      BY <3>2
    <3>8. ASSUME u # {}
          PROVE  k[u \ {Picked(u)}] = h(u \ {Picked(u)})
      <4> DEFINE v == u \ {Picked(u)}
      <4>1. Picked(u) \in u
        BY <3>8 DEF Picked
      <4>2. v \in SUBSET u /\ v \in SUBSET T /\ v # T
        BY <3>2, <4>1
      <4>3. \E l : Adds(l, f, v)
        BY <1>1, <4>2
      <4>4. Adds(CHOOSE l : Adds(l, f, v), f, v)
        BY <4>3
      <4>5. IsFiniteSet(u)
        BY <3>2, FS_Subset
      <4> HIDE DEF v, u
      <4>6. k[v] = (CHOOSE l : Adds(l, f, v))[v]
        BY <3>5, <4>2, <4>4, <4>5, OneAdds
      <4>7. QED
        BY <4>6 DEF v
    <3> HIDE DEF g, h
    <3>9. QED
      BY <3>5, <3>6, <3>7, <3>8
  <2>2. g = [s \in SUBSET T |-> IF s = {} THEN 0 ELSE f[Picked(s)] + g[s \ {Picked(s)}]]
    <3> DEFINE g2 == [s \in SUBSET T |-> IF s = {} THEN 0 ELSE f[Picked(s)] + g[s \ {Picked(s)}]]
    <3>1. \A s \in SUBSET T : g[s] = g2[s]
      <4> SUFFICES ASSUME NEW s \in SUBSET T PROVE g[s] = g2[s]
        OBVIOUS
      <4>1. g[s] = IF s = {} THEN 0 ELSE f[Picked(s)] + h(s \ {Picked(s)})
        OBVIOUS
      <4>2. g2[s] = IF s = {} THEN 0 ELSE f[Picked(s)] + g[s \ {Picked(s)}]
        BY DEF g2
      <4> HIDE DEF g, h, g2
      <4>3. QED
        BY <2>1, <4>1, <4>2
    <3>2. QED
      BY <3>1
  <2> HIDE DEF g
  <2>3. Adds(g, f, T)
    BY <2>2 DEF Adds
  <2>4. QED
    BY <2>3
<1>2. \A T \in SUBSET S : T \in Z
  <2> HIDE DEF Z
  <2>1. QED
    BY <1>1, SubsetInduction
<1>3. QED
  BY <1>2

\* A sum is what is picked first and the sum of the rest.
LEMMA SumOfPicked ==
    ASSUME NEW f, NEW S, IsFiniteSet(S)
    PROVE  Sum(f, S) = IF S = {} THEN 0 ELSE f[Picked(S)] + Sum(f, S \ {Picked(S)})
<1> DEFINE x == Picked(S)
<1>1. PICK g : Adds(g, f, S) /\ Sum(f, S) = g[S]
  BY SomeAdds, SumUnfolds
<1>2. g[S] = IF S = {} THEN 0 ELSE f[x] + g[S \ {x}]
  BY <1>1 DEF Adds
<1>3. g[S \ {x}] = Sum(f, S \ {x})
  <2>1. S \ {x} \in SUBSET S /\ IsFiniteSet(S \ {x})
    BY FS_Subset
  <2>2. PICK h : Adds(h, f, S \ {x}) /\ Sum(f, S \ {x}) = h[S \ {x}]
    BY <2>1, SomeAdds, SumUnfolds
  <2>3. QED
    BY <1>1, <2>1, <2>2, OneAdds
<1>4. QED
  BY <1>1, <1>2, <1>3

LEMMA SumOfNone == \A f : Sum(f, {}) = 0
BY SumOfPicked, FS_EmptySet

\* A sum of naturals is one.
LEMMA SumType ==
    ASSUME NEW f, NEW S, IsFiniteSet(S), \A x \in S : f[x] \in Nat
    PROVE  Sum(f, S) \in Nat
<1> DEFINE Z == {T \in SUBSET S : Sum(f, T) \in Nat}
<1>1. ASSUME NEW T \in SUBSET S, \A U \in SUBSET T : U # T => U \in Z
      PROVE  T \in Z
  <2>1. CASE T = {}
    BY <2>1, SumOfNone
  <2>2. CASE T # {}
    <3>1. Picked(T) \in T
      BY <2>2 DEF Picked
    <3>2. T \ {Picked(T)} \in Z
      BY <1>1, <3>1
    <3>3. Sum(f, T) = f[Picked(T)] + Sum(f, T \ {Picked(T)})
      BY <2>2, SumOfPicked, FS_Subset
    <3>4. f[Picked(T)] \in Nat
      BY <3>1
    <3>5. QED
      BY <3>2, <3>3, <3>4
  <2>3. QED
    BY <2>1, <2>2
<1>2. \A T \in SUBSET S : T \in Z
  <2> HIDE DEF Z
  <2>1. QED
    BY <1>1, SubsetInduction
<1>3. QED
  BY <1>2

\* The order does not matter: a sum is any element and the sum of the rest.
LEMMA SumOfAny ==
    ASSUME NEW f, NEW S, IsFiniteSet(S), \A x \in S : f[x] \in Nat, NEW x \in S
    PROVE  Sum(f, S) = f[x] + Sum(f, S \ {x})
<1> DEFINE Z == {T \in SUBSET S : \A y \in T : Sum(f, T) = f[y] + Sum(f, T \ {y})}
<1>1. ASSUME NEW T \in SUBSET S, \A U \in SUBSET T : U # T => U \in Z
      PROVE  T \in Z
  <2> SUFFICES ASSUME NEW y \in T PROVE Sum(f, T) = f[y] + Sum(f, T \ {y})
    OBVIOUS
  <2> DEFINE c == Picked(T)
  <2>1. c \in T /\ f[c] \in Nat /\ f[y] \in Nat
    BY DEF Picked
  <2>2. Sum(f, T) = f[c] + Sum(f, T \ {c})
    BY SumOfPicked, FS_Subset
  <2>3. CASE y = c
    BY <2>2, <2>3
  <2>4. CASE y # c
    <3>1. T \ {c} \in Z /\ T \ {y} \in Z
      BY <1>1, <2>1
    <3>2. Sum(f, T \ {c}) = f[y] + Sum(f, (T \ {c}) \ {y})
      BY <2>4, <3>1
    <3>3. Sum(f, T \ {y}) = f[c] + Sum(f, (T \ {y}) \ {c})
      BY <2>1, <2>4, <3>1
    <3>4. (T \ {y}) \ {c} = (T \ {c}) \ {y}
      OBVIOUS
    <3>5. Sum(f, (T \ {c}) \ {y}) \in Nat
      <4>1. (T \ {c}) \ {y} \in SUBSET S
        OBVIOUS
      <4>2. IsFiniteSet((T \ {c}) \ {y})
        BY <4>1, FS_Subset
      <4>3. QED
        BY <4>1, <4>2, SumType
    <3> HIDE DEF c
    <3>6. QED
      BY <2>1, <2>2, <3>2, <3>3, <3>4, <3>5
  <2>5. QED
    BY <2>3, <2>4
<1>2. \A T \in SUBSET S : T \in Z
  <2> HIDE DEF Z
  <2>1. QED
    BY <1>1, SubsetInduction
<1>3. QED
  BY <1>2

\* A set's sum is a part's and the rest's.
LEMMA SumOfParts ==
    ASSUME NEW f, NEW S, IsFiniteSet(S), \A x \in S : f[x] \in Nat, NEW P \in SUBSET S
    PROVE  /\ Sum(f, P) \in Nat /\ Sum(f, S \ P) \in Nat
           /\ Sum(f, S) = Sum(f, P) + Sum(f, S \ P)
<1> DEFINE Z == {T \in SUBSET S : Sum(f, S) = Sum(f, T) + Sum(f, S \ T)}
<1>1. \A T \in SUBSET S : IsFiniteSet(T) /\ IsFiniteSet(S \ T)
  BY FS_Subset
<1>2. \A T \in SUBSET S : Sum(f, T) \in Nat /\ Sum(f, S \ T) \in Nat
  BY <1>1, SumType
<1>3. ASSUME NEW T \in SUBSET S, \A U \in SUBSET T : U # T => U \in Z
      PROVE  T \in Z
  <2>1. CASE T = {}
    BY <1>2, <2>1, SumOfNone
  <2>2. CASE T # {}
    <3> DEFINE y == Picked(T)  U == T \ {y}
    <3>1. y \in T /\ f[y] \in Nat
      BY <2>2 DEF Picked
    <3>2. U \in SUBSET S /\ Sum(f, S) = Sum(f, U) + Sum(f, S \ U)
      BY <1>3, <3>1
    <3>3. Sum(f, T) = f[y] + Sum(f, U)
      BY <1>1, <3>1, SumOfAny
    <3>4. Sum(f, S \ U) = f[y] + Sum(f, (S \ U) \ {y})
      <4>1. y \in S \ U /\ IsFiniteSet(S \ U) /\ \A x \in S \ U : f[x] \in Nat
        BY <1>1, <3>1, <3>2
      <4> HIDE DEF y, U
      <4>2. QED
        BY <4>1, SumOfAny
    <3>5. (S \ U) \ {y} = S \ T
      BY <3>1
    <3> HIDE DEF y, U
    <3>6. Sum(f, S) = Sum(f, T) + Sum(f, S \ T)
      BY <1>2, <3>1, <3>2, <3>3, <3>4, <3>5
    <3>7. QED
      BY <3>6
  <2>3. QED
    BY <2>1, <2>2
<1>4. \A T \in SUBSET S : T \in Z
  <2> HIDE DEF Z
  <2>1. QED
    BY <1>3, SubsetInduction
<1>5. QED
  BY <1>2, <1>4

\* What is added to each element is added to the sum as often: here d is 0 or 1.
LEMMA SumOfMore ==
    ASSUME NEW f, NEW g, NEW S, NEW d \in {0, 1}, IsFiniteSet(S),
           \A x \in S : f[x] \in Nat /\ g[x] = f[x] + d
    PROVE  Sum(g, S) = Sum(f, S) + d * Cardinality(S)
<1> DEFINE Z == {T \in SUBSET S : Sum(g, T) = Sum(f, T) + d * Cardinality(T)}
<1>1. \A T \in SUBSET S : IsFiniteSet(T) /\ Sum(f, T) \in Nat /\ Cardinality(T) \in Nat
  BY FS_Subset, FS_CardinalityType, SumType
<1>2. ASSUME NEW T \in SUBSET S, \A U \in SUBSET T : U # T => U \in Z
      PROVE  T \in Z
  <2>1. CASE T = {}
    BY <1>1, <2>1, SumOfNone, FS_EmptySet
  <2>2. CASE T # {}
    <3> DEFINE y == Picked(T)  U == T \ {y}
    <3>1. y \in T /\ f[y] \in Nat /\ g[y] = f[y] + d
      BY <2>2 DEF Picked
    <3>2. U \in SUBSET S /\ Sum(g, U) = Sum(f, U) + d * Cardinality(U)
      BY <1>2, <3>1
    <3>3. Sum(f, T) = f[y] + Sum(f, U) /\ Sum(g, T) = g[y] + Sum(g, U)
      BY <1>1, <2>2, SumOfPicked
    <3>4. Cardinality(T) = Cardinality(U) + 1
      BY <1>1, <3>1, <3>2, FS_RemoveElement
    <3> HIDE DEF y, U
    <3>5. Sum(g, T) = Sum(f, T) + d * Cardinality(T)
      BY <1>1, <3>1, <3>2, <3>3, <3>4
    <3>6. QED
      BY <3>5
  <2>3. QED
    BY <2>1, <2>2
<1>3. \A T \in SUBSET S : T \in Z
  <2> HIDE DEF Z
  <2>1. QED
    BY <1>2, SubsetInduction
<1>4. QED
  BY <1>3

\* Sums of the same are the same.
LEMMA SumOfSame ==
    ASSUME NEW f, NEW g, NEW S, IsFiniteSet(S), \A x \in S : f[x] \in Nat /\ g[x] = f[x]
    PROVE  Sum(g, S) = Sum(f, S) /\ Sum(f, S) \in Nat
<1>1. Sum(g, S) = Sum(f, S) + 0 * Cardinality(S)
  BY SumOfMore
<1>2. QED
  BY <1>1, SumType, FS_CardinalityType

\* A change of one element changes the sum by as much.
LEMMA SumOfChanged ==
    ASSUME NEW f, NEW g, NEW S, IsFiniteSet(S), NEW y \in S,
           \A x \in S : f[x] \in Nat /\ g[x] \in Nat /\ (x # y => g[x] = f[x])
    PROVE  Sum(g, S) + f[y] = Sum(f, S) + g[y] /\ Sum(f, S) \in Nat /\ Sum(g, S) \in Nat
<1>1. IsFiniteSet(S \ {y})
  BY FS_Subset
<1>2. Sum(g, S \ {y}) = Sum(f, S \ {y}) /\ Sum(f, S \ {y}) \in Nat
  BY <1>1, SumOfSame
<1>3. Sum(f, S) = f[y] + Sum(f, S \ {y}) /\ Sum(g, S) = g[y] + Sum(g, S \ {y})
  BY SumOfAny
<1>4. f[y] \in Nat /\ g[y] \in Nat
  OBVIOUS
<1>5. QED
  BY <1>2, <1>3, <1>4

\* Sums of less are less.
LEMMA SumOfLess ==
    ASSUME NEW f, NEW g, NEW S, IsFiniteSet(S),
           \A x \in S : f[x] \in Nat /\ g[x] \in Nat /\ f[x] <= g[x]
    PROVE  Sum(f, S) \in Nat /\ Sum(g, S) \in Nat /\ Sum(f, S) <= Sum(g, S)
<1> DEFINE Z == {T \in SUBSET S : Sum(f, T) <= Sum(g, T)}
<1>1. \A T \in SUBSET S : IsFiniteSet(T) /\ Sum(f, T) \in Nat /\ Sum(g, T) \in Nat
  BY FS_Subset, SumType
<1>2. ASSUME NEW T \in SUBSET S, \A U \in SUBSET T : U # T => U \in Z
      PROVE  T \in Z
  <2>1. CASE T = {}
    BY <1>1, <2>1, SumOfNone
  <2>2. CASE T # {}
    <3> DEFINE y == Picked(T)  U == T \ {y}
    <3>1. y \in T /\ f[y] \in Nat /\ g[y] \in Nat /\ f[y] <= g[y]
      BY <2>2 DEF Picked
    <3>2. U \in SUBSET S /\ Sum(f, U) <= Sum(g, U)
      BY <1>2, <3>1
    <3>3. Sum(f, T) = f[y] + Sum(f, U) /\ Sum(g, T) = g[y] + Sum(g, U)
      BY <1>1, <2>2, SumOfPicked
    <3>4. Sum(f, U) \in Nat /\ Sum(g, U) \in Nat
      BY <1>1, <3>2
    <3> HIDE DEF y, U
    <3>5. Sum(f, T) <= Sum(g, T)
      BY <3>1, <3>2, <3>3, <3>4
    <3>6. QED
      BY <3>5
  <2>3. QED
    BY <2>1, <2>2
<1>3. \A T \in SUBSET S : T \in Z
  <2> HIDE DEF Z
  <2>1. QED
    BY <1>2, SubsetInduction
<1>4. QED
  BY <1>1, <1>3

-----------------------------------------------------------------------------
(***************************************************************************)
(* The delivery byte budget.                                               *)
(***************************************************************************)

Loads == [todo : SUBSET Captures, reading : SUBSET Captures, batch : SUBSET Captures,
          sending : SUBSET Captures, done : SUBSET Captures]

BudgetTypeOK ==
    /\ budget \in Nat /\ size \in [Captures -> Nat] /\ freeBytes \in Nat
    /\ waiters \in Seq(Captures) /\ permits \in SUBSET Captures /\ due \in SUBSET Captures
    /\ load \in [Workers -> Loads]

Whole(l) == l.todo \cup l.reading \cup l.batch \cup l.sending \cup l.done
Packed(l) == l.batch \cup l.sending

\* A capture is at one place of a load.
Parted(l) ==
    /\ l.todo \cap (l.reading \cup l.batch \cup l.sending \cup l.done) = {}
    /\ l.reading \cap (l.batch \cup l.sending \cup l.done) = {}
    /\ l.batch \cap (l.sending \cup l.done) = {}
    /\ l.sending \cap l.done = {}

\* A capture is due, or with one worker.
Apart ==
    /\ \A w \in Workers : Parted(load[w]) /\ due \cap Whole(load[w]) = {}
    /\ \A w, x \in Workers : w # x => Whole(load[w]) \cap Whole(load[x]) = {}

\* A capture with permits is being read or waits to be sent; what waits to be
\* sent has permits.
Holding ==
    /\ permits \subseteq UNION {load[w].reading \cup Packed(load[w]) : w \in Workers}
    /\ \A w \in Workers : Packed(load[w]) \subseteq permits

\* A capture waits for permits once, while it is being read, and has none.
Queued ==
    /\ \A n \in 1 .. Len(waiters) :
          /\ waiters[n] \notin permits
          /\ \E w \in Workers : waiters[n] \in load[w].reading
    /\ \A m, n \in 1 .. Len(waiters) : waiters[m] = waiters[n] => m = n

Balanced == freeBytes + PermitsOf(permits) = budget

BudgetInv == BudgetTypeOK /\ Apart /\ Holding /\ Queued /\ Balanced

-----------------------------------------------------------------------------
\* What a worker has claimed, as a union of its five sets.
LEMMA ClaimedIsWhole ==
    \A w : Claimed(w) = Whole(load[w])
<1> SUFFICES ASSUME NEW w PROVE Claimed(w) = Whole(load[w])
  OBVIOUS
<1>1. DOMAIN NoLoad = {"todo", "reading", "batch", "sending", "done"}
  BY DEF NoLoad
<1>2. Claimed(w) = UNION {load[w][f] : f \in {"todo", "reading", "batch", "sending", "done"}}
  BY <1>1 DEF Claimed
<1>3. QED
  BY <1>2 DEF Whole

\* Reservations are naturals.
LEMMA ReservationType ==
    ASSUME BudgetTypeOK
    PROVE  \A i \in Captures : Reservation(i) \in Nat
BY BudgetAssumption DEF BudgetTypeOK, Reservation

\* The permits of a set of captures, of one more, and of the rest.
LEMMA PermitsAdd ==
    ASSUME BudgetTypeOK, NEW P \in SUBSET Captures
    PROVE  /\ PermitsOf(P) \in Nat
           /\ \A i \in Captures \ P : PermitsOf(P \cup {i}) = PermitsOf(P) + Reservation(i)
           /\ \A Q \in SUBSET P : /\ PermitsOf(Q) \in Nat /\ PermitsOf(P \ Q) \in Nat
                                  /\ PermitsOf(P) = PermitsOf(Q) + PermitsOf(P \ Q)
<1> DEFINE f == [i \in Captures |-> Reservation(i)]
<1>1. \A i \in Captures : f[i] = Reservation(i) /\ f[i] \in Nat
  BY ReservationType
<1>2. \A Q : PermitsOf(Q) = Sum(f, Q)
  BY DEF PermitsOf, Sum
<1>3. IsFiniteSet(P) /\ IsFiniteSet(Captures)
  BY FS_Subset, BudgetAssumption
<1> HIDE DEF f
<1>4. ASSUME NEW Q \in SUBSET P
      PROVE  /\ PermitsOf(Q) \in Nat /\ PermitsOf(P \ Q) \in Nat
             /\ PermitsOf(P) = PermitsOf(Q) + PermitsOf(P \ Q)
  BY <1>1, <1>2, <1>3, SumOfParts
<1>5. ASSUME NEW i \in Captures \ P
      PROVE  PermitsOf(P \cup {i}) = PermitsOf(P) + Reservation(i)
  <2>1. IsFiniteSet(P \cup {i}) /\ (P \cup {i}) \ {i} = P /\ \A x \in P \cup {i} : f[x] \in Nat
    BY <1>1, <1>3, FS_AddElement
  <2>2. Sum(f, P \cup {i}) = f[i] + Sum(f, P)
    BY <2>1, SumOfAny
  <2>3. Sum(f, P) \in Nat
    BY <1>1, <1>3, SumType
  <2>4. QED
    BY <1>1, <1>2, <2>2, <2>3
<1>6. PermitsOf(P) \in Nat
  BY <1>1, <1>2, <1>3, SumType
<1>7. QED
  BY <1>4, <1>5, <1>6

\* A new length of a capture without permits changes nothing.
LEMMA PermitsStay ==
    ASSUME BudgetTypeOK, BudgetTypeOK', NEW P \in SUBSET Captures,
           \A i \in P : size'[i] = size[i]
    PROVE  PermitsOf(P)' = PermitsOf(P)
<1> DEFINE f == [i \in Captures |-> Reservation(i)]
           g == [i \in Captures |-> IF size'[i] = 0 THEN MaxEnvelope + 1 ELSE size'[i]]
<1>1. \A i \in P : f[i] \in Nat /\ g[i] = f[i]
  BY ReservationType DEF Reservation
<1>2. PermitsOf(P) = Sum(f, P) /\ PermitsOf(P)' = Sum(g, P)
  BY DEF PermitsOf, Sum, Reservation
<1>3. IsFiniteSet(P)
  BY FS_Subset, BudgetAssumption
<1> HIDE DEF f, g
<1>4. QED
  BY <1>1, <1>2, <1>3, SumOfSame

\* A step of one worker that leaves its claims within itself keeps claims apart.
LEMMA OneMoves ==
    ASSUME BudgetTypeOK, Apart, NEW w \in Workers, NEW l \in Loads,
           load' = [load EXCEPT ![w] = l], Parted(l),
           Whole(l) \subseteq Whole(load[w]) \cup (due \ due'),
           due' \cap Whole(l) = {}, due' \subseteq due \cup Whole(load[w])
    PROVE  Apart'
<1>1. /\ load'[w] = l
      /\ \A x \in Workers : x # w => load'[x] = load[x]
  BY DEF BudgetTypeOK
<1>2. \A x \in Workers : x # w => Whole(load[x]) \cap Whole(l) = {} /\ due' \cap Whole(load[x]) = {}
  BY DEF Apart
<1>3. \A x \in Workers : Parted(load'[x]) /\ due' \cap Whole(load'[x]) = {}
  BY <1>1, <1>2 DEF Apart
<1>4. \A x, y \in Workers : x # y => Whole(load'[x]) \cap Whole(load'[y]) = {}
  BY <1>1, <1>2 DEF Apart
<1>5. QED
  BY <1>3, <1>4 DEF Apart

\* So do its permits, when they come and go with what it reads and packs ...
LEMMA HoldingMoves ==
    ASSUME BudgetTypeOK, Apart, Holding, NEW w \in Workers, NEW l \in Loads,
           load' = [load EXCEPT ![w] = l],
           permits' \subseteq (permits \ Whole(load[w])) \cup l.reading \cup Packed(l),
           permits \ Whole(load[w]) \subseteq permits', Packed(l) \subseteq permits'
    PROVE  Holding'
<1>1. /\ load'[w] = l
      /\ \A x \in Workers : x # w => load'[x] = load[x]
  BY DEF BudgetTypeOK
<1>2. ASSUME NEW i \in permits'
      PROVE  \E x \in Workers : i \in load'[x].reading \cup Packed(load'[x])
  <2>1. CASE i \in l.reading \cup Packed(l)
    BY <1>1, <2>1
  <2>2. CASE i \in permits \ Whole(load[w])
    <3>1. PICK x \in Workers : i \in load[x].reading \cup Packed(load[x])
      BY <2>2 DEF Holding
    <3>2. x # w
      BY <2>2, <3>1 DEF Whole, Packed
    <3>3. QED
      BY <1>1, <3>1, <3>2
  <2>3. QED
    BY <2>1, <2>2
<1>3. ASSUME NEW x \in Workers
      PROVE  Packed(load'[x]) \subseteq permits'
  <2>1. CASE x = w
    BY <1>1, <2>1
  <2>2. CASE x # w
    <3>1. Packed(load[x]) \subseteq permits
      BY DEF Holding
    <3>2. Packed(load[x]) \cap Whole(load[w]) = {}
      BY <2>2 DEF Apart, Packed, Whole
    <3>3. QED
      BY <1>1, <2>2, <3>1, <3>2
  <2>3. QED
    BY <2>1, <2>2
<1>4. QED
  BY <1>2, <1>3 DEF Holding

\* ... and its waiters, when it reads on whatever has no permits yet.
LEMMA QueuedMoves ==
    ASSUME BudgetTypeOK, Queued, NEW w \in Workers, NEW l \in Loads,
           load' = [load EXCEPT ![w] = l], waiters' = waiters,
           permits' \subseteq permits, load[w].reading \ permits \subseteq l.reading
    PROVE  Queued'
<1>1. /\ load'[w] = l
      /\ \A x \in Workers : x # w => load'[x] = load[x]
  BY DEF BudgetTypeOK
<1>2. ASSUME NEW n \in 1 .. Len(waiters)
      PROVE  waiters[n] \notin permits' /\ \E x \in Workers : waiters[n] \in load'[x].reading
  <2>1. waiters[n] \notin permits
    BY DEF Queued
  <2>2. PICK x \in Workers : waiters[n] \in load[x].reading
    BY DEF Queued
  <2>3. waiters[n] \in load'[x].reading
    BY <1>1, <2>1, <2>2
  <2>4. QED
    BY <2>1, <2>3
<1>3. \A m, n \in 1 .. Len(waiters) : waiters[m] = waiters[n] => m = n
  BY DEF Queued
<1>4. QED
  BY <1>2, <1>3 DEF Queued

\* The books balance when the step's own change does.
LEMMA BalancedMoves ==
    ASSUME NEW P, permits' = P, size' = size, budget' = budget,
           freeBytes' + PermitsOf(P) = budget
    PROVE  Balanced'
<1>1. PermitsOf(permits)' = PermitsOf(P)
  BY DEF PermitsOf, Reservation
<1>2. QED
  BY <1>1 DEF Balanced

-----------------------------------------------------------------------------
LEMMA GrantKeeps ==
    ASSUME BudgetInv, Grant
    PROVE  BudgetInv'
<1> USE DEF BudgetInv
<1> DEFINE i == waiters[1]
<1>1. /\ waiters # <<>> /\ i = Head(waiters) /\ 1 \in 1 .. Len(waiters) /\ i \in Captures
      /\ Tail(waiters) \in Seq(Captures) /\ Len(Tail(waiters)) = Len(waiters) - 1
      /\ \A n \in 1 .. Len(Tail(waiters)) : Tail(waiters)[n] = waiters[n + 1]
  BY DEF BudgetTypeOK, Grant
<1>2. i \notin permits
  BY <1>1 DEF Queued
<1>3. PICK P \in SUBSET Captures : P = permits \cup {i}
  BY <1>1 DEF BudgetTypeOK
<1>4. /\ permits' = P /\ size' = size /\ budget' = budget /\ due' = due /\ load' = load
      /\ waiters' = Tail(waiters) /\ freeBytes' = freeBytes - Reservation(i)
      /\ Reservation(i) <= freeBytes
  BY <1>1, <1>3 DEF Grant
<1>5. Reservation(i) \in Nat /\ freeBytes \in Nat
  BY <1>1, ReservationType DEF BudgetTypeOK
<1>6. BudgetTypeOK'
  BY <1>1, <1>4, <1>5 DEF BudgetTypeOK
<1>7. Apart'
  BY <1>4 DEF Apart
<1>8. Holding'
  <2>1. \E x \in Workers : i \in load[x].reading
    BY <1>1 DEF Queued
  <2>2. QED
    BY <1>3, <1>4, <2>1 DEF Holding
<1>9. Queued'
  <2>1. ASSUME NEW n \in 1 .. Len(waiters')
        PROVE  waiters'[n] \notin permits' /\ \E w \in Workers : waiters'[n] \in load'[w].reading
    <3>1. n + 1 \in 1 .. Len(waiters) /\ waiters'[n] = waiters[n + 1] /\ n + 1 # 1
      BY <1>1, <1>4 DEF BudgetTypeOK
    <3>2. waiters[n + 1] # i
      BY <1>1, <3>1 DEF Queued
    <3>3. QED
      BY <1>3, <1>4, <3>1, <3>2 DEF Queued
  <2>2. ASSUME NEW m \in 1 .. Len(waiters'), NEW n \in 1 .. Len(waiters'), waiters'[m] = waiters'[n]
        PROVE  m = n
    <3>1. /\ m + 1 \in 1 .. Len(waiters) /\ waiters'[m] = waiters[m + 1]
          /\ n + 1 \in 1 .. Len(waiters) /\ waiters'[n] = waiters[n + 1]
      BY <1>1, <1>4 DEF BudgetTypeOK
    <3>2. m + 1 = n + 1
      BY <2>2, <3>1 DEF Queued
    <3>3. QED
      BY <3>2
  <2>3. QED
    BY <2>1, <2>2 DEF Queued
<1>10. Balanced'
  <2>1. PermitsOf(P) = PermitsOf(permits) + Reservation(i) /\ PermitsOf(permits) \in Nat
    BY <1>1, <1>2, <1>3, PermitsAdd DEF BudgetTypeOK
  <2>2. freeBytes' + PermitsOf(P) = budget
    BY <1>4, <1>5, <2>1 DEF Balanced
  <2>3. QED
    BY <1>4, <2>2, BalancedMoves
<1>11. QED
  BY <1>6, <1>7, <1>8, <1>9, <1>10

\* What a step of worker w that leaves budget and sizes alone has to show.
LEMMA WorkerKeeps ==
    ASSUME BudgetInv, NEW w \in Workers, NEW l \in Loads, NEW P \in SUBSET Captures,
           load' = [load EXCEPT ![w] = l], permits' = P, Parted(l),
           UNCHANGED <<budget, size, waiters>>, due' \in SUBSET Captures,
           Whole(l) \subseteq Whole(load[w]) \cup (due \ due'),
           due' \cap Whole(l) = {}, due' \subseteq due \cup Whole(load[w]),
           P \subseteq permits,
           P \subseteq (permits \ Whole(load[w])) \cup l.reading \cup Packed(l),
           permits \ Whole(load[w]) \subseteq P, Packed(l) \subseteq P,
           load[w].reading \ permits \subseteq l.reading,
           freeBytes' \in Nat, freeBytes' + PermitsOf(P) = budget
    PROVE  BudgetInv'
<1>0. BudgetTypeOK /\ Apart /\ Holding /\ Queued /\ Balanced
  BY DEF BudgetInv
<1>1. BudgetTypeOK'
  BY <1>0 DEF BudgetTypeOK
<1>2. Apart'
  BY <1>0, OneMoves
<1>3. Holding'
  BY <1>0, HoldingMoves
<1>4. Queued'
  BY <1>0, QueuedMoves
<1>5. Balanced'
  BY BalancedMoves
<1>6. QED
  BY <1>1, <1>2, <1>3, <1>4, <1>5 DEF BudgetInv

\* A load of a worker, and its parts.
LEMMA LoadType ==
    ASSUME BudgetInv, NEW w \in Workers
    PROVE  /\ load[w] \in Loads /\ Parted(load[w]) /\ due \cap Whole(load[w]) = {}
           /\ Packed(load[w]) \subseteq permits /\ permits \in SUBSET Captures
           /\ permits \cap load[w].todo = {} /\ permits \cap load[w].done = {}
           /\ due \in SUBSET Captures /\ freeBytes \in Nat
           /\ freeBytes + PermitsOf(permits) = budget
<1>1. /\ load[w] \in Loads /\ Parted(load[w]) /\ due \cap Whole(load[w]) = {}
      /\ Packed(load[w]) \subseteq permits /\ permits \in SUBSET Captures
      /\ due \in SUBSET Captures /\ freeBytes \in Nat
      /\ freeBytes + PermitsOf(permits) = budget
  BY DEF BudgetInv, BudgetTypeOK, Apart, Holding, Balanced
<1>2. ASSUME NEW i \in permits
      PROVE  i \notin load[w].todo \cup load[w].done
  <2>1. PICK x \in Workers : i \in load[x].reading \cup Packed(load[x])
    BY DEF BudgetInv, Holding
  <2>2. CASE x = w
    BY <1>1, <2>1, <2>2 DEF Parted, Packed
  <2>3. CASE x # w
    BY <2>1, <2>3 DEF BudgetInv, Apart, Whole, Packed
  <2>4. QED
    BY <2>2, <2>3
<1>3. QED
  BY <1>1, <1>2

LEMMA ClaimKeeps ==
    ASSUME BudgetInv, NEW w \in Workers, NEW S \in SUBSET due, ClaimLoad(w, S)
    PROVE  BudgetInv'
<1> DEFINE l == [NoLoad EXCEPT !.todo = S]
<1>1. load[w] = NoLoad /\ load' = [load EXCEPT ![w] = l]
  BY DEF ClaimLoad
<1>2. /\ l.todo = S /\ l.reading = {} /\ l.batch = {} /\ l.sending = {} /\ l.done = {}
      /\ Whole(NoLoad) = {} /\ NoLoad.reading = {}
  BY DEF NoLoad, Whole
<1>3. S \in SUBSET Captures
  BY LoadType
<1>4. l \in Loads
  BY <1>3 DEF Loads, NoLoad
<1> HIDE DEF l
<1>5. PICK P \in SUBSET Captures : P = permits
  BY LoadType
<1>6. Whole(l) = S /\ Packed(l) = {} /\ Parted(l)
  BY <1>2 DEF Whole, Packed, Parted
<1>7. /\ permits' = P /\ freeBytes' = freeBytes /\ due' = due \ S
      /\ UNCHANGED <<budget, size, waiters>>
  BY <1>5 DEF ClaimLoad
<1>8. freeBytes' \in Nat /\ freeBytes' + PermitsOf(P) = budget /\ due' \in SUBSET Captures
  BY <1>5, <1>7, LoadType
<1>9. QED
  BY <1>1, <1>2, <1>3, <1>4, <1>5, <1>6, <1>7, <1>8, WorkerKeeps

LEMMA NextBodyKeeps ==
    ASSUME BudgetInv, NEW w \in Workers, NEW i \in Captures, NextBody(w, i)
    PROVE  BudgetInv'
<1> DEFINE a == load[w]
<1>1. /\ a \in Loads /\ Parted(a) /\ due \cap Whole(a) = {} /\ i \in a.reading
      /\ i \in permits /\ Packed(a) \subseteq permits /\ a.sending = {}
  BY LoadType DEF NextBody
<1>2. PICK l \in Loads : /\ l = AddToBatch(w, i)
                         /\ l.todo = a.todo /\ l.reading = a.reading \ {i} /\ l.done = a.done
                         /\ Packed(l) = a.batch \cup {i} /\ l.batch \cap l.sending = {}
  <2>1. a.batch \cap {i} = {}
    BY <1>1 DEF Parted
  <2> DEFINE b == a.batch \cup {i}
             l1 == [a EXCEPT !.reading = @ \ {i}, !.sending = a.batch, !.batch = {i}]
             l2 == [a EXCEPT !.reading = @ \ {i}, !.sending = b, !.batch = {}]
             l3 == [a EXCEPT !.reading = @ \ {i}, !.batch = b]
  <2>2. AddToBatch(w, i) \in {l1, l2, l3}
    BY DEF AddToBatch
  <2>3. /\ l1 \in Loads /\ l1.todo = a.todo /\ l1.reading = a.reading \ {i} /\ l1.done = a.done
        /\ l1.batch = {i} /\ l1.sending = a.batch
    BY <1>1 DEF Loads
  <2>4. /\ l2 \in Loads /\ l2.todo = a.todo /\ l2.reading = a.reading \ {i} /\ l2.done = a.done
        /\ l2.batch = {} /\ l2.sending = b
    BY <1>1 DEF Loads
  <2>5. /\ l3 \in Loads /\ l3.todo = a.todo /\ l3.reading = a.reading \ {i} /\ l3.done = a.done
        /\ l3.batch = b /\ l3.sending = {}
    BY <1>1 DEF Loads
  <2> HIDE DEF l1, l2, l3
  <2>6. \A l \in {l1, l2, l3} : /\ l \in Loads
                               /\ l.todo = a.todo /\ l.reading = a.reading \ {i} /\ l.done = a.done
                               /\ Packed(l) = a.batch \cup {i} /\ l.batch \cap l.sending = {}
    BY <2>1, <2>3, <2>4, <2>5 DEF Packed
  <2>7. QED
    BY <2>2, <2>6
<1>3. PICK P \in SUBSET Captures : P = permits
  BY LoadType
<1>4. /\ load' = [load EXCEPT ![w] = l] /\ permits' = P /\ freeBytes' = freeBytes
      /\ due' = due /\ UNCHANGED <<budget, size, waiters>>
  BY <1>2, <1>3 DEF NextBody
<1>5. Whole(l) = Whole(a) /\ Parted(l) /\ Packed(a) = a.batch
  BY <1>1, <1>2 DEF Whole, Parted, Packed
<1>6. Packed(l) \subseteq permits /\ a.reading \ permits \subseteq l.reading
  BY <1>1, <1>2, <1>5
<1>7. permits \subseteq (permits \ Whole(a)) \cup l.reading \cup Packed(l)
  <2>1. permits \cap a.todo = {} /\ permits \cap a.done = {}
    BY LoadType
  <2>2. QED
    BY <1>1, <1>2, <2>1 DEF Whole
<1>8. freeBytes' \in Nat /\ freeBytes' + PermitsOf(P) = budget /\ due' \in SUBSET Captures
  BY <1>3, <1>4, LoadType
<1>9. QED
  BY <1>1, <1>3, <1>4, <1>5, <1>6, <1>7, <1>8, WorkerKeeps

LEMMA SendLastKeeps ==
    ASSUME BudgetInv, NEW w \in Workers, SendLast(w)
    PROVE  BudgetInv'
<1> DEFINE a == load[w]  l == [load[w] EXCEPT !.sending = load[w].batch, !.batch = {}]
<1>1. /\ a \in Loads /\ Parted(a) /\ due \cap Whole(a) = {}
      /\ Packed(a) \subseteq permits /\ a.sending = {}
  BY LoadType DEF SendLast
<1>2. /\ l \in Loads /\ l.todo = a.todo /\ l.reading = a.reading /\ l.done = a.done
      /\ l.sending = a.batch /\ l.batch = {}
  BY <1>1 DEF Loads
<1>3. PICK P \in SUBSET Captures : P = permits
  BY LoadType
<1>4. /\ load' = [load EXCEPT ![w] = l] /\ permits' = P /\ freeBytes' = freeBytes
      /\ due' = due /\ UNCHANGED <<budget, size, waiters>>
  BY <1>3 DEF SendLast
<1> HIDE DEF l
<1>5. Whole(l) = Whole(a) /\ Parted(l) /\ Packed(l) = Packed(a)
  BY <1>1, <1>2 DEF Whole, Parted, Packed
<1>6. permits \subseteq (permits \ Whole(a)) \cup l.reading \cup Packed(l)
  <2>1. permits \cap a.todo = {} /\ permits \cap a.done = {}
    BY LoadType
  <2>2. QED
    BY <1>1, <1>2, <2>1 DEF Whole, Packed
<1>7. freeBytes' \in Nat /\ freeBytes' + PermitsOf(P) = budget /\ due' \in SUBSET Captures
  BY <1>3, <1>4, LoadType
<1>8. QED
  BY <1>1, <1>2, <1>3, <1>4, <1>5, <1>6, <1>7, WorkerKeeps

LEMMA ReadFailsKeeps ==
    ASSUME BudgetInv, NEW w \in Workers, NEW i \in Captures, ReadFails(w, i)
    PROVE  BudgetInv'
<1> DEFINE a == load[w]
           l == [load[w] EXCEPT !.reading = @ \ {i}, !.done = @ \cup {i}]
<1>1. /\ a \in Loads /\ Parted(a) /\ due \cap Whole(a) = {}
      /\ Packed(a) \subseteq permits /\ i \in a.reading /\ i \in permits
  BY LoadType DEF ReadFails
<1>2. /\ l \in Loads /\ l.todo = a.todo /\ l.reading = a.reading \ {i} /\ l.done = a.done \cup {i}
      /\ l.sending = a.sending /\ l.batch = a.batch
  BY <1>1 DEF Loads
<1>3. PICK P \in SUBSET Captures : P = permits \ {i}
  BY LoadType
<1>4. /\ load' = [load EXCEPT ![w] = l] /\ permits' = P /\ freeBytes' = freeBytes + Reservation(i)
      /\ due' = due /\ UNCHANGED <<budget, size, waiters>>
  BY <1>3 DEF ReadFails
<1> HIDE DEF l
<1>5. Whole(l) = Whole(a) /\ Parted(l) /\ Packed(l) = Packed(a)
  BY <1>1, <1>2 DEF Whole, Parted, Packed
<1>6. permits \ {i} \subseteq (permits \ Whole(a)) \cup l.reading \cup Packed(l)
  <2>1. permits \cap a.todo = {} /\ permits \cap a.done = {}
    BY LoadType
  <2>2. QED
    BY <1>1, <1>2, <2>1 DEF Whole, Packed
<1>7. /\ Packed(l) \subseteq P /\ a.reading \ permits \subseteq l.reading /\ i \in Whole(a)
      /\ permits \ Whole(a) \subseteq P /\ P \subseteq permits
  BY <1>1, <1>2, <1>3, <1>5 DEF Packed, Parted, Whole
<1>8. freeBytes' \in Nat /\ freeBytes' + PermitsOf(P) = budget /\ due' \in SUBSET Captures
  <2>1. BudgetTypeOK
    BY DEF BudgetInv
  <2>2. i \in Captures \ P /\ P \cup {i} = permits
    BY <1>1, <1>3
  <2>3. PermitsOf(permits) = PermitsOf(P) + Reservation(i) /\ PermitsOf(P) \in Nat
    BY <2>1, <2>2, PermitsAdd
  <2>4. Reservation(i) \in Nat
    BY <2>1, ReservationType
  <2>5. QED
    BY <1>4, <2>3, <2>4, LoadType
<1>9. P \subseteq (permits \ Whole(a)) \cup l.reading \cup Packed(l)
  BY <1>3, <1>6
<1>10. QED
  BY <1>1, <1>2, <1>3, <1>4, <1>5, <1>7, <1>8, <1>9, WorkerKeeps

LEMMA SentKeeps ==
    ASSUME BudgetInv, NEW w \in Workers, Sent(w)
    PROVE  BudgetInv'
<1> DEFINE a == load[w]
<1>1. /\ a \in Loads /\ Parted(a) /\ due \cap Whole(a) = {} /\ Packed(a) \subseteq permits
  BY LoadType
<1>2. PICK l \in Loads : /\ load' = [load EXCEPT ![w] = l]
                         /\ l.todo = a.todo /\ l.reading = a.reading
                         /\ l.done = a.done \cup a.sending
                         /\ Packed(l) = a.batch /\ l.batch \cap l.sending = {}
  <2> DEFINE l == [a EXCEPT !.sending = IF BytesOf(a.batch) >= BatchBytes THEN a.batch ELSE {},
                            !.batch = IF BytesOf(a.batch) >= BatchBytes THEN {} ELSE @,
                            !.done = @ \cup a.sending]
  <2>1. load' = [load EXCEPT ![w] = l]
    BY <1>1 DEF Sent
  <2>2. l \in {[a EXCEPT !.sending = a.batch, !.batch = {}, !.done = a.done \cup a.sending],
               [a EXCEPT !.sending = {}, !.batch = a.batch, !.done = a.done \cup a.sending]}
    BY <1>1 DEF Loads
  <2> HIDE DEF l
  <2>3. /\ l \in Loads /\ l.todo = a.todo /\ l.reading = a.reading
        /\ l.done = a.done \cup a.sending
        /\ Packed(l) = a.batch /\ l.batch \cap l.sending = {}
    BY <1>1, <2>2 DEF Loads, Packed
  <2>4. QED
    BY <2>1, <2>3
<1>3. PICK Q : Q = a.sending
  OBVIOUS
<1>4. Q \in SUBSET permits
  BY <1>1, <1>3 DEF Packed
<1>5. PICK P \in SUBSET Captures : P = permits \ Q
  BY LoadType
<1>6. /\ permits' = P /\ freeBytes' = freeBytes + PermitsOf(Q)
      /\ due' = due /\ UNCHANGED <<budget, size, waiters>>
  BY <1>3, <1>5 DEF Sent
<1>7. Whole(l) = Whole(a) /\ Parted(l)
  BY <1>1, <1>2 DEF Whole, Parted, Packed
<1>8. P \subseteq (permits \ Whole(a)) \cup l.reading \cup Packed(l)
  <2>1. permits \cap a.todo = {} /\ permits \cap a.done = {}
    BY LoadType
  <2>2. QED
    BY <1>2, <1>3, <1>5, <2>1 DEF Whole
<1>9. /\ Packed(l) \subseteq P /\ a.reading \ permits \subseteq l.reading
      /\ permits \ Whole(a) \subseteq P /\ P \subseteq permits
  BY <1>1, <1>2, <1>3, <1>5 DEF Packed, Parted, Whole
<1>10. freeBytes' \in Nat /\ freeBytes' + PermitsOf(P) = budget /\ due' \in SUBSET Captures
  <2>1. BudgetTypeOK
    BY DEF BudgetInv
  <2>2. PermitsOf(permits) = PermitsOf(Q) + PermitsOf(P) /\ PermitsOf(P) \in Nat /\ PermitsOf(Q) \in Nat
    BY <1>4, <1>5, <2>1, PermitsAdd, LoadType
  <2>3. QED
    BY <1>6, <2>2, LoadType
<1>11. QED
  BY <1>1, <1>2, <1>6, <1>7, <1>8, <1>9, <1>10, WorkerKeeps

LEMMA FinishKeeps ==
    ASSUME BudgetInv, NEW w \in Workers, NEW again \in SUBSET load[w].done, FinishLoad(w, again)
    PROVE  BudgetInv'
<1> DEFINE a == load[w]
<1>1. /\ a \in Loads /\ Parted(a) /\ due \cap Whole(a) = {} /\ Packed(a) \subseteq permits
      /\ permits \cap a.done = {} /\ Whole(a) = a.done /\ load' = [load EXCEPT ![w] = NoLoad]
  BY LoadType, ClaimedIsWhole DEF FinishLoad
<1>2. NoLoad \in Loads /\ Parted(NoLoad) /\ Whole(NoLoad) = {} /\ Packed(NoLoad) = {}
  BY DEF NoLoad, Loads, Parted, Whole, Packed
<1>3. PICK P \in SUBSET Captures : P = permits
  BY LoadType
<1>4. /\ permits' = P /\ freeBytes' = freeBytes /\ due' = due \cup again
      /\ UNCHANGED <<budget, size, waiters>>
  BY <1>3 DEF FinishLoad
<1>5. a.reading = {}
  BY <1>1 DEF Whole, Parted
<1>6. due' \in SUBSET Captures /\ due' \subseteq due \cup Whole(a)
  BY <1>1, <1>4, LoadType DEF Loads
<1>7. freeBytes' \in Nat /\ freeBytes' + PermitsOf(P) = budget
  BY <1>3, <1>4, LoadType
<1>8. due' \cap Whole(NoLoad) = {} /\ Whole(NoLoad) \subseteq Whole(a) \cup (due \ due')
  BY <1>2
<1>9. P \subseteq (permits \ Whole(a)) \cup NoLoad.reading \cup Packed(NoLoad)
  BY <1>1, <1>3
<1>10. /\ P \subseteq permits /\ permits \ Whole(a) \subseteq P /\ Packed(NoLoad) \subseteq P
       /\ a.reading \ permits \subseteq NoLoad.reading
  BY <1>2, <1>3, <1>5
<1>11. QED
  BY <1>1, <1>2, <1>4, <1>6, <1>7, <1>8, <1>9, <1>10, WorkerKeeps

LEMMA StartReadKeeps ==
    ASSUME BudgetInv, NEW w \in Workers, NEW i \in Captures, StartRead(w, i)
    PROVE  BudgetInv'
<1> DEFINE a == load[w]
<1>1. /\ a \in Loads /\ Parted(a) /\ due \cap Whole(a) = {} /\ i \in a.todo
      /\ Packed(a) \subseteq permits /\ i \notin permits
  BY LoadType DEF StartRead
<1>2. PICK P \in SUBSET Captures : P = permits
  BY LoadType
<1>3. /\ permits' = P /\ freeBytes' = freeBytes /\ due' = due /\ UNCHANGED <<budget, size>>
  BY <1>2 DEF StartRead
<1>4. freeBytes' \in Nat /\ freeBytes' + PermitsOf(P) = budget /\ due' \in SUBSET Captures
  BY <1>2, <1>3, LoadType
<1>5. CASE Reservation(i) > budget
  <2> DEFINE l == [load[w] EXCEPT !.todo = @ \ {i}, !.done = @ \cup {i}]
  <2>1. load' = [load EXCEPT ![w] = l] /\ waiters' = waiters
    BY <1>5 DEF StartRead
  <2>2. /\ l \in Loads /\ l.todo = a.todo \ {i} /\ l.done = a.done \cup {i}
        /\ l.reading = a.reading /\ l.batch = a.batch /\ l.sending = a.sending
    BY <1>1 DEF Loads
  <2> HIDE DEF l
  <2>3. Whole(l) = Whole(a) /\ Parted(l) /\ Packed(l) = Packed(a)
    BY <1>1, <2>2 DEF Whole, Parted, Packed
  <2>4. P \subseteq (permits \ Whole(a)) \cup l.reading \cup Packed(l)
    <3>1. permits \cap a.todo = {} /\ permits \cap a.done = {}
      BY LoadType
    <3>2. QED
      BY <1>2, <2>2, <2>3, <3>1 DEF Whole, Packed
  <2>5. QED
    BY <1>1, <1>2, <1>3, <1>4, <2>1, <2>2, <2>3, <2>4, WorkerKeeps
<1>6. CASE ~(Reservation(i) > budget)
  <2> DEFINE l == [load[w] EXCEPT !.todo = @ \ {i}, !.reading = @ \cup {i}]
  <2>0. BudgetTypeOK /\ Apart /\ Holding /\ Queued
    BY DEF BudgetInv
  <2>1. load' = [load EXCEPT ![w] = l] /\ waiters' = Append(waiters, i)
    BY <1>6 DEF StartRead
  <2>2. /\ l \in Loads /\ l.todo = a.todo \ {i} /\ l.done = a.done
        /\ l.reading = a.reading \cup {i} /\ l.batch = a.batch /\ l.sending = a.sending
    BY <1>1 DEF Loads
  <2> HIDE DEF l
  <2>3. Whole(l) = Whole(a) /\ Parted(l) /\ Packed(l) = Packed(a)
    BY <1>1, <2>2 DEF Whole, Parted, Packed
  <2>4. P \subseteq (permits \ Whole(a)) \cup l.reading \cup Packed(l)
    <3>1. permits \cap a.todo = {} /\ permits \cap a.done = {}
      BY LoadType
    <3>2. QED
      BY <1>2, <2>2, <2>3, <3>1 DEF Whole, Packed
  <2>5. BudgetTypeOK'
    BY <1>3, <1>4, <2>0, <2>1, <2>2 DEF BudgetTypeOK
  <2>6. Apart'
    BY <1>1, <1>3, <2>0, <2>1, <2>2, <2>3, OneMoves
  <2>7. Holding'
    BY <1>1, <1>2, <1>3, <2>0, <2>1, <2>2, <2>3, <2>4, HoldingMoves
  <2>8. Balanced'
    BY <1>3, <1>4, BalancedMoves
  <2>9. Queued'
    <3>1. /\ load'[w] = l
          /\ \A x \in Workers : x # w => load'[x] = load[x]
      BY <2>0, <2>1 DEF BudgetTypeOK
    <3>2. /\ Len(waiters') = Len(waiters) + 1 /\ Len(waiters) \in Nat
          /\ waiters'[Len(waiters) + 1] = i
          /\ \A n \in 1 .. Len(waiters) : waiters'[n] = waiters[n]
      BY <2>0, <2>1 DEF BudgetTypeOK
    <3>3. ASSUME NEW n \in 1 .. Len(waiters)
          PROVE  waiters[n] # i
      <4>1. PICK x \in Workers : waiters[n] \in load[x].reading
        BY <2>0 DEF Queued
      <4>2. CASE x = w
        BY <1>1, <4>1, <4>2 DEF Parted
      <4>3. CASE x # w
        BY <1>1, <2>0, <4>1, <4>3 DEF Apart, Whole
      <4>4. QED
        BY <4>2, <4>3
    <3>4. ASSUME NEW n \in 1 .. Len(waiters')
          PROVE  waiters'[n] \notin permits' /\ \E x \in Workers : waiters'[n] \in load'[x].reading
      <4>1. CASE n = Len(waiters) + 1
        BY <1>1, <1>2, <1>3, <2>2, <3>1, <3>2, <4>1
      <4>2. CASE n \in 1 .. Len(waiters)
        <5>1. waiters'[n] = waiters[n] /\ waiters[n] \notin permits
          BY <2>0, <3>2, <4>2 DEF Queued
        <5>2. PICK x \in Workers : waiters[n] \in load[x].reading
          BY <2>0, <4>2 DEF Queued
        <5>3. waiters[n] \in load'[x].reading
          BY <2>2, <3>1, <5>2
        <5>4. QED
          BY <1>2, <1>3, <5>1, <5>3
      <4>3. QED
        BY <3>2, <4>1, <4>2
    <3>5. ASSUME NEW m \in 1 .. Len(waiters'), NEW n \in 1 .. Len(waiters'), waiters'[m] = waiters'[n]
          PROVE  m = n
      <4>1. CASE m \in 1 .. Len(waiters) /\ n \in 1 .. Len(waiters)
        BY <2>0, <3>2, <3>5, <4>1 DEF Queued
      <4>2. CASE m = Len(waiters) + 1 \/ n = Len(waiters) + 1
        BY <3>2, <3>3, <3>5, <4>2
      <4>3. QED
        BY <3>2, <4>1, <4>2
    <3>6. QED
      BY <3>4, <3>5 DEF Queued
  <2>10. QED
    BY <2>5, <2>6, <2>7, <2>8, <2>9 DEF BudgetInv
<1>7. QED
  BY <1>5, <1>6

LEMMA ArrivesKeeps ==
    ASSUME BudgetInv, NEW i \in Captures, Arrives(i)
    PROVE  BudgetInv'
<1>0. BudgetTypeOK /\ Apart /\ Holding /\ Queued /\ Balanced
  BY DEF BudgetInv
<1>1. PICK n \in Sizes : size' = [size EXCEPT ![i] = n]
  BY DEF Arrives
<1>2. /\ due' = due \cup {i} /\ UNCHANGED <<budget, freeBytes, waiters, permits, load>>
      /\ n \in Nat /\ \A w \in Workers : i \notin Whole(load[w])
  BY BudgetAssumption, ClaimedIsWhole DEF Arrives
<1>3. BudgetTypeOK'
  BY <1>0, <1>1, <1>2 DEF BudgetTypeOK
<1>4. Apart'
  BY <1>0, <1>2 DEF Apart
<1>5. Holding' /\ Queued'
  BY <1>0, <1>2 DEF Holding, Queued
<1>6. Balanced'
  <2>1. PICK P \in SUBSET Captures : P = permits
    BY <1>0 DEF BudgetTypeOK
  <2>2. i \notin P
    BY <1>0, <1>2, <2>1 DEF Holding, Whole, Packed
  <2>3. \A c \in P : size'[c] = size[c]
    BY <1>0, <1>1, <2>2 DEF BudgetTypeOK
  <2>4. PermitsOf(P)' = PermitsOf(P)
    BY <1>0, <1>3, <2>3, PermitsStay
  <2>5. PermitsOf(permits)' = PermitsOf(P)'
    BY <1>2, <2>1 DEF PermitsOf
  <2>6. QED
    BY <1>0, <1>2, <2>1, <2>4, <2>5 DEF Balanced
<1>7. QED
  BY <1>3, <1>4, <1>5, <1>6 DEF BudgetInv

LEMMA BudgetInitially == BudgetInit => BudgetInv
<1> SUFFICES ASSUME BudgetInit PROVE BudgetInv
  OBVIOUS
<1>1. NoLoad \in Loads /\ Parted(NoLoad) /\ Whole(NoLoad) = {} /\ Packed(NoLoad) = {}
  BY DEF NoLoad, Loads, Parted, Whole, Packed
<1>2. BudgetTypeOK
  <2>0. Budgets \subseteq Nat /\ Sizes \subseteq Nat
    BY BudgetAssumption
  <2>1. budget \in Nat /\ size \in [Captures -> Nat] /\ waiters \in Seq(Captures)
    <3>1. budget \in Nat
      BY <2>0 DEF BudgetInit
    <3>2. size \in [Captures -> Nat]
      BY <2>0 DEF BudgetInit
    <3>3. waiters \in Seq(Captures)
      BY DEF BudgetInit
    <3>4. QED
      BY <3>1, <3>2, <3>3
  <2>2. load \in [Workers -> Loads]
    BY <1>1 DEF BudgetInit
  <2>3. QED
    BY <2>1, <2>2 DEF BudgetInit, BudgetTypeOK
<1>3. \A w \in Workers : load[w] = NoLoad
  BY DEF BudgetInit
<1>4. Apart /\ Holding
  BY <1>1, <1>3 DEF BudgetInit, Apart, Holding
<1>5. Queued
  BY DEF BudgetInit, Queued
<1>6. Balanced
  <2>1. PermitsOf({}) = 0
    BY SumOfNone DEF PermitsOf, Sum
  <2>2. QED
    BY <1>2, <2>1 DEF Balanced, BudgetInit, BudgetTypeOK
<1>7. QED
  BY <1>2, <1>4, <1>5, <1>6 DEF BudgetInv

LEMMA BudgetKeeps == BudgetInv /\ [BudgetNext]_budgetVars => BudgetInv'
<1> SUFFICES ASSUME BudgetInv, [BudgetNext]_budgetVars PROVE BudgetInv'
  OBVIOUS
<1>1. CASE UNCHANGED budgetVars
  <2>1. BudgetTypeOK' /\ Apart' /\ Holding' /\ Queued'
    BY <1>1 DEF BudgetInv, BudgetTypeOK, Apart, Holding, Queued, budgetVars
  <2>2. Balanced'
    BY <1>1 DEF BudgetInv, Balanced, PermitsOf, Reservation, budgetVars
  <2>3. QED
    BY <2>1, <2>2 DEF BudgetInv
<1>2. CASE Grant
  BY <1>2, GrantKeeps
<1>3. ASSUME NEW w \in Workers, NEW S \in SUBSET due, ClaimLoad(w, S) PROVE BudgetInv'
  BY <1>3, ClaimKeeps
<1>4. ASSUME NEW w \in Workers, NEW i \in Captures,
             StartRead(w, i) \/ NextBody(w, i) \/ ReadFails(w, i)
      PROVE  BudgetInv'
  BY <1>4, StartReadKeeps, NextBodyKeeps, ReadFailsKeeps
<1>5. ASSUME NEW w \in Workers, SendLast(w) \/ Sent(w) PROVE BudgetInv'
  BY <1>5, SendLastKeeps, SentKeeps
<1>6. ASSUME NEW w \in Workers, NEW again \in SUBSET load[w].done, FinishLoad(w, again)
      PROVE  BudgetInv'
  BY <1>6, FinishKeeps
<1>7. ASSUME NEW i \in Captures, Arrives(i) PROVE BudgetInv'
  BY <1>7, ArrivesKeeps
<1>8. QED
  BY <1>1, <1>2, <1>3, <1>4, <1>5, <1>6, <1>7 DEF BudgetNext, Working

LEMMA BudgetEnough == BudgetInv => PermitsConserved
<1> SUFFICES ASSUME BudgetInv PROVE PermitsConserved
  OBVIOUS
<1>1. freeBytes + PermitsOf(permits) = budget
  BY DEF BudgetInv, Balanced
<1>2. permits \subseteq UNION {Claimed(w) : w \in Workers}
  BY ClaimedIsWhole DEF BudgetInv, Holding, Whole, Packed
<1>3. \A w \in Workers : load[w].batch \cup load[w].sending \subseteq permits
  BY DEF BudgetInv, Holding, Packed
<1>4. QED
  BY <1>1, <1>2, <1>3 DEF PermitsConserved

-----------------------------------------------------------------------------
(***************************************************************************)
(* The quality ledger.                                                     *)
(***************************************************************************)

Counters == [Keys -> Nat]
Views == [errors : Counters, archived : Nat]
RequestStates == [step : {"idle", "stored", "recorded"}, errors : SUBSET Keys]
OperatorStates == [step : {"idle", "planned", "moved", "read"}, plan : Nat, snap : Views]

QualityTypeOK ==
    /\ live \in Counters /\ archive \in {NoArchive} \cup Archived /\ view \in Views
    /\ request \in [Requests -> RequestStates]
    /\ operator \in [Operators -> OperatorStates]
    /\ archives \in Nat /\ recorded \in Nat /\ answered \in Nat /\ mixed \in BOOLEAN
    /\ failed \in BOOLEAN

\* What the ledger counts, live or archived.
LedgerTotals == Total(live) + ArchivedTotal(archive) = recorded

\* What a client will be told of is counted already.
Own(x) == IF x.step = "recorded" THEN Cardinality(x.errors) ELSE 0
Pending(r) == [q \in Requests |-> Own(r[q])]
ToldTotals == answered + Sum(Pending(request), Requests) <= recorded

\* What an operator has read is what the ledger says, unless somebody else has
\* moved the counts since, and will read them again.
Fresh(o) ==
    /\ operator[o].step = "read"
    /\ \A p \in Operators \ {o} : operator[p].step \notin {"moved", "read"}
SnapsFresh == ~mixed => \A o \in Operators : Fresh(o) => operator[o].snap = Snapshot

ViewTrue ==
    ~mixed /\ ~failed /\ ~Refreshing =>
        /\ view.archived = ArchivedTotal(archive)
        /\ \A k \in Keys :
              live[k] = view.errors[k] + Cardinality({q \in InBetween : k \in request[q].errors})

QualityInv == QualityTypeOK /\ LedgerTotals /\ ToldTotals /\ SnapsFresh /\ ViewTrue

-----------------------------------------------------------------------------
LEMMA TotalType == ASSUME NEW c \in Counters PROVE Total(c) \in Nat
<1>1. \A k \in Keys : c[k] \in Nat
  BY DEF Counters
<1>2. QED
  BY <1>1, SumType, QualityAssumption DEF Total, Sum

LEMMA ZeroTotal == Zero \in Counters /\ Total(Zero) = 0
<1>1. Zero \in Counters /\ \A k \in Keys : Zero[k] = 0
  BY DEF Zero, Counters
<1> DEFINE Z == {T \in SUBSET Keys : Sum(Zero, T) = 0}
<1>2. ASSUME NEW T \in SUBSET Keys, \A U \in SUBSET T : U # T => U \in Z
      PROVE  T \in Z
  <2>1. IsFiniteSet(T)
    BY FS_Subset, QualityAssumption
  <2>2. CASE T = {}
    BY <2>2, SumOfNone
  <2>3. CASE T # {}
    <3>1. Picked(T) \in T
      BY <2>3 DEF Picked
    <3>2. T \ {Picked(T)} \in Z /\ Zero[Picked(T)] = 0
      BY <1>1, <1>2, <3>1
    <3>3. Sum(Zero, T) = Zero[Picked(T)] + Sum(Zero, T \ {Picked(T)})
      BY <2>1, <2>3, SumOfPicked
    <3>4. QED
      BY <3>2, <3>3
  <2>4. QED
    BY <2>2, <2>3
<1>3. \A T \in SUBSET Keys : T \in Z
  <2> HIDE DEF Z
  <2>1. QED
    BY <1>2, SubsetInduction, QualityAssumption
<1>4. QED
  BY <1>1, <1>3 DEF Total, Sum

\* One more of each of some kinds adds as many as there are kinds.
LEMMA PlusTotal ==
    ASSUME NEW c \in Counters, NEW S \in SUBSET Keys
    PROVE  /\ Plus(c, S) \in Counters /\ Total(Plus(c, S)) = Total(c) + Cardinality(S)
           /\ Cardinality(S) \in Nat
           /\ \A k \in Keys : Plus(c, S)[k] = IF k \in S THEN c[k] + 1 ELSE c[k]
<1> DEFINE g == Plus(c, S)
<1>1. g \in Counters /\ \A k \in Keys : g[k] = IF k \in S THEN c[k] + 1 ELSE c[k]
  BY DEF Plus, Counters
<1>2. \A k \in Keys : c[k] \in Nat /\ g[k] \in Nat
  BY <1>1 DEF Counters
<1> HIDE DEF g
<1>3. IsFiniteSet(S) /\ IsFiniteSet(Keys \ S) /\ IsFiniteSet(Keys) /\ Cardinality(S) \in Nat
  BY FS_Subset, FS_CardinalityType, QualityAssumption
<1>4. Sum(c, Keys) = Sum(c, S) + Sum(c, Keys \ S) /\ Sum(c, S) \in Nat /\ Sum(c, Keys \ S) \in Nat
  BY <1>2, <1>3, SumOfParts
<1>5. Sum(g, Keys) = Sum(g, S) + Sum(g, Keys \ S)
  <2>1. \A k \in Keys : g[k] \in Nat
    BY <1>2
  <2>2. QED
    BY <1>3, <2>1, SumOfParts
<1>6. Sum(g, S) = Sum(c, S) + 1 * Cardinality(S)
  <2>1. \A k \in S : c[k] \in Nat /\ g[k] = c[k] + 1
    BY <1>1, <1>2
  <2>2. QED
    BY <1>3, <2>1, SumOfMore
<1>7. Sum(g, Keys \ S) = Sum(c, Keys \ S)
  <2>1. \A k \in Keys \ S : c[k] \in Nat /\ g[k] = c[k]
    BY <1>1, <1>2
  <2>2. QED
    BY <1>3, <2>1, SumOfSame
<1>8. Sum(g, Keys) = Sum(c, Keys) + Cardinality(S)
  BY <1>3, <1>4, <1>5, <1>6, <1>7
<1>9. QED
  BY <1>1, <1>3, <1>8 DEF Total, Sum, g

LEMMA ArchivedType ==
    ASSUME QualityTypeOK
    PROVE  /\ ArchivedTotal(archive) \in Nat /\ Total(live) \in Nat
           /\ Snapshot \in Views /\ Snapshot = [errors |-> live, archived |-> ArchivedTotal(archive)]
<1>1. Total(live) \in Nat
  BY TotalType DEF QualityTypeOK
<1>2. ArchivedTotal(archive) \in Nat
  <2>1. CASE archive = NoArchive
    BY <2>1 DEF ArchivedTotal
  <2>2. CASE archive # NoArchive
    <3>1. archive.counters \in Counters
      BY <2>2 DEF QualityTypeOK, Archived, Counters
    <3>2. QED
      BY <2>2, <3>1, TotalType DEF ArchivedTotal
  <2>3. QED
    BY <2>1, <2>2
<1>3. QED
  BY <1>1, <1>2 DEF QualityTypeOK, Snapshot, Views

\* The errors of a request that are counted and not yet reported.
LEMMA PendingType ==
    ASSUME NEW r \in [Requests -> RequestStates]
    PROVE  /\ \A q \in Requests : Pending(r)[q] \in Nat
           /\ Sum(Pending(r), Requests) \in Nat
<1>1. ASSUME NEW q \in Requests PROVE Pending(r)[q] \in Nat
  <2>1. IsFiniteSet(r[q].errors)
    BY FS_Subset, QualityAssumption DEF RequestStates
  <2>2. QED
    BY <2>1, FS_CardinalityType DEF Pending, Own
<1> DEFINE f == Pending(r)
<1>2. \A q \in Requests : f[q] \in Nat
  BY <1>1
<1> HIDE DEF f
<1>3. Sum(f, Requests) \in Nat
  BY <1>2, SumType, QualityAssumption
<1>4. QED
  BY <1>1, <1>3 DEF f

\* A step of one request changes what is pending by its own part.
LEMMA PendingMoves ==
    ASSUME NEW r \in [Requests -> RequestStates], NEW s \in [Requests -> RequestStates],
           NEW q \in Requests, \A p \in Requests \ {q} : s[p] = r[p]
    PROVE  /\ Sum(Pending(s), Requests) + Own(r[q]) = Sum(Pending(r), Requests) + Own(s[q])
           /\ Sum(Pending(s), Requests) \in Nat /\ Sum(Pending(r), Requests) \in Nat
           /\ Own(r[q]) \in Nat /\ Own(s[q]) \in Nat
<1> DEFINE f == Pending(r)  g == Pending(s)
<1>1. \A p \in Requests : f[p] \in Nat /\ g[p] \in Nat
  BY PendingType
<1>2. \A p \in Requests : p # q => g[p] = f[p]
  BY DEF Pending
<1>3. f[q] = Own(r[q]) /\ g[q] = Own(s[q])
  BY DEF Pending
<1> HIDE DEF f, g
<1>4. /\ Sum(g, Requests) + f[q] = Sum(f, Requests) + g[q]
      /\ Sum(f, Requests) \in Nat /\ Sum(g, Requests) \in Nat
  <2>1. \A p \in Requests : f[p] \in Nat /\ g[p] \in Nat /\ (p # q => g[p] = f[p])
    BY <1>1, <1>2
  <2>2. QED
    BY <2>1, SumOfChanged, QualityAssumption
<1>5. QED
  BY <1>1, <1>3, <1>4 DEF f, g

-----------------------------------------------------------------------------
\* Requests between their locks, as sets of those that count a kind.
Counting(k) == {q \in InBetween : k \in request[q].errors}

LEMMA CountingFinite ==
    \A k : IsFiniteSet(Counting(k)) /\ IsFiniteSet(Counting(k)') /\ IsFiniteSet(InBetween)
<1>1. \A k : Counting(k) \subseteq Requests /\ Counting(k)' \subseteq Requests /\ InBetween \subseteq Requests
  BY DEF Counting, InBetween
<1>2. QED
  BY <1>1, FS_Subset, QualityAssumption

LEMMA StoredKeeps ==
    ASSUME QualityInv, NEW q \in Requests, NEW errors \in SUBSET Keys, CapturesStored(q, errors)
    PROVE  QualityInv'
<1> USE DEF QualityInv
<1> DEFINE e == [step |-> "stored", errors |-> errors]
<1>1. e \in RequestStates /\ request \in [Requests -> RequestStates]
  BY DEF RequestStates, QualityTypeOK
<1>2. /\ request[q].step = "idle" /\ request' = [request EXCEPT ![q] = e]
      /\ UNCHANGED <<ledger, view, operator, observers, crashes>>
  BY DEF CapturesStored
<1>3. QualityTypeOK'
  BY <1>1, <1>2 DEF QualityTypeOK, ledger, observers
<1>4. LedgerTotals'
  BY <1>2 DEF LedgerTotals, ledger, observers
<1>5. ToldTotals'
  <2>1. Sum(Pending(request'), Requests) = Sum(Pending(request), Requests)
    <3>1. PICK r \in [Requests -> RequestStates], s \in [Requests -> RequestStates] :
                r = request /\ s = request'
      BY <1>1, <1>2
    <3>2. r[q].step # "recorded" /\ s[q] = e /\ \A p \in Requests \ {q} : s[p] = r[p]
      BY <1>1, <1>2, <3>1
    <3>3. Own(r[q]) = 0 /\ Own(s[q]) = 0
      BY <3>2 DEF Own
    <3>4. QED
      BY <3>1, <3>2, <3>3, PendingMoves
  <2>2. QED
    BY <1>2, <2>1 DEF ToldTotals, observers, Pending
<1>6. SnapsFresh'
  BY <1>2 DEF SnapsFresh, Fresh, Snapshot, ledger, observers
<1>7. ViewTrue'
  <2>1. \A k : Counting(k)' = Counting(k)
    BY <1>1, <1>2 DEF Counting, InBetween
  <2>2. Refreshing' = Refreshing
    BY <1>2 DEF Refreshing
  <2>3. \A k : {x \in InBetween : k \in request[x].errors}' = {x \in InBetween : k \in request[x].errors}
    BY <2>1 DEF Counting
  <2>4. QED
    BY <1>2, <2>2, <2>3 DEF ViewTrue, ledger, observers
<1>8. QED
  BY <1>3, <1>4, <1>5, <1>6, <1>7

LEMMA RecordKeeps ==
    ASSUME QualityInv, NEW q \in Requests, Record(q)
    PROVE  QualityInv'
<1> USE DEF QualityInv
<1>0. PICK S \in SUBSET Keys : S = request[q].errors
  BY DEF QualityTypeOK, RequestStates
<1> DEFINE e == [step |-> "recorded", errors |-> S]
<1>1. /\ e \in RequestStates /\ request \in [Requests -> RequestStates]
      /\ request' = [request EXCEPT ![q] = e]
  <2>1. e \in RequestStates /\ request \in [Requests -> RequestStates]
    BY DEF RequestStates, QualityTypeOK
  <2>2. e = [request[q] EXCEPT !.step = "recorded"]
    BY <1>0, <2>1 DEF RequestStates
  <2>3. request' = [request EXCEPT ![q] = [request[q] EXCEPT !.step = "recorded"]]
    BY DEF Record
  <2>4. QED
    BY <2>1, <2>2, <2>3
<1>2. /\ request[q].step = "stored" /\ live' = Plus(live, S) /\ recorded' = recorded + Cardinality(S)
      /\ mixed' = (mixed \/ Refreshing)
      /\ UNCHANGED <<archive, view, operator, archives, answered, failed, crashes>>
  BY <1>0 DEF Record
<1>3. /\ live \in Counters /\ live' \in Counters /\ Cardinality(S) \in Nat
      /\ Total(live') = Total(live) + Cardinality(S)
      /\ \A k \in Keys : live'[k] = IF k \in S THEN live[k] + 1 ELSE live[k]
  BY <1>2, PlusTotal DEF QualityTypeOK
<1>4. QualityTypeOK'
  BY <1>1, <1>2, <1>3 DEF QualityTypeOK
<1>5. LedgerTotals'
  <2>1. Total(live)' = Total(live') /\ ArchivedTotal(archive)' = ArchivedTotal(archive)
    BY <1>2 DEF Total, ArchivedTotal
  <2>2. ArchivedTotal(archive) \in Nat /\ Total(live) \in Nat
    BY ArchivedType
  <2>3. QED
    BY <1>2, <1>3, <2>1, <2>2 DEF LedgerTotals
<1>6. ToldTotals'
  <2>1. /\ Sum(Pending(request'), Requests) = Sum(Pending(request), Requests) + Cardinality(S)
        /\ Sum(Pending(request), Requests) \in Nat
    <3>1. PICK r \in [Requests -> RequestStates], s \in [Requests -> RequestStates] :
                r = request /\ s = request'
      BY <1>1
    <3>2. r[q].step = "stored" /\ s[q] = e /\ \A p \in Requests \ {q} : s[p] = r[p]
      BY <1>1, <1>2, <3>1
    <3>3. Own(r[q]) = 0 /\ Own(s[q]) = Cardinality(S)
      BY <3>2 DEF Own
    <3>4. QED
      BY <1>3, <3>1, <3>2, <3>3, PendingMoves
  <2>2. answered + Sum(Pending(request), Requests) <= recorded /\ answered \in Nat /\ recorded \in Nat
    BY DEF ToldTotals, QualityTypeOK
  <2>3. answered' + Sum(Pending(request'), Requests) <= recorded'
    BY <1>2, <1>3, <2>1, <2>2
  <2>4. QED
    BY <2>3 DEF ToldTotals, Pending
<1>7. SnapsFresh'
  BY <1>2 DEF SnapsFresh, Fresh, Refreshing
<1>8. ViewTrue'
  <2> SUFFICES ASSUME ~mixed', ~failed', ~Refreshing'
               PROVE  /\ view.archived = ArchivedTotal(archive)
                      /\ \A k \in Keys : live'[k] = view.errors[k] + Cardinality(Counting(k)')
    BY <1>2 DEF ViewTrue, Counting, ArchivedTotal, Total
  <2>1. ~mixed /\ ~failed /\ ~Refreshing
    BY <1>2 DEF QualityTypeOK
  <2>2. view.archived = ArchivedTotal(archive)
    BY <2>1 DEF ViewTrue
  <2>3. ASSUME NEW k \in Keys
        PROVE  live'[k] = view.errors[k] + Cardinality(Counting(k)')
    <3>1. live[k] = view.errors[k] + Cardinality(Counting(k)) /\ view.errors[k] \in Nat
      BY <2>1 DEF ViewTrue, Counting, QualityTypeOK, Views, Counters
    <3>2. q \notin Counting(k) /\ Counting(k)' = Counting(k) \cup (IF k \in S THEN {q} ELSE {})
      BY <1>1, <1>2 DEF Counting, InBetween
    <3>3. Cardinality(Counting(k)) \in Nat
      BY CountingFinite, FS_CardinalityType
    <3>4. CASE k \in S
      <4>1. Cardinality(Counting(k)') = Cardinality(Counting(k)) + 1
        BY <3>2, <3>4, CountingFinite, FS_AddElement
      <4>2. QED
        BY <1>3, <3>1, <3>3, <3>4, <4>1
    <3>5. CASE k \notin S
      BY <1>3, <3>1, <3>2, <3>5
    <3>6. QED
      BY <3>4, <3>5
  <2>4. QED
    BY <2>2, <2>3
<1>9. QED
  BY <1>4, <1>5, <1>6, <1>7, <1>8

LEMMA RecordFailsKeeps ==
    ASSUME QualityInv, NEW q \in Requests, RecordFails(q)
    PROVE  QualityInv'
<1> USE DEF QualityInv
<1>1. NoRequest \in RequestStates /\ request \in [Requests -> RequestStates]
  BY DEF RequestStates, QualityTypeOK, NoRequest
<1>2. /\ request[q].step = "stored" /\ request' = [request EXCEPT ![q] = NoRequest]
      /\ UNCHANGED <<ledger, view, operator, observers, crashes>> /\ NoRequest.step = "idle"
  BY DEF RecordFails, NoRequest
<1>3. QualityTypeOK'
  BY <1>1, <1>2 DEF QualityTypeOK, ledger, observers
<1>4. LedgerTotals'
  BY <1>2 DEF LedgerTotals, ledger, observers
<1>5. ToldTotals'
  <2>1. Sum(Pending(request'), Requests) = Sum(Pending(request), Requests)
    <3>1. PICK r \in [Requests -> RequestStates], s \in [Requests -> RequestStates] :
                r = request /\ s = request'
      BY <1>1, <1>2
    <3>2. r[q].step # "recorded" /\ s[q] = NoRequest /\ \A p \in Requests \ {q} : s[p] = r[p]
      BY <1>1, <1>2, <3>1
    <3>3. Own(r[q]) = 0 /\ Own(s[q]) = 0
      BY <1>2, <3>2 DEF Own
    <3>4. QED
      BY <3>1, <3>2, <3>3, PendingMoves
  <2>2. QED
    BY <1>2, <2>1 DEF ToldTotals, observers, Pending
<1>6. SnapsFresh'
  BY <1>2 DEF SnapsFresh, Fresh, Snapshot, ledger, observers
<1>7. ViewTrue'
  <2>1. \A k : Counting(k)' = Counting(k)
    BY <1>1, <1>2 DEF Counting, InBetween
  <2>2. Refreshing' = Refreshing
    BY <1>2 DEF Refreshing
  <2>3. \A k : {x \in InBetween : k \in request[x].errors}' = {x \in InBetween : k \in request[x].errors}
    BY <2>1 DEF Counting
  <2>4. QED
    BY <1>2, <2>2, <2>3 DEF ViewTrue, ledger, observers
<1>8. QED
  BY <1>3, <1>4, <1>5, <1>6, <1>7

LEMMA ObserveKeeps ==
    ASSUME QualityInv, NEW q \in Requests, Observe(q)
    PROVE  QualityInv'
<1> USE DEF QualityInv
<1>0. PICK S \in SUBSET Keys : S = request[q].errors
  BY DEF QualityTypeOK, RequestStates
<1>1. /\ NoRequest \in RequestStates /\ request \in [Requests -> RequestStates]
      /\ NoRequest.step = "idle"
  BY DEF RequestStates, QualityTypeOK, NoRequest
<1>2. /\ request[q].step = "recorded" /\ answered' = answered + Cardinality(S)
      /\ view' = [view EXCEPT !.errors = Plus(@, S)]
      /\ request' = [request EXCEPT ![q] = NoRequest]
      /\ mixed' = (mixed \/ Refreshing)
      /\ UNCHANGED <<live, archive, operator, archives, recorded, failed, crashes>>
  BY <1>0 DEF Observe, ledger
<1>3. /\ view.errors \in Counters /\ view'.errors = Plus(view.errors, S)
      /\ view'.archived = view.archived /\ view' \in Views
      /\ Cardinality(S) \in Nat
      /\ \A k \in Keys : view'.errors[k] = IF k \in S THEN view.errors[k] + 1 ELSE view.errors[k]
  <2>1. view.errors \in Counters /\ view \in Views
    BY DEF QualityTypeOK, Views
  <2>2. /\ Plus(view.errors, S) \in Counters /\ Cardinality(S) \in Nat
        /\ \A k \in Keys : Plus(view.errors, S)[k]
                           = IF k \in S THEN view.errors[k] + 1 ELSE view.errors[k]
    BY <2>1, PlusTotal
  <2>3. view'.errors = Plus(view.errors, S) /\ view'.archived = view.archived /\ view' \in Views
    BY <1>2, <2>1, <2>2 DEF Views
  <2>4. QED
    BY <2>1, <2>2, <2>3
<1>4. QualityTypeOK'
  BY <1>1, <1>2, <1>3 DEF QualityTypeOK
<1>5. LedgerTotals'
  BY <1>2 DEF LedgerTotals, Total, ArchivedTotal
<1>6. ToldTotals'
  <2>1. /\ Sum(Pending(request'), Requests) + Cardinality(S) = Sum(Pending(request), Requests)
        /\ Sum(Pending(request'), Requests) \in Nat
    <3>1. PICK r \in [Requests -> RequestStates], s \in [Requests -> RequestStates] :
                r = request /\ s = request'
      BY <1>1, <1>2
    <3>2. /\ r[q].step = "recorded" /\ r[q].errors = S
          /\ s[q] = NoRequest /\ \A p \in Requests \ {q} : s[p] = r[p]
      BY <1>0, <1>1, <1>2, <3>1
    <3>3. Own(r[q]) = Cardinality(S) /\ Own(s[q]) = 0
      BY <1>1, <3>2 DEF Own
    <3>4. QED
      BY <1>3, <3>1, <3>2, <3>3, PendingMoves
  <2>2. answered + Sum(Pending(request), Requests) <= recorded /\ answered \in Nat /\ recorded \in Nat
    BY DEF ToldTotals, QualityTypeOK
  <2>3. answered' + Sum(Pending(request'), Requests) <= recorded'
    BY <1>2, <1>3, <2>1, <2>2
  <2>4. QED
    BY <2>3 DEF ToldTotals, Pending
<1>7. SnapsFresh'
  BY <1>2 DEF SnapsFresh, Fresh, Refreshing
<1>8. ViewTrue'
  <2> SUFFICES ASSUME ~mixed', ~failed', ~Refreshing'
               PROVE  /\ view'.archived = ArchivedTotal(archive)
                      /\ \A k \in Keys : live[k] = view'.errors[k] + Cardinality(Counting(k)')
    BY <1>2 DEF ViewTrue, Counting, ArchivedTotal, Total
  <2>1. ~mixed /\ ~failed /\ ~Refreshing
    BY <1>2 DEF QualityTypeOK
  <2>2. view'.archived = ArchivedTotal(archive)
    BY <1>3, <2>1 DEF ViewTrue
  <2>3. ASSUME NEW k \in Keys
        PROVE  live[k] = view'.errors[k] + Cardinality(Counting(k)')
    <3>1. live[k] = view.errors[k] + Cardinality(Counting(k)) /\ view.errors[k] \in Nat
      BY <1>3, <2>1 DEF ViewTrue, Counting, Counters
    <3>2. /\ q \notin Counting(k)' /\ (q \in Counting(k) <=> k \in S)
          /\ Counting(k)' = Counting(k) \ {q}
      BY <1>0, <1>1, <1>2 DEF Counting, InBetween
    <3>3. Cardinality(Counting(k)) \in Nat
      BY CountingFinite, FS_CardinalityType
    <3>4. CASE k \in S
      <4>1. Cardinality(Counting(k)') = Cardinality(Counting(k)) - 1
        BY <3>2, <3>4, CountingFinite, FS_RemoveElement
      <4>2. QED
        BY <1>3, <3>1, <3>3, <3>4, <4>1
    <3>5. CASE k \notin S
      BY <1>3, <3>1, <3>2, <3>5
    <3>6. QED
      BY <3>4, <3>5
  <2>4. QED
    BY <2>2, <2>3
<1>9. QED
  BY <1>4, <1>5, <1>6, <1>7, <1>8

\* What an operator does leaves the requests alone.
LEMMA RequestsStay ==
    ASSUME ToldTotals, UNCHANGED <<request, answered, recorded>>
    PROVE  ToldTotals' /\ InBetween' = InBetween /\ Between' = Between
           /\ \A k : Counting(k)' = Counting(k)
BY DEF ToldTotals, Pending, InBetween, Between, Counting

LEMMA PlanKeeps ==
    ASSUME QualityInv, NEW o \in Operators, Plan(o)
    PROVE  QualityInv'
<1> USE DEF QualityInv
<1>1. /\ operator[o].step = "idle"
      /\ operator' = [operator EXCEPT ![o] = [@ EXCEPT !.step = "planned", !.plan = Total(live)]]
      /\ UNCHANGED <<live, archive, view, request, archives, recorded, answered, mixed, failed, crashes>>
  BY DEF Plan, ledger, observers
<1>2. Total(live) \in Nat /\ operator[o] \in OperatorStates
  BY ArchivedType DEF QualityTypeOK
<1>3. [operator[o] EXCEPT !.step = "planned", !.plan = Total(live)] \in OperatorStates
  BY <1>2 DEF OperatorStates
<1>4. QualityTypeOK'
  BY <1>1, <1>3 DEF QualityTypeOK
<1>5. /\ operator'[o].step = "planned"
      /\ \A p \in Operators \ {o} : operator'[p] = operator[p]
  BY <1>1, <1>2 DEF QualityTypeOK, OperatorStates
<1>6. LedgerTotals' /\ ToldTotals'
  BY <1>1, RequestsStay DEF LedgerTotals, Total, ArchivedTotal
<1>7. SnapsFresh'
  BY <1>1, <1>5 DEF SnapsFresh, Fresh, Snapshot, ArchivedTotal, Total
<1>8. ViewTrue'
  <2>1. Refreshing' = Refreshing
    BY <1>1, <1>5 DEF Refreshing
  <2>2. QED
    BY <1>1, <2>1 DEF ViewTrue, InBetween, ArchivedTotal, Total
<1>9. QED
  BY <1>4, <1>6, <1>7, <1>8

LEMMA ArchiveKeeps ==
    ASSUME QualityInv, NEW o \in Operators, ArchiveQuality(o)
    PROVE  QualityInv'
<1> USE DEF QualityInv
<1>1. /\ operator[o].step = "planned" /\ operator[o] \in OperatorStates
      /\ UNCHANGED <<view, request, recorded, answered, failed, crashes>>
  BY DEF ArchiveQuality, QualityTypeOK
<1>2. ToldTotals'
  BY <1>1, RequestsStay
<1>3. CASE archive = NoArchive /\ Total(live) = operator[o].plan
  <2>1. /\ archives' = archives + 1 /\ archive' = [id |-> archives + 1, counters |-> live]
        /\ live' = Zero /\ mixed' = (mixed \/ Between)
        /\ operator' = [operator EXCEPT ![o] = [@ EXCEPT !.step = "moved"]]
    BY <1>3 DEF ArchiveQuality
  <2>2. [operator[o] EXCEPT !.step = "moved"] \in OperatorStates
    BY <1>1 DEF OperatorStates
  <2>3. /\ operator'[o].step = "moved"
        /\ \A p \in Operators \ {o} : operator'[p] = operator[p]
    BY <1>1, <2>1 DEF QualityTypeOK, OperatorStates
  <2>4. archive' \in Archived /\ archive' # NoArchive /\ archive'.counters = live
    BY <2>1, QualityAssumption DEF QualityTypeOK, Archived, Counters
  <2>5. QualityTypeOK'
    BY <1>1, <2>1, <2>2, <2>4, ZeroTotal DEF QualityTypeOK
  <2>6. LedgerTotals'
    <3>1. Total(live)' = 0
      BY <2>1, ZeroTotal DEF Total
    <3>2. ArchivedTotal(archive)' = Total(live)
      BY <2>4 DEF ArchivedTotal, Total
    <3>3. ArchivedTotal(archive) = 0
      BY <1>3 DEF ArchivedTotal
    <3>4. Total(live) \in Nat
      BY ArchivedType
    <3>5. QED
      BY <1>1, <3>1, <3>2, <3>3, <3>4 DEF LedgerTotals
  <2>7. SnapsFresh'
    BY <2>3 DEF SnapsFresh, Fresh
  <2>8. ViewTrue'
    BY <2>3 DEF ViewTrue, Refreshing
  <2>9. QED
    BY <1>2, <2>5, <2>6, <2>7, <2>8
<1>4. CASE ~(archive = NoArchive /\ Total(live) = operator[o].plan)
  <2>1. /\ operator' = [operator EXCEPT ![o] = NoOperation]
        /\ UNCHANGED <<live, archive, archives, mixed>>
    BY <1>4 DEF ArchiveQuality, Refused, ledger
  <2>2. NoOperation \in OperatorStates /\ NoOperation.step = "idle"
    BY ZeroTotal DEF NoOperation, OperatorStates, Views
  <2>3. /\ operator'[o].step = "idle"
        /\ \A p \in Operators \ {o} : operator'[p] = operator[p]
    BY <2>1, <2>2 DEF QualityTypeOK
  <2>4. QualityTypeOK'
    BY <1>1, <2>1, <2>2 DEF QualityTypeOK
  <2>5. LedgerTotals'
    BY <1>1, <2>1 DEF LedgerTotals, Total, ArchivedTotal
  <2>6. SnapsFresh'
    BY <1>1, <2>1, <2>3 DEF SnapsFresh, Fresh, Snapshot, ArchivedTotal, Total
  <2>7. ViewTrue'
    <3>1. Refreshing' = Refreshing
      BY <1>1, <2>1, <2>3 DEF Refreshing
    <3>2. QED
      BY <1>1, <2>1, <3>1 DEF ViewTrue, InBetween, ArchivedTotal, Total
  <2>8. QED
    BY <1>2, <2>4, <2>5, <2>6, <2>7
<1>5. QED
  BY <1>3, <1>4

LEMMA RestoreKeeps ==
    ASSUME QualityInv, NEW o \in Operators, NEW id, RestoreQuality(o, id)
    PROVE  QualityInv'
<1> USE DEF QualityInv
<1>1. /\ archive # NoArchive /\ Total(live) = 0
      /\ live' = archive.counters /\ archive' = NoArchive
      /\ operator' = [operator EXCEPT ![o] = [@ EXCEPT !.step = "moved"]]
      /\ operator[o] \in OperatorStates
      /\ mixed' = (mixed \/ Between)
      /\ UNCHANGED <<view, request, archives, recorded, answered, failed, crashes>>
  BY DEF RestoreQuality, QualityTypeOK
<1>2. [operator[o] EXCEPT !.step = "moved"] \in OperatorStates
  BY <1>1 DEF OperatorStates
<1>3. /\ operator'[o].step = "moved"
      /\ \A p \in Operators \ {o} : operator'[p] = operator[p]
  BY <1>1 DEF QualityTypeOK, OperatorStates
<1>4. archive.counters \in Counters
  BY <1>1 DEF QualityTypeOK, Archived, Counters
<1>5. QualityTypeOK'
  BY <1>1, <1>2, <1>4 DEF QualityTypeOK
<1>6. ToldTotals'
  BY <1>1, RequestsStay
<1>7. LedgerTotals'
  <2>1. Total(live)' = ArchivedTotal(archive)
    BY <1>1 DEF ArchivedTotal, Total
  <2>2. ArchivedTotal(archive)' = 0
    BY <1>1 DEF ArchivedTotal
  <2>3. ArchivedTotal(archive) \in Nat
    BY ArchivedType
  <2>4. QED
    BY <1>1, <2>1, <2>2, <2>3 DEF LedgerTotals
<1>8. SnapsFresh' /\ ViewTrue'
  BY <1>3 DEF SnapsFresh, Fresh, ViewTrue, Refreshing
<1>9. QED
  BY <1>5, <1>6, <1>7, <1>8

LEMMA ReadSnapshotKeeps ==
    ASSUME QualityInv, NEW o \in Operators, ReadSnapshot(o)
    PROVE  QualityInv'
<1> USE DEF QualityInv
<1>1. /\ operator[o].step = "moved" /\ operator[o] \in OperatorStates
      /\ operator' = [operator EXCEPT ![o] = [@ EXCEPT !.step = "read", !.snap = Snapshot]]
      /\ UNCHANGED <<live, archive, view, request, archives, recorded, answered, mixed, failed, crashes>>
  BY DEF ReadSnapshot, QualityTypeOK, ledger, observers
<1>2. [operator[o] EXCEPT !.step = "read", !.snap = Snapshot] \in OperatorStates
  BY <1>1, ArchivedType DEF OperatorStates
<1>3. /\ operator'[o].step = "read" /\ operator'[o].snap = Snapshot
      /\ \A p \in Operators \ {o} : operator'[p] = operator[p]
  BY <1>1 DEF QualityTypeOK, OperatorStates
<1>4. QualityTypeOK'
  BY <1>1, <1>2 DEF QualityTypeOK
<1>5. LedgerTotals' /\ ToldTotals'
  BY <1>1, RequestsStay DEF LedgerTotals, Total, ArchivedTotal
<1>6. SnapsFresh'
  <2>1. Snapshot' = Snapshot
    BY <1>1 DEF Snapshot, ArchivedTotal, Total
  <2>2. QED
    BY <1>3, <2>1 DEF SnapsFresh, Fresh
<1>7. ViewTrue'
  BY <1>3 DEF ViewTrue, Refreshing
<1>8. QED
  BY <1>4, <1>5, <1>6, <1>7

LEMMA ApplySnapshotKeeps ==
    ASSUME QualityInv, NEW o \in Operators, ApplySnapshot(o)
    PROVE  QualityInv'
<1> USE DEF QualityInv
<1>1. /\ operator[o].step = "read" /\ operator[o] \in OperatorStates
      /\ view' = operator[o].snap /\ operator' = [operator EXCEPT ![o] = NoOperation]
      /\ mixed' = (mixed \/ Between \/ OthersRefresh(o)) /\ failed' = FALSE
      /\ UNCHANGED <<live, archive, request, archives, recorded, answered, crashes>>
  BY DEF ApplySnapshot, QualityTypeOK, ledger
<1>2. NoOperation \in OperatorStates /\ NoOperation.step = "idle"
  BY ZeroTotal DEF NoOperation, OperatorStates, Views
<1>3. /\ operator'[o].step = "idle"
      /\ \A p \in Operators \ {o} : operator'[p] = operator[p]
  BY <1>1, <1>2 DEF QualityTypeOK
<1>4. view' \in Views
  BY <1>1 DEF OperatorStates
<1>5. mixed' \in BOOLEAN /\ (~mixed' => ~mixed /\ ~Between /\ Fresh(o))
  BY <1>1 DEF Fresh, OthersRefresh, QualityTypeOK
<1>6. QualityTypeOK'
  BY <1>1, <1>2, <1>4, <1>5 DEF QualityTypeOK
<1>7. LedgerTotals' /\ ToldTotals'
  BY <1>1, RequestsStay DEF LedgerTotals, Total, ArchivedTotal
<1>8. SnapsFresh'
  <2>1. ASSUME ~mixed', NEW p \in Operators, Fresh(p)' PROVE FALSE
    <3>1. p # o /\ operator[p].step = "read"
      BY <1>3, <2>1 DEF Fresh
    <3>2. QED
      BY <1>1, <2>1, <3>1 DEF OthersRefresh
  <2>2. QED
    BY <2>1 DEF SnapsFresh
<1>9. ViewTrue'
  <2> SUFFICES ASSUME ~mixed'
               PROVE  /\ view'.archived = ArchivedTotal(archive)
                      /\ \A k \in Keys : live[k] = view'.errors[k] + Cardinality(Counting(k))
    BY <1>1 DEF ViewTrue, Counting, InBetween, ArchivedTotal, Total
  <2>1. view' = Snapshot
    BY <1>1, <1>5 DEF SnapsFresh
  <2>2. view'.archived = ArchivedTotal(archive) /\ view'.errors = live
    BY <2>1 DEF Snapshot
  <2>3. \A k : Counting(k) = {}
    BY <1>5 DEF Counting, InBetween, Between
  <2>4. \A k \in Keys : live[k] \in Nat
    BY DEF QualityTypeOK, Counters
  <2>5. \A k \in Keys : Cardinality(Counting(k)) = 0
    BY <2>3, FS_EmptySet
  <2>6. QED
    BY <2>2, <2>4, <2>5
<1>10. QED
  BY <1>6, <1>7, <1>8, <1>9

\* A refresh that fails leaves a copy nothing is claimed of.
LEMMA RefreshFailsKeeps ==
    ASSUME QualityInv, NEW o \in Operators, RefreshFails(o)
    PROVE  QualityInv'
<1> USE DEF QualityInv
<1>1. /\ operator[o].step \in {"moved", "read"} /\ operator' = [operator EXCEPT ![o] = NoOperation]
      /\ mixed' = (mixed \/ OthersRefresh(o)) /\ failed' = TRUE
      /\ UNCHANGED <<live, archive, view, request, archives, recorded, answered, crashes>>
  BY DEF RefreshFails, ledger
<1>2. NoOperation \in OperatorStates /\ NoOperation.step = "idle"
  BY ZeroTotal DEF NoOperation, OperatorStates, Views
<1>3. /\ operator'[o].step = "idle"
      /\ \A p \in Operators \ {o} : operator'[p] = operator[p]
  BY <1>1, <1>2 DEF QualityTypeOK
<1>4. QualityTypeOK'
  <2>1. mixed' \in BOOLEAN /\ failed' \in BOOLEAN
    BY <1>1
  <2>2. QED
    BY <1>1, <1>2, <2>1 DEF QualityTypeOK
<1>5. LedgerTotals' /\ ToldTotals'
  BY <1>1, RequestsStay DEF LedgerTotals, Total, ArchivedTotal
<1>6. SnapsFresh'
  <2>1. ASSUME ~mixed', NEW p \in Operators, Fresh(p)' PROVE FALSE
    <3>1. p # o /\ operator[p].step = "read"
      BY <1>3, <2>1 DEF Fresh
    <3>2. QED
      BY <1>1, <2>1, <3>1 DEF OthersRefresh
  <2>2. QED
    BY <2>1 DEF SnapsFresh
<1>7. ViewTrue'
  BY <1>1 DEF ViewTrue
<1>8. QED
  BY <1>4, <1>5, <1>6, <1>7

\* Nobody is doing anything: the copy is what the ledger says.
Quiet ==
    /\ QualityTypeOK /\ LedgerTotals /\ answered <= recorded /\ view = Snapshot
    /\ request = [q \in Requests |-> NoRequest] /\ operator = [o \in Operators |-> NoOperation]

LEMMA QuietStart == Quiet => QualityInv
<1> SUFFICES ASSUME Quiet PROVE QualityInv
  OBVIOUS
<1> USE DEF Quiet
<1>1. /\ \A q \in Requests : request[q].step = "idle"
      /\ \A o \in Operators : operator[o].step = "idle"
  BY DEF NoRequest, NoOperation
<1>2. ToldTotals
  <2>1. Pending(request) = Pending([q \in Requests |-> NoRequest])
    BY DEF Pending
  <2>2. \A q \in Requests : Pending(request)[q] = 0
    BY <1>1 DEF Pending, Own
  <2> DEFINE f == Pending(request)
             Z == {T \in SUBSET Requests : Sum(f, T) = 0}
  <2>3. ASSUME NEW T \in SUBSET Requests, \A U \in SUBSET T : U # T => U \in Z
        PROVE  T \in Z
    <3>1. IsFiniteSet(T) /\ \A q \in T : f[q] = 0
      BY <2>2, FS_Subset, QualityAssumption
    <3> HIDE DEF f
    <3>2. CASE T = {}
      BY <3>2, SumOfNone
    <3>3. CASE T # {}
      <4>1. Picked(T) \in T
        BY <3>3 DEF Picked
      <4>2. T \ {Picked(T)} \in Z /\ f[Picked(T)] = 0
        BY <2>3, <3>1, <4>1
      <4>3. Sum(f, T) = f[Picked(T)] + Sum(f, T \ {Picked(T)})
        BY <3>1, <3>3, SumOfPicked
      <4>4. QED
        BY <4>2, <4>3
    <3>4. QED
      BY <3>2, <3>3
  <2>4. \A T \in SUBSET Requests : T \in Z
    <3> HIDE DEF Z
    <3>1. QED
      BY <2>3, SubsetInduction, QualityAssumption
  <2>5. Sum(Pending(request), Requests) = 0
    BY <2>4
  <2>6. QED
    BY <2>5 DEF ToldTotals, QualityTypeOK
<1>3. SnapsFresh
  BY <1>1 DEF SnapsFresh, Fresh
<1>4. ViewTrue
  <2>1. view.archived = ArchivedTotal(archive) /\ view.errors = live
    BY DEF Snapshot
  <2>2. \A k : Counting(k) = {}
    BY <1>1 DEF Counting, InBetween
  <2>3. \A k \in Keys : live[k] = view.errors[k] + Cardinality(Counting(k))
    BY <2>1, <2>2, FS_EmptySet DEF QualityTypeOK, Counters
  <2>4. QED
    BY <2>1, <2>3 DEF ViewTrue, Counting
<1>5. QED
  BY <1>2, <1>3, <1>4 DEF QualityInv

LEMMA RestartKeeps ==
    ASSUME QualityInv, Restart
    PROVE  QualityInv'
<1>1. /\ view' = Snapshot /\ mixed' = FALSE /\ failed' = FALSE
      /\ request' = [q \in Requests |-> NoRequest]
      /\ operator' = [o \in Operators |-> NoOperation]
      /\ UNCHANGED <<live, archive, archives, recorded, answered>>
  BY DEF Restart, ledger
<1>2. NoRequest \in RequestStates /\ NoOperation \in OperatorStates
  BY ZeroTotal DEF NoRequest, RequestStates, NoOperation, OperatorStates, Views
<1>3. QualityTypeOK'
  <2>1. Snapshot \in Views
    BY ArchivedType DEF QualityInv
  <2>2. QED
    BY <1>1, <1>2, <2>1 DEF QualityInv, QualityTypeOK
<1>4. LedgerTotals'
  BY <1>1 DEF QualityInv, LedgerTotals, Total, ArchivedTotal
<1>5. (answered <= recorded)'
  <2>1. PICK r \in [Requests -> RequestStates] : r = request
    BY DEF QualityInv, QualityTypeOK
  <2>2. Sum(Pending(r), Requests) \in Nat
    BY PendingType
  <2>3. QED
    BY <1>1, <2>1, <2>2 DEF QualityInv, QualityTypeOK, ToldTotals
<1>6. (view = Snapshot)'
  BY <1>1 DEF Snapshot, ArchivedTotal, Total
<1>7. QED
  <2>1. Quiet'
    BY <1>1, <1>3, <1>4, <1>5, <1>6 DEF Quiet
  <2>2. QED
    BY <2>1, QuietStart, PTL

LEMMA QualityInitially == QualityInit => QualityInv
<1> SUFFICES ASSUME QualityInit PROVE QualityInv
  OBVIOUS
<1>1. NoRequest \in RequestStates /\ NoOperation \in OperatorStates
  BY ZeroTotal DEF NoRequest, RequestStates, NoOperation, OperatorStates, Views
<1>2. QualityTypeOK
  <2>1. live \in Counters /\ archive = NoArchive
    BY ZeroTotal DEF QualityInit
  <2>2. view \in Views
    BY <2>1 DEF QualityInit, Snapshot, Views, ArchivedTotal
  <2>3. QED
    BY <1>1, <2>1, <2>2 DEF QualityInit, QualityTypeOK
<1>3. LedgerTotals
  BY ZeroTotal DEF QualityInit, LedgerTotals, ArchivedTotal
<1>4. QED
  BY <1>2, <1>3, QuietStart DEF QualityInit, Quiet

LEMMA QualityKeeps == QualityInv /\ [QualityNext]_qualityVars => QualityInv'
<1> SUFFICES ASSUME QualityInv, [QualityNext]_qualityVars PROVE QualityInv'
  OBVIOUS
<1>1. CASE UNCHANGED qualityVars
  <2>1. QualityTypeOK' /\ LedgerTotals' /\ ToldTotals'
    BY <1>1 DEF QualityInv, QualityTypeOK, LedgerTotals, ToldTotals, Pending, qualityVars, ledger,
                observers, Total, ArchivedTotal
  <2>2. SnapsFresh' /\ ViewTrue'
    BY <1>1 DEF QualityInv, SnapsFresh, ViewTrue, Fresh, Snapshot, Refreshing, InBetween,
                qualityVars, ledger, observers, Total, ArchivedTotal
  <2>3. QED
    BY <2>1, <2>2 DEF QualityInv
<1>2. ASSUME NEW q \in Requests,
             \/ \E errors \in SUBSET Keys : CapturesStored(q, errors)
             \/ Record(q) \/ RecordFails(q) \/ Observe(q)
      PROVE  QualityInv'
  BY <1>2, StoredKeeps, RecordKeeps, RecordFailsKeeps, ObserveKeeps
<1>3. ASSUME NEW o \in Operators,
             \/ Plan(o) \/ ArchiveQuality(o) \/ ReadSnapshot(o) \/ ApplySnapshot(o) \/ RefreshFails(o)
             \/ \E id \in 1 .. archives : RestoreQuality(o, id)
      PROVE  QualityInv'
  BY <1>3, PlanKeeps, ArchiveKeeps, ReadSnapshotKeeps, ApplySnapshotKeeps, RefreshFailsKeeps,
     RestoreKeeps
<1>4. CASE Restart
  BY <1>4, RestartKeeps
<1>5. QED
  BY <1>1, <1>2, <1>3, <1>4 DEF QualityNext

LEMMA QualityEnough == QualityInv => ErrorsConserved
<1> SUFFICES ASSUME QualityInv PROVE ErrorsConserved
  OBVIOUS
<1>1. answered <= recorded
  <2>1. PICK r \in [Requests -> RequestStates] : r = request
    BY DEF QualityInv, QualityTypeOK
  <2>2. Sum(Pending(r), Requests) \in Nat
    BY PendingType
  <2>3. QED
    BY <2>1, <2>2 DEF QualityInv, QualityTypeOK, ToldTotals
<1>2. QED
  BY <1>1 DEF QualityInv, ErrorsConserved, LedgerTotals, ViewTrue

-----------------------------------------------------------------------------
(***************************************************************************)
(* The sharded Collector.                                                  *)
(***************************************************************************)

Shards == [active : SUBSET Records, sealed : SUBSET Records]
Inbound == [step : {"idle", "body", "submit"}, body : SUBSET Records, read : Nat,
            accounted : Nat, todo : SUBSET Records, done : SUBSET Records]

ShardTypeOK ==
    /\ topology \in Counts \cup {NoCount} /\ temporary \in SUBSET Counts
    /\ server \in [step : {"down", "temporary", "renamed", "up"}, count : Counts \cup {NoCount}]
    /\ shard \in [Numbers -> Shards]
    /\ inbound \in [Connections -> Inbound] /\ bodyFree \in Nat
    /\ flush \in [step : {"idle", "run", "ok"}, before : SUBSET Records,
                  todo : SUBSET Numbers, failed : BOOLEAN]
    /\ told \in SUBSET Records

\* A service that is up, or on the way, and the topology file agree; only a
\* service that is up has requests.
Serving ==
    /\ server.step = "temporary" => server.count \in Counts /\ topology = NoCount
    /\ server.step = "renamed" => server.count \in Counts /\ topology = server.count /\ AllHeld = {}
    /\ Up => server.count \in Counts /\ topology = server.count
    /\ ~Up => flush.step = "idle" /\ \A q \in Connections : inbound[q].step = "idle"

\* A record is in the home of its id, by the topology file, with one payload.
Homes == \A s \in Numbers : \A r \in Held(s) : topology # NoCount /\ s = Home(r[1], topology)
OnePayload == \A s \in Numbers : \A r, x \in Held(s) : r[1] = x[1] => r = x

\* What was, or will be, answered as durable is stored.
Known == told \subseteq AllHeld /\ \A q \in Connections : inbound[q].done \subseteq AllHeld

\* What a flush found is sealed, or in a shard the flush has still to ask.
Sealing ==
    /\ flush.step = "run" /\ ~flush.failed =>
          \A r \in flush.before : \/ \E s \in Numbers : r \in shard[s].sealed
                                  \/ \E s \in flush.todo : r \in Held(s)
    /\ flush.step = "ok" => \A r \in flush.before : \E s \in Numbers : r \in shard[s].sealed

\* A body has permits for all that was read of it.
Accounts(i) == [q \in Connections |-> i[q].accounted]
Bodies ==
    /\ bodyFree + Sum(Accounts(inbound), Connections) = Capacity
    /\ \A q \in Connections : /\ inbound[q].read <= inbound[q].accounted
                              /\ inbound[q].step = "idle" => inbound[q].accounted = 0

ShardInv == ShardTypeOK /\ Serving /\ Homes /\ OnePayload /\ Known /\ Sealing /\ Bodies

-----------------------------------------------------------------------------
LEMMA HomeType ==
    ASSUME NEW id \in Ids, NEW count \in Counts
    PROVE  Home(id, count) \in 0 .. count - 1 /\ Home(id, count) \in Numbers
<1>1. Hash[id] \in Nat /\ count \in Nat \ {0}
  BY ShardAssumption
<1>2. Hash[id] % count \in 0 .. count - 1
  BY <1>1
<1>3. QED
  BY <1>2 DEF Home, Numbers

\* What a step of a store does: it forgets nothing and unseals nothing.
Grown ==
    /\ shard' \in [Numbers -> Shards]
    /\ \A s \in Numbers : Held(s) \subseteq Held(s)' /\ shard[s].sealed \subseteq shard'[s].sealed
    /\ Homes' /\ OnePayload'

LEMMA StayGrows ==
    ASSUME ShardTypeOK, Homes, OnePayload, UNCHANGED <<shard, topology>>
    PROVE  Grown
BY DEF Grown, ShardTypeOK, Homes, OnePayload, Held

LEMMA KeepGrows ==
    ASSUME ShardTypeOK, Serving, Homes, OnePayload, Up, topology' = topology, NEW r \in Records,
           shard' = Keep(Home(r[1], server.count), r)
    PROVE  Grown /\ Stored(Home(r[1], server.count), r) \in AllHeld'
<1>1. r[1] \in Ids /\ server.count \in Counts /\ topology = server.count /\ server.count # NoCount
  BY ShardAssumption DEF Records, Serving
<1>2. PICK h \in Numbers : h = Home(r[1], server.count)
  BY <1>1, HomeType
<1>3. CASE \E x \in Held(h) : x[1] = r[1]
  <2>1. Stored(h, r) \in Held(h)
    BY <1>3 DEF Stored
  <2>2. shard' = shard
    BY <1>2, <2>1 DEF Keep
  <2>3. Stored(h, r) \in AllHeld'
    BY <1>2, <2>1, <2>2 DEF AllHeld, Held
  <2>4. QED
    BY <1>2, <2>2, <2>3, StayGrows
<1>4. CASE ~ \E x \in Held(h) : x[1] = r[1]
  <2>1. Stored(h, r) = r /\ r \notin Held(h)
    BY <1>4 DEF Stored
  <2>2. shard' = [shard EXCEPT ![h].active = @ \cup {r}]
    BY <1>2, <2>1 DEF Keep
  <2>3. /\ shard' \in [Numbers -> Shards]
        /\ \A s \in Numbers \ {h} : shard'[s] = shard[s]
        /\ shard'[h].active = shard[h].active \cup {r} /\ shard'[h].sealed = shard[h].sealed
    BY <1>2, <2>2 DEF ShardTypeOK, Shards
  <2>4. /\ \A s \in Numbers \ {h} : Held(s)' = Held(s) /\ shard'[s].sealed = shard[s].sealed
        /\ Held(h)' = Held(h) \cup {r} /\ shard'[h].sealed = shard[h].sealed
    BY <2>3 DEF Held
  <2>5. \A s \in Numbers : Held(s) \subseteq Held(s)' /\ shard[s].sealed \subseteq shard'[s].sealed
    BY <2>4
  <2>6. Homes'
    <3>1. ASSUME NEW s \in Numbers, NEW x \in Held(s)'
          PROVE  topology # NoCount /\ s = Home(x[1], topology)
      <4>1. CASE x \in Held(s)
        BY <4>1 DEF Homes
      <4>2. CASE x \notin Held(s)
        <5>1. s = h /\ x = r
          BY <2>4, <4>2
        <5>2. QED
          BY <1>1, <1>2, <5>1
      <4>3. QED
        BY <4>1, <4>2
    <3>2. QED
      BY <3>1 DEF Homes, Home
  <2>7. OnePayload'
    <3>1. ASSUME NEW s \in Numbers, NEW x \in Held(s)', NEW y \in Held(s)', x[1] = y[1]
          PROVE  x = y
      <4>1. CASE s # h
        BY <2>4, <3>1, <4>1 DEF OnePayload
      <4>2. CASE s = h
        <5>1. x \in Held(h) \cup {r} /\ y \in Held(h) \cup {r}
          BY <2>4, <4>2
        <5>2. QED
          BY <1>2, <1>4, <3>1, <5>1 DEF OnePayload
      <4>3. QED
        BY <4>1, <4>2
    <3>2. QED
      BY <3>1 DEF OnePayload
  <2>8. Stored(h, r) \in AllHeld'
    BY <1>2, <2>1, <2>4 DEF AllHeld
  <2>9. QED
    BY <1>2, <2>3, <2>5, <2>6, <2>7, <2>8 DEF Grown
<1>5. QED
  BY <1>3, <1>4

LEMMA SealGrows ==
    ASSUME ShardTypeOK, Homes, OnePayload, topology' = topology, NEW n \in Numbers,
           shard' = SealedShard(n)
    PROVE  Grown /\ shard'[n].sealed = Held(n)
<1>1. Held(n) \in SUBSET Records
  BY DEF ShardTypeOK, Shards, Held
<1>2. /\ shard' \in [Numbers -> Shards]
      /\ \A s \in Numbers \ {n} : shard'[s] = shard[s]
      /\ shard'[n].active = {} /\ shard'[n].sealed = Held(n)
  BY <1>1 DEF ShardTypeOK, Shards, SealedShard
<1>3. \A s \in Numbers : Held(s)' = Held(s) /\ shard[s].sealed \subseteq shard'[s].sealed
  BY <1>2 DEF Held
<1>4. Homes' /\ OnePayload'
  BY <1>3 DEF Homes, OnePayload, Home
<1>5. QED
  BY <1>2, <1>3, <1>4 DEF Grown

\* What a store that has grown knows, it still knows.
LEMMA StillKnown ==
    ASSUME ShardTypeOK, Grown, Sealing
    PROVE  /\ AllHeld \subseteq AllHeld'
           /\ flush' = flush => Sealing'
<1>1. AllHeld \subseteq AllHeld'
  BY DEF Grown, AllHeld
<1>2. ASSUME flush' = flush PROVE Sealing'
  BY <1>2 DEF ShardTypeOK, Grown, Sealing
<1>3. QED
  BY <1>1, <1>2

\* A connection's part of the body budget.
LEMMA AccountsMove ==
    ASSUME NEW i \in [Connections -> Inbound], NEW j \in [Connections -> Inbound],
           NEW q \in Connections, \A p \in Connections \ {q} : j[p] = i[p]
    PROVE  /\ Sum(Accounts(j), Connections) + i[q].accounted
              = Sum(Accounts(i), Connections) + j[q].accounted
           /\ Sum(Accounts(i), Connections) \in Nat /\ Sum(Accounts(j), Connections) \in Nat
<1> DEFINE f == Accounts(i)  g == Accounts(j)
<1>1. /\ \A p \in Connections : f[p] \in Nat /\ g[p] \in Nat /\ (p # q => g[p] = f[p])
      /\ f[q] = i[q].accounted /\ g[q] = j[q].accounted
  BY DEF Accounts, Inbound
<1> HIDE DEF f, g
<1>2. /\ Sum(g, Connections) + f[q] = Sum(f, Connections) + g[q]
      /\ Sum(f, Connections) \in Nat /\ Sum(g, Connections) \in Nat
  BY <1>1, SumOfChanged, ShardAssumption
<1>3. QED
  BY <1>1, <1>2 DEF f, g

\* What a step of one connection has to show.
LEMMA ConnectionKeeps ==
    ASSUME ShardInv, Up, NEW q \in Connections, NEW c \in Inbound,
           inbound' = [inbound EXCEPT ![q] = c], Grown,
           UNCHANGED <<topology, temporary, server, flush>>,
           told' \subseteq told \cup inbound[q].done, c.done \subseteq inbound[q].done \cup AllHeld',
           c.read <= c.accounted, c.step = "idle" => c.accounted = 0, bodyFree' \in Nat,
           bodyFree' + c.accounted = bodyFree + inbound[q].accounted
    PROVE  ShardInv'
<1>0. ShardTypeOK /\ Serving /\ Known /\ Sealing /\ Bodies
  BY DEF ShardInv
<1>1. /\ inbound' \in [Connections -> Inbound] /\ inbound'[q] = c
      /\ \A p \in Connections \ {q} : inbound'[p] = inbound[p]
  BY <1>0 DEF ShardTypeOK
<1>2. ShardTypeOK'
  <2>1. told' \in SUBSET Records
    BY <1>0 DEF ShardTypeOK, Inbound
  <2>2. QED
    BY <1>0, <1>1, <2>1 DEF ShardTypeOK, Grown
<1>3. Serving'
  BY <1>0 DEF Serving, Up
<1>4. AllHeld \subseteq AllHeld' /\ Sealing'
  BY <1>0, StillKnown
<1>5. Known'
  <2>1. told' \subseteq AllHeld'
    BY <1>0, <1>4 DEF Known
  <2>2. ASSUME NEW p \in Connections PROVE inbound'[p].done \subseteq AllHeld'
    BY <1>0, <1>1, <1>4 DEF Known
  <2>3. QED
    BY <2>1, <2>2 DEF Known
<1>6. Bodies'
  <2>1. PICK i \in [Connections -> Inbound], j \in [Connections -> Inbound] :
              i = inbound /\ j = inbound'
    BY <1>0, <1>1 DEF ShardTypeOK
  <2>2. /\ Sum(Accounts(j), Connections) + i[q].accounted
           = Sum(Accounts(i), Connections) + c.accounted
        /\ Sum(Accounts(i), Connections) \in Nat /\ Sum(Accounts(j), Connections) \in Nat
    BY <1>1, <2>1, AccountsMove
  <2>3. i[q].accounted \in Nat /\ c.accounted \in Nat /\ bodyFree \in Nat
    BY <1>0 DEF Inbound, ShardTypeOK
  <2>4. bodyFree + Sum(Accounts(i), Connections) = Capacity
    BY <1>0, <2>1 DEF Bodies
  <2>5. bodyFree' + Sum(Accounts(j), Connections) = Capacity
    <3>1. bodyFree' + c.accounted = bodyFree + i[q].accounted
      BY <2>1
    <3>2. QED
      BY <2>2, <2>3, <2>4, <3>1
  <2>6. \A p \in Connections : /\ inbound'[p].read <= inbound'[p].accounted
                               /\ inbound'[p].step = "idle" => inbound'[p].accounted = 0
    BY <1>0, <1>1 DEF Bodies
  <2>7. Accounts(inbound)' = Accounts(j)
    BY <2>1 DEF Accounts
  <2>8. QED
    BY <2>5, <2>6, <2>7 DEF Bodies
<1>7. QED
  BY <1>2, <1>3, <1>4, <1>5, <1>6 DEF ShardInv, Grown

\* A connection, when it has a request.
LEMMA ConnectionType ==
    ASSUME ShardInv, NEW q \in Connections
    PROVE  /\ inbound[q] \in Inbound /\ inbound[q].read <= inbound[q].accounted
           /\ inbound[q].step # "idle" => Up
           /\ inbound[q].step = "idle" => inbound[q].accounted = 0
           /\ ShardTypeOK /\ Serving /\ Homes /\ OnePayload /\ bodyFree \in Nat
           /\ inbound[q].accounted \in Nat /\ inbound[q].read \in Nat
<1>1. ShardTypeOK /\ Serving /\ Homes /\ OnePayload /\ Bodies
  BY DEF ShardInv
<1>2. inbound[q] \in Inbound /\ bodyFree \in Nat
  BY <1>1 DEF ShardTypeOK
<1>3. inbound[q].accounted \in Nat /\ inbound[q].read \in Nat
  BY <1>2 DEF Inbound
<1>4. /\ inbound[q].read <= inbound[q].accounted
      /\ inbound[q].step = "idle" => inbound[q].accounted = 0
      /\ inbound[q].step # "idle" => Up
  <2>1. inbound[q].step # "idle" => Up
    BY <1>1 DEF Serving
  <2>2. \A p \in Connections : /\ inbound[p].read <= inbound[p].accounted
                               /\ inbound[p].step = "idle" => inbound[p].accounted = 0
    BY <1>1 DEF Bodies
  <2>3. QED
    BY <2>1, <2>2
<1>5. QED
  BY <1>1, <1>2, <1>3, <1>4

LEMMA FreeType == Free \in Inbound /\ Free.accounted = 0 /\ Free.read = 0 /\ Free.done = {}
                  /\ Free.step = "idle"
BY DEF Free, Inbound

\* A connection gives up what it has.
LEMMA ReleaseKeeps ==
    ASSUME ShardInv, Up, NEW q \in Connections, Release(q), Grown,
           UNCHANGED <<topology, temporary, server, flush>>,
           told' \subseteq told \cup inbound[q].done
    PROVE  ShardInv'
<1>1. /\ bodyFree' \in Nat /\ bodyFree' + 0 = bodyFree + inbound[q].accounted
      /\ inbound' = [inbound EXCEPT ![q] = Free]
  BY ConnectionType DEF Release
<1>2. /\ Free \in Inbound /\ Free.read <= Free.accounted /\ Free.accounted = 0
      /\ Free.done \subseteq inbound[q].done \cup AllHeld'
  BY FreeType
<1>3. bodyFree' + Free.accounted = bodyFree + inbound[q].accounted
  BY <1>1, <1>2
<1> HIDE DEF Free
<1>4. QED
  BY <1>1, <1>2, <1>3, ConnectionKeeps

LEMMA ReceiveKeeps ==
    ASSUME ShardInv, NEW q \in Connections, NEW body \in Batches, NEW declared \in 0 .. MaxBody,
           Receive(q, body, declared)
    PROVE  ShardInv'
<1> DEFINE c == [Free EXCEPT !.step = "body", !.body = body, !.accounted = declared]
<1>1. body \in SUBSET Records /\ declared \in Nat
  BY ShardAssumption DEF Records
<1>2. c \in Inbound /\ c.read = 0 /\ c.accounted = declared /\ c.done = {} /\ c.step = "body"
  BY <1>1 DEF Free, Inbound
<1>3. /\ inbound' = [inbound EXCEPT ![q] = c] /\ bodyFree' = bodyFree - declared
      /\ Up /\ inbound[q].step = "idle" /\ declared <= bodyFree
      /\ UNCHANGED <<topology, temporary, server, shard, flush, told>>
  BY DEF Receive, files
<1> HIDE DEF c
<1>4. Grown
  BY <1>3, StayGrows, ConnectionType
<1>5. /\ c.read <= c.accounted /\ bodyFree' \in Nat
      /\ bodyFree' + c.accounted = bodyFree + inbound[q].accounted
  BY <1>1, <1>2, <1>3, ConnectionType
<1>6. QED
  BY <1>2, <1>3, <1>4, <1>5, ConnectionKeeps

LEMMA ReadFrameKeeps ==
    ASSUME ShardInv, NEW q \in Connections, ReadFrame(q)
    PROVE  ShardInv'
<1> DEFINE n == inbound[q].read + 1  more == n > inbound[q].accounted
<1>1. /\ inbound[q].step = "body" /\ Up
      /\ UNCHANGED <<topology, temporary, server, shard, flush, told>>
  BY ConnectionType DEF ReadFrame, files
<1>2. Grown
  BY <1>1, StayGrows, ConnectionType
<1>3. CASE n > MaxBody \/ (more /\ bodyFree = 0)
  <2>1. Release(q)
    BY <1>3 DEF ReadFrame
  <2>2. QED
    BY <1>1, <1>2, <2>1, ReleaseKeeps
<1>4. CASE ~(n > MaxBody \/ (more /\ bodyFree = 0))
  <2> DEFINE c == [inbound[q] EXCEPT !.read = n, !.accounted = IF more THEN n ELSE @]
  <2>1. /\ bodyFree' = (IF more THEN bodyFree - 1 ELSE bodyFree)
        /\ inbound' = [inbound EXCEPT ![q] = c]
    BY <1>4, ConnectionType DEF ReadFrame
  <2>2. inbound[q] \in Inbound /\ inbound[q].read \in Nat /\ inbound[q].accounted \in Nat
    BY ConnectionType
  <2>3. /\ c \in Inbound /\ c.read = n /\ c.accounted = (IF more THEN n ELSE inbound[q].accounted)
        /\ c.done = inbound[q].done /\ c.step = "body"
    <3> DEFINE m == IF more THEN n ELSE inbound[q].accounted
    <3>1. m \in Nat /\ n \in Nat
      BY <2>2
    <3>2. c = [inbound[q] EXCEPT !.read = n, !.accounted = m]
      BY <2>2 DEF Inbound
    <3> HIDE DEF m, n, c
    <3>3. /\ c \in Inbound /\ c.read = n /\ c.accounted = m
          /\ c.done = inbound[q].done /\ c.step = "body"
      BY <1>1, <2>2, <3>1, <3>2 DEF Inbound
    <3>4. QED
      BY <3>3 DEF m, n
  <2> HIDE DEF c
  <2>4. /\ c.read <= c.accounted /\ bodyFree' \in Nat
        /\ bodyFree' + c.accounted = bodyFree + inbound[q].accounted
    <3>1. CASE more
      <4>1. n = inbound[q].accounted + 1
        BY <2>2, <3>1, ConnectionType
      <4>2. bodyFree \in Nat /\ bodyFree # 0
        BY <1>4, <3>1, ConnectionType
      <4>3. QED
        BY <2>1, <2>2, <2>3, <3>1, <4>1, <4>2
    <3>2. CASE ~more
      BY <2>1, <2>2, <2>3, <3>2, ConnectionType
    <3>3. QED
      BY <3>1, <3>2
  <2>5. QED
    BY <1>1, <1>2, <2>1, <2>3, <2>4, ConnectionKeeps
<1>5. QED
  BY <1>3, <1>4

LEMMA SubmitKeeps ==
    ASSUME ShardInv, NEW q \in Connections, Submit(q)
    PROVE  ShardInv'
<1> DEFINE c == [inbound[q] EXCEPT !.step = "submit", !.todo = inbound[q].body]
<1>1. /\ inbound[q].step = "body" /\ Up /\ inbound' = [inbound EXCEPT ![q] = c]
      /\ UNCHANGED <<topology, temporary, server, shard, flush, told, bodyFree>>
  BY ConnectionType DEF Submit, files
<1>2. /\ c \in Inbound /\ c.read = inbound[q].read /\ c.accounted = inbound[q].accounted
      /\ c.done = inbound[q].done /\ c.step = "submit"
  BY ConnectionType DEF Inbound
<1> HIDE DEF c
<1>3. Grown
  BY <1>1, StayGrows, ConnectionType
<1>4. /\ c.read <= c.accounted /\ bodyFree' \in Nat
      /\ bodyFree' + c.accounted = bodyFree + inbound[q].accounted
  BY <1>1, <1>2, ConnectionType
<1>5. QED
  BY <1>1, <1>2, <1>3, <1>4, ConnectionKeeps

LEMMA RejectKeeps ==
    ASSUME ShardInv, NEW q \in Connections, Reject(q)
    PROVE  ShardInv'
<1>1. /\ inbound[q].step = "body" /\ Up /\ Release(q)
      /\ UNCHANGED <<topology, temporary, server, shard, flush, told>>
  BY ConnectionType DEF Reject, files
<1>2. Grown
  BY <1>1, StayGrows, ConnectionType
<1>3. QED
  BY <1>1, <1>2, ReleaseKeeps

LEMMA AnswerKeeps ==
    ASSUME ShardInv, NEW q \in Connections, Answer(q)
    PROVE  ShardInv'
<1>1. /\ inbound[q].step = "submit" /\ Up /\ Release(q) /\ told' = told \cup inbound[q].done
      /\ UNCHANGED <<topology, temporary, server, shard, flush>>
  BY ConnectionType DEF Answer, files
<1>2. Grown
  BY <1>1, StayGrows, ConnectionType
<1>3. QED
  BY <1>1, <1>2, ReleaseKeeps

LEMMA CancelKeeps ==
    ASSUME ShardInv, NEW q \in Connections, Cancel(q)
    PROVE  ShardInv'
<1>1. /\ Up /\ Release(q) /\ UNCHANGED <<topology, temporary, server, flush, told>>
  BY ConnectionType DEF Cancel, files
<1>2. Grown
  <2>1. CASE UNCHANGED shard
    BY <1>1, <2>1, StayGrows, ConnectionType
  <2>2. ASSUME NEW r \in inbound[q].todo, shard' = Keep(Home(r[1], server.count), r)
        PROVE  Grown
    <3>1. r \in Records
      BY ConnectionType DEF Inbound
    <3>2. QED
      BY <1>1, <2>2, <3>1, KeepGrows, ConnectionType
  <2>3. QED
    BY <2>1, <2>2 DEF Cancel
<1>3. QED
  BY <1>1, <1>2, ReleaseKeeps

\* A record is done with: told of later, if the shard has it.
LEMMA ShardAnswersKeeps ==
    ASSUME ShardInv, NEW q \in Connections, NEW r \in inbound[q].todo,
           ShardAnswers(q, r) \/ ShardFails(q, r)
    PROVE  ShardInv'
<1>1. /\ inbound[q].step = "submit" /\ Up /\ r \in Records
      /\ UNCHANGED <<topology, temporary, server, bodyFree, flush, told>>
  BY ConnectionType DEF ShardAnswers, ShardFails, files, Inbound
<1>2. \/ shard' = shard /\ ShardFails(q, r)
      \/ shard' = Keep(Home(r[1], server.count), r)
  BY DEF ShardAnswers, ShardFails
<1>3. Grown
  BY <1>1, <1>2, StayGrows, KeepGrows, ConnectionType
<1>4. PICK d \in SUBSET Records : /\ d \subseteq inbound[q].done \cup AllHeld'
                                  /\ inbound' = [inbound EXCEPT ![q] = [inbound[q] EXCEPT !.todo = @ \ {r}, !.done = d]]
  <2>0. inbound[q] \in Inbound
    BY ConnectionType
  <2>1. CASE ShardFails(q, r)
    <3>1. inbound' = [inbound EXCEPT ![q] = [inbound[q] EXCEPT !.todo = @ \ {r}]]
      BY <2>1 DEF ShardFails
    <3>2. [inbound[q] EXCEPT !.todo = @ \ {r}]
          = [inbound[q] EXCEPT !.todo = @ \ {r}, !.done = inbound[q].done]
      BY <2>0 DEF Inbound
    <3>3. inbound[q].done \in SUBSET Records
      BY <2>0 DEF Inbound
    <3>4. QED
      BY <3>1, <3>2, <3>3
  <2>2. CASE ShardAnswers(q, r)
    <3> DEFINE p == Stored(Home(r[1], server.count), r)
               d == IF p = r THEN inbound[q].done \cup {r} ELSE inbound[q].done
    <3>1. inbound' = [inbound EXCEPT ![q] = [inbound[q] EXCEPT !.todo = @ \ {r}, !.done = d]]
      BY <2>2 DEF ShardAnswers
    <3>2. p \in AllHeld'
      BY <1>1, <2>2, KeepGrows, ConnectionType DEF ShardAnswers
    <3>3. d \in SUBSET Records /\ d \subseteq inbound[q].done \cup AllHeld'
      BY <1>1, <2>0, <3>2 DEF Inbound
    <3>4. QED
      BY <3>1, <3>3
  <2>3. QED
    BY <2>1, <2>2
<1> DEFINE c == [inbound[q] EXCEPT !.todo = @ \ {r}, !.done = d]
<1>5. inbound' = [inbound EXCEPT ![q] = c]
  BY <1>4
<1>6. /\ c \in Inbound /\ c.read = inbound[q].read /\ c.accounted = inbound[q].accounted
      /\ c.done = d /\ c.step = "submit"
  BY <1>1, ConnectionType DEF Inbound
<1> HIDE DEF c
<1>7. /\ c.read <= c.accounted /\ bodyFree' \in Nat
      /\ bodyFree' + c.accounted = bodyFree + inbound[q].accounted
  BY <1>1, <1>6, ConnectionType
<1>8. QED
  BY <1>1, <1>3, <1>4, <1>5, <1>6, <1>7, ConnectionKeeps

-----------------------------------------------------------------------------
\* What a step that leaves requests, stores and flushes alone has to show.
LEMMA OpeningKeeps ==
    ASSUME ShardInv, UNCHANGED <<shard, inbound, bodyFree, flush, told>>, ~Up,
           topology' \in Counts \cup {NoCount}, temporary' \in SUBSET Counts,
           server' \in [step : {"down", "temporary", "renamed", "up"}, count : Counts \cup {NoCount}],
           topology' = topology \/ AllHeld = {},
           /\ server'.step = "temporary" => server'.count \in Counts /\ topology' = NoCount
           /\ server'.step = "renamed" => /\ server'.count \in Counts /\ topology' = server'.count
                                          /\ AllHeld = {}
           /\ server'.step = "up" => server'.count \in Counts /\ topology' = server'.count
    PROVE  ShardInv'
<1>0. ShardTypeOK /\ Serving /\ Homes /\ OnePayload /\ Known /\ Sealing /\ Bodies
  BY DEF ShardInv
<1>1. ShardTypeOK'
  BY <1>0 DEF ShardTypeOK
<1>2. AllHeld' = AllHeld /\ \A s : Held(s)' = Held(s)
  BY DEF AllHeld, Held
<1>3. Serving'
  <2>1. flush.step = "idle" /\ \A q \in Connections : inbound[q].step = "idle"
    BY <1>0 DEF Serving
  <2>2. QED
    BY <1>2, <2>1 DEF Serving, Up
<1>4. Homes'
  BY <1>0, <1>2 DEF Homes, AllHeld, Home
<1>5. OnePayload' /\ Known'
  BY <1>0, <1>2 DEF OnePayload, Known
<1>6. Sealing' /\ Bodies'
  BY <1>0, <1>2 DEF Sealing, Bodies, Accounts
<1>7. QED
  BY <1>1, <1>3, <1>4, <1>5, <1>6 DEF ShardInv

LEMMA OpenKeeps ==
    ASSUME ShardInv, NEW count \in Counts, Open(count)
    PROVE  ShardInv'
<1>1. ShardTypeOK /\ count # NoCount /\ ~Up /\ UNCHANGED <<topology, shard, inbound, bodyFree, flush, told>>
  BY ShardAssumption DEF ShardInv, Open, Up
<1>2. CASE topology # NoCount
  <2>1. topology = count /\ server' = [step |-> "up", count |-> count] /\ temporary' = temporary
    BY <1>2 DEF Open, Accepts
  <2>2. QED
    BY <1>1, <2>1, OpeningKeeps DEF ShardTypeOK
<1>3. CASE topology = NoCount
  <2>1. server' = [step |-> "temporary", count |-> count] /\ temporary' = temporary \cup {count}
    BY <1>3 DEF Open
  <2>2. QED
    BY <1>1, <1>3, <2>1, OpeningKeeps DEF ShardTypeOK
<1>4. QED
  BY <1>2, <1>3

LEMMA RenameKeeps ==
    ASSUME ShardInv, RenameTopology
    PROVE  ShardInv'
<1>1. /\ ShardTypeOK /\ ~Up /\ UNCHANGED <<shard, inbound, bodyFree, flush, told>>
      /\ server.count \in Counts /\ topology = NoCount /\ topology' = server.count
      /\ temporary' = temporary \ {server.count}
  BY DEF ShardInv, RenameTopology, Up, Serving
<1>2. AllHeld = {}
  <2>1. \A s \in Numbers : Held(s) = {}
    BY <1>1 DEF ShardInv, Homes
  <2>2. QED
    BY <2>1 DEF AllHeld
<1>3. /\ server'.step = "renamed" /\ server'.count = server.count
      /\ server' \in [step : {"down", "temporary", "renamed", "up"}, count : Counts \cup {NoCount}]
  BY <1>1 DEF RenameTopology, ShardTypeOK
<1>4. temporary' \in SUBSET Counts
  BY <1>1 DEF ShardTypeOK
<1>5. QED
  BY <1>1, <1>2, <1>3, <1>4, OpeningKeeps

LEMMA SyncKeeps ==
    ASSUME ShardInv, SyncTopology
    PROVE  ShardInv'
<1>1. /\ ShardTypeOK /\ ~Up /\ UNCHANGED <<topology, temporary, shard, inbound, bodyFree, flush, told>>
      /\ server.count \in Counts /\ topology = server.count
  BY DEF ShardInv, SyncTopology, Up, Serving, files
<1>2. /\ server'.step = "up" /\ server'.count = server.count
      /\ server' \in [step : {"down", "temporary", "renamed", "up"}, count : Counts \cup {NoCount}]
  BY <1>1 DEF SyncTopology, ShardTypeOK
<1>3. topology \in Counts \cup {NoCount} /\ temporary \in SUBSET Counts
  BY <1>1 DEF ShardTypeOK
<1>4. QED
  BY <1>1, <1>2, <1>3, OpeningKeeps

\* Nothing is accounted for when nobody has a request.
LEMMA AllFree ==
    ASSUME NEW i, i = [q \in Connections |-> Free]
    PROVE  Sum(Accounts(i), Connections) = 0
<1> DEFINE f == Accounts(i)
           Z == {T \in SUBSET Connections : Sum(f, T) = 0}
<1>1. \A q \in Connections : f[q] = 0
  BY FreeType DEF Accounts
<1>2. ASSUME NEW T \in SUBSET Connections, \A U \in SUBSET T : U # T => U \in Z
      PROVE  T \in Z
  <2> HIDE DEF f
  <2>1. IsFiniteSet(T)
    BY FS_Subset, ShardAssumption
  <2>2. CASE T = {}
    BY <2>2, SumOfNone
  <2>3. CASE T # {}
    <3>1. Picked(T) \in T
      BY <2>3 DEF Picked
    <3>2. T \ {Picked(T)} \in Z /\ f[Picked(T)] = 0
      BY <1>1, <1>2, <3>1
    <3>3. Sum(f, T) = f[Picked(T)] + Sum(f, T \ {Picked(T)})
      BY <2>1, <2>3, SumOfPicked
    <3>4. QED
      BY <3>2, <3>3
  <2>4. QED
    BY <2>2, <2>3
<1>3. \A T \in SUBSET Connections : T \in Z
  <2> HIDE DEF Z
  <2>1. QED
    BY <1>2, SubsetInduction, ShardAssumption
<1>4. QED
  BY <1>3

LEMMA CrashKeeps ==
    ASSUME ShardInv, CrashCollector
    PROVE  ShardInv'
<1>0. ShardTypeOK /\ Serving /\ Homes /\ OnePayload /\ Known
  BY DEF ShardInv
<1>1. /\ server' = Down /\ inbound' = [q \in Connections |-> Free] /\ bodyFree' = Capacity
      /\ flush' = NoFlush /\ UNCHANGED <<shard, told>>
  BY DEF CrashCollector
<1>2. /\ topology' \in Counts \cup {NoCount} /\ temporary' \in SUBSET Counts
      /\ topology' = topology \/ AllHeld = {}
  BY <1>0 DEF CrashCollector, files, ShardTypeOK, Serving
<1>3. ShardTypeOK'
  <2>1. Down \in [step : {"down", "temporary", "renamed", "up"}, count : Counts \cup {NoCount}]
    BY DEF Down
  <2>2. NoFlush \in [step : {"idle", "run", "ok"}, before : SUBSET Records,
                     todo : SUBSET Numbers, failed : BOOLEAN]
    BY DEF NoFlush
  <2>3. [q \in Connections |-> Free] \in [Connections -> Inbound]
    BY FreeType
  <2>4. QED
    BY <1>0, <1>1, <1>2, <2>1, <2>2, <2>3, ShardAssumption DEF ShardTypeOK
<1>4. AllHeld' = AllHeld /\ \A s : Held(s)' = Held(s)
  BY <1>1 DEF AllHeld, Held
<1>5. Serving'
  BY <1>1, FreeType DEF Serving, Up, Down, NoFlush
<1>6. Homes'
  BY <1>0, <1>2, <1>4 DEF Homes, AllHeld, Home
<1>7. OnePayload' /\ Known'
  BY <1>0, <1>1, <1>4, FreeType DEF OnePayload, Known
<1>8. Sealing'
  BY <1>1 DEF Sealing, NoFlush
<1>9. Bodies'
  <2>1. PICK i : i = inbound' /\ i = [q \in Connections |-> Free]
    BY <1>1
  <2>2. Sum(Accounts(i), Connections) = 0
    BY <2>1, AllFree
  <2>3. Accounts(inbound)' = Accounts(i)
    BY <2>1 DEF Accounts
  <2>4. QED
    BY <1>1, <2>1, <2>2, <2>3, FreeType, ShardAssumption DEF Bodies
<1>10. QED
  BY <1>3, <1>5, <1>6, <1>7, <1>8, <1>9 DEF ShardInv

-----------------------------------------------------------------------------
\* What a step of a flush has to show.
LEMMA FlushingKeeps ==
    ASSUME ShardInv, UNCHANGED <<topology, temporary, server, inbound, bodyFree, told>>, Grown,
           flush' \in [step : {"idle", "run", "ok"}, before : SUBSET Records,
                       todo : SUBSET Numbers, failed : BOOLEAN],
           Up, Sealing'
    PROVE  ShardInv'
<1>0. ShardTypeOK /\ Serving /\ Known /\ Sealing /\ Bodies
  BY DEF ShardInv
<1>1. ShardTypeOK'
  BY <1>0 DEF ShardTypeOK, Grown
<1>2. Serving'
  BY <1>0 DEF Serving, Up
<1>3. AllHeld \subseteq AllHeld'
  BY <1>0, StillKnown
<1>4. Known' /\ Bodies'
  BY <1>0, <1>3 DEF Known, Bodies, Accounts
<1>5. QED
  BY <1>1, <1>2, <1>4 DEF ShardInv, Grown

LEMMA FlushType ==
    ASSUME ShardInv
    PROVE  /\ flush \in [step : {"idle", "run", "ok"}, before : SUBSET Records,
                         todo : SUBSET Numbers, failed : BOOLEAN]
           /\ flush.step # "idle" => Up
           /\ ShardTypeOK /\ Serving /\ Homes /\ OnePayload /\ Sealing
           /\ AllHeld \in SUBSET Records
<1>1. ShardTypeOK /\ Serving /\ Homes /\ OnePayload /\ Sealing
  BY DEF ShardInv
<1>2. AllHeld \in SUBSET Records
  BY <1>1 DEF ShardTypeOK, Shards, AllHeld, Held
<1>3. QED
  BY <1>1, <1>2 DEF ShardTypeOK, Serving

LEMMA FlushAllKeeps ==
    ASSUME ShardInv, FlushAll
    PROVE  ShardInv'
<1>1. /\ Up /\ UNCHANGED <<topology, temporary, server, shard, inbound, bodyFree, told>>
      /\ flush' = [step |-> "run", before |-> AllHeld, todo |-> 0 .. server.count - 1,
                   failed |-> FALSE]
  BY DEF FlushAll, files
<1>2. server.count \in Counts /\ topology = server.count
  BY <1>1, FlushType DEF Serving
<1>3. 0 .. server.count - 1 \in SUBSET Numbers
  BY <1>2 DEF Numbers
<1>4. flush' \in [step : {"idle", "run", "ok"}, before : SUBSET Records,
                  todo : SUBSET Numbers, failed : BOOLEAN]
  BY <1>1, <1>3, FlushType
<1>5. Grown
  BY <1>1, FlushType, StayGrows
<1>6. ASSUME NEW r \in AllHeld PROVE \E s \in 0 .. server.count - 1 : r \in Held(s)
  <2>1. PICK s \in Numbers : r \in Held(s)
    BY DEF AllHeld
  <2>2. s = Home(r[1], server.count)
    BY <1>2, <2>1, FlushType DEF Homes
  <2>3. r[1] \in Ids
    BY FlushType DEF Records
  <2>4. QED
    BY <1>2, <2>1, <2>2, <2>3, HomeType
<1>7. Sealing'
  <2>1. \A s : Held(s)' = Held(s)
    BY <1>1 DEF Held
  <2>2. /\ flush'.step = "run" /\ flush'.before = AllHeld /\ flush'.todo = 0 .. server.count - 1
    BY <1>1
  <2>3. QED
    BY <1>6, <2>1, <2>2 DEF Sealing
<1>8. QED
  BY <1>1, <1>4, <1>5, <1>7, FlushingKeeps

LEMMA FlushShardKeeps ==
    ASSUME ShardInv, NEW s \in flush.todo, FlushShard(s) \/ FlushFails(s)
    PROVE  ShardInv'
<1>1. /\ flush.step = "run" /\ Up /\ s \in Numbers
      /\ UNCHANGED <<topology, temporary, server, inbound, bodyFree, told>>
  BY FlushType DEF FlushShard, FlushFails, files
<1>2. CASE FlushShard(s)
  <2>1. shard' = SealedShard(s) /\ flush' = [flush EXCEPT !.todo = @ \ {s}]
    BY <1>2 DEF FlushShard
  <2>2. Grown /\ shard'[s].sealed = Held(s)
    BY <1>1, <2>1, FlushType, SealGrows
  <2>3. /\ flush' \in [step : {"idle", "run", "ok"}, before : SUBSET Records,
                       todo : SUBSET Numbers, failed : BOOLEAN]
        /\ flush'.step = "run" /\ flush'.before = flush.before /\ flush'.todo = flush.todo \ {s}
        /\ flush'.failed = flush.failed
    BY <1>1, <2>1, FlushType
  <2>4. ASSUME ~flush.failed, NEW r \in flush.before
        PROVE  \/ \E n \in Numbers : r \in shard'[n].sealed
               \/ \E n \in flush'.todo : r \in Held(n)'
    <3>1. CASE \E n \in Numbers : r \in shard[n].sealed
      BY <2>2, <3>1 DEF Grown
    <3>2. CASE \E n \in flush.todo : r \in Held(n)
      <4>1. PICK n \in flush.todo : r \in Held(n)
        BY <3>2
      <4>2. n \in Numbers
        BY FlushType
      <4>3. CASE n = s
        BY <1>1, <2>2, <4>1, <4>3
      <4>4. CASE n # s
        <5>1. n \in flush'.todo
          BY <2>3, <4>4
        <5>2. r \in Held(n)'
          BY <2>2, <4>1, <4>2 DEF Grown
        <5>3. QED
          BY <5>1, <5>2
      <4>5. QED
        BY <4>3, <4>4
    <3>3. QED
      BY <1>1, <2>4, <3>1, <3>2, FlushType DEF Sealing
  <2>5. Sealing'
    BY <2>3, <2>4 DEF Sealing
  <2>6. QED
    BY <1>1, <2>2, <2>3, <2>5, FlushingKeeps
<1>3. CASE FlushFails(s)
  <2>1. /\ shard' \in {shard, SealedShard(s)}
        /\ flush' = [flush EXCEPT !.todo = @ \ {s}, !.failed = TRUE]
    BY <1>3 DEF FlushFails
  <2>2. Grown
    BY <1>1, <2>1, FlushType, SealGrows, StayGrows
  <2>3. /\ flush' \in [step : {"idle", "run", "ok"}, before : SUBSET Records,
                       todo : SUBSET Numbers, failed : BOOLEAN]
        /\ flush'.step = "run" /\ flush'.failed
    BY <1>1, <2>1, FlushType
  <2>4. Sealing'
    BY <2>3 DEF Sealing
  <2>5. QED
    BY <1>1, <2>2, <2>3, <2>4, FlushingKeeps
<1>4. QED
  BY <1>2, <1>3

LEMMA FlushAnswerKeeps ==
    ASSUME ShardInv, FlushAnswer \/ FlushEnds
    PROVE  ShardInv'
<1>1. /\ flush.step # "idle" /\ Up
      /\ UNCHANGED <<topology, temporary, server, shard, inbound, bodyFree, told>>
  BY FlushType DEF FlushAnswer, FlushEnds, files
<1>2. Grown
  BY <1>1, FlushType, StayGrows
<1>3. NoFlush \in [step : {"idle", "run", "ok"}, before : SUBSET Records,
                   todo : SUBSET Numbers, failed : BOOLEAN] /\ NoFlush.step = "idle"
  BY DEF NoFlush
<1>4. CASE flush' = NoFlush
  <2>1. Sealing'
    BY <1>3, <1>4 DEF Sealing
  <2>2. QED
    BY <1>1, <1>2, <1>3, <1>4, <2>1, FlushingKeeps
<1>5. CASE flush' # NoFlush
  <2>1. /\ flush.step = "run" /\ flush.todo = {} /\ ~flush.failed
        /\ flush' = [flush EXCEPT !.step = "ok"]
    BY <1>5 DEF FlushAnswer, FlushEnds
  <2>2. /\ flush' \in [step : {"idle", "run", "ok"}, before : SUBSET Records,
                       todo : SUBSET Numbers, failed : BOOLEAN]
        /\ flush'.step = "ok" /\ flush'.before = flush.before
    BY <2>1, FlushType
  <2>3. \A r \in flush.before : \E s \in Numbers : r \in shard[s].sealed
    BY <2>1, FlushType DEF Sealing
  <2>4. Sealing'
    BY <1>1, <2>2, <2>3 DEF Sealing
  <2>5. QED
    BY <1>1, <1>2, <2>2, <2>4, FlushingKeeps
<1>6. QED
  BY <1>4, <1>5

-----------------------------------------------------------------------------
LEMMA ShardInitially == ShardInit => ShardInv
<1> SUFFICES ASSUME ShardInit PROVE ShardInv
  OBVIOUS
<1>1. \A s \in Numbers : Held(s) = {} /\ shard[s] \in Shards
  BY DEF ShardInit, Held, Shards
<1>2. ShardTypeOK
  <2>1. Down \in [step : {"down", "temporary", "renamed", "up"}, count : Counts \cup {NoCount}]
    BY DEF Down
  <2>2. NoFlush \in [step : {"idle", "run", "ok"}, before : SUBSET Records,
                     todo : SUBSET Numbers, failed : BOOLEAN]
    BY DEF NoFlush
  <2>3. inbound \in [Connections -> Inbound] /\ shard \in [Numbers -> Shards]
    BY FreeType DEF ShardInit, Shards
  <2>4. QED
    BY <2>1, <2>2, <2>3, ShardAssumption DEF ShardInit, ShardTypeOK
<1>3. Serving
  BY FreeType DEF ShardInit, Serving, Up, Down, NoFlush
<1>4. Homes /\ OnePayload /\ Known /\ Sealing
  BY <1>1, FreeType DEF ShardInit, Homes, OnePayload, Known, Sealing, NoFlush
<1>5. Bodies
  <2>1. Sum(Accounts(inbound), Connections) = 0
    BY AllFree DEF ShardInit
  <2>2. \A q \in Connections : inbound[q] = Free
    BY DEF ShardInit
  <2>3. QED
    BY <2>1, <2>2, FreeType, ShardAssumption DEF ShardInit, Bodies
<1>6. QED
  BY <1>2, <1>3, <1>4, <1>5 DEF ShardInv

LEMMA ShardKeeps == ShardInv /\ [ShardNext]_shardVars => ShardInv'
<1> SUFFICES ASSUME ShardInv, [ShardNext]_shardVars PROVE ShardInv'
  OBVIOUS
<1>1. CASE UNCHANGED shardVars
  <2>1. ShardTypeOK' /\ Serving' /\ Bodies'
    BY <1>1 DEF ShardInv, ShardTypeOK, Serving, Bodies, Accounts, Up, AllHeld, Held, shardVars, files
  <2>2. Homes' /\ OnePayload' /\ Known' /\ Sealing'
    BY <1>1 DEF ShardInv, Homes, OnePayload, Known, Sealing, AllHeld, Held, shardVars, files
  <2>3. QED
    BY <2>1, <2>2 DEF ShardInv
<1>2. ASSUME NEW count \in Counts, Open(count) PROVE ShardInv'
  BY <1>2, OpenKeeps
<1>3. CASE RenameTopology \/ SyncTopology \/ CrashCollector
  BY <1>3, RenameKeeps, SyncKeeps, CrashKeeps
<1>4. ASSUME NEW q \in Connections, NEW body \in Batches, NEW declared \in 0 .. MaxBody,
             Receive(q, body, declared)
      PROVE  ShardInv'
  BY <1>4, ReceiveKeeps
<1>5. ASSUME NEW q \in Connections,
             ReadFrame(q) \/ Submit(q) \/ Reject(q) \/ Answer(q) \/ Cancel(q)
      PROVE  ShardInv'
  BY <1>5, ReadFrameKeeps, SubmitKeeps, RejectKeeps, AnswerKeeps, CancelKeeps
<1>6. ASSUME NEW q \in Connections, NEW r \in inbound[q].todo,
             ShardAnswers(q, r) \/ ShardFails(q, r)
      PROVE  ShardInv'
  BY <1>6, ShardAnswersKeeps
<1>7. CASE FlushAll \/ FlushAnswer \/ FlushEnds
  BY <1>7, FlushAllKeeps, FlushAnswerKeeps
<1>8. ASSUME NEW s \in flush.todo, FlushShard(s) \/ FlushFails(s) PROVE ShardInv'
  BY <1>8, FlushShardKeeps
<1>9. QED
  BY <1>1, <1>2, <1>3, <1>4, <1>5, <1>6, <1>7, <1>8 DEF ShardNext

LEMMA ShardsEnough == ShardInv => AnswersHold /\ BodiesBounded
<1> SUFFICES ASSUME ShardInv PROVE AnswersHold /\ BodiesBounded
  OBVIOUS
<1>1. ShardTypeOK /\ Serving /\ Homes /\ OnePayload /\ Known /\ Sealing /\ Bodies
  BY DEF ShardInv
<1>2. ToldIsFound
  <2>1. ASSUME NEW r \in AllHeld, NEW x \in AllHeld, r[1] = x[1]
        PROVE  r = x
    <3>1. PICK s \in Numbers, t \in Numbers : r \in Held(s) /\ x \in Held(t)
      BY DEF AllHeld
    <3>2. s = t
      BY <1>1, <2>1, <3>1 DEF Homes
    <3>3. QED
      BY <1>1, <2>1, <3>1, <3>2 DEF OnePayload
  <2>2. ASSUME Up, NEW r \in told
        PROVE  r \in Held(Home(r[1], server.count))
    <3>1. PICK s \in Numbers : r \in Held(s)
      BY <1>1 DEF Known, AllHeld
    <3>2. QED
      BY <1>1, <2>2, <3>1 DEF Homes, Serving
  <2>3. QED
    BY <1>1, <2>1, <2>2 DEF ToldIsFound, Homes
<1>3. FlushSeals
  BY <1>1 DEF FlushSeals, Sealing
<1>4. BodiesBounded
  <2>1. PICK i \in [Connections -> Inbound] : i = inbound
    BY <1>1 DEF ShardTypeOK
  <2> DEFINE f == [q \in Connections |-> i[q].read]  g == Accounts(i)
  <2>0. \A q \in Connections : i[q].read <= i[q].accounted
    <3>1. \A q \in Connections : inbound[q].read <= inbound[q].accounted
      BY <1>1 DEF Bodies
    <3>2. QED
      BY <2>1, <3>1
  <2>2. \A q \in Connections : f[q] \in Nat /\ g[q] \in Nat /\ f[q] <= g[q]
    BY <2>0 DEF Inbound, Accounts
  <2> HIDE DEF f, g
  <2>3. /\ Sum(f, Connections) \in Nat /\ Sum(g, Connections) \in Nat
        /\ Sum(f, Connections) <= Sum(g, Connections)
    BY <2>2, SumOfLess, ShardAssumption
  <2>4. bodyFree + Sum(g, Connections) = Capacity /\ bodyFree \in Nat
    BY <1>1, <2>1 DEF Bodies, ShardTypeOK, g
  <2>5. Sum(f, Connections) <= Capacity
    BY <2>3, <2>4
  <2>6. QED
    BY <2>1, <2>4, <2>5 DEF BodiesBounded, Sum, Accounts, f, g
<1>5. QED
  BY <1>2, <1>3, <1>4 DEF AnswersHold

-----------------------------------------------------------------------------
(***************************************************************************)
(* The services.                                                           *)
(***************************************************************************)
servicesVars == <<part, budgetVars, qualityVars, shardVars>>
ServicesInv == BudgetInv /\ QualityInv /\ ShardInv

LEMMA ServicesKeep == ServicesInv /\ [ServicesNext]_servicesVars => ServicesInv'
<1> SUFFICES ASSUME ServicesInv, [ServicesNext]_servicesVars PROVE ServicesInv'
  OBVIOUS
<1>1. /\ [BudgetNext]_budgetVars /\ [QualityNext]_qualityVars /\ [ShardNext]_shardVars
  BY DEF ServicesNext, servicesVars
<1>2. QED
  BY <1>1, BudgetKeeps, QualityKeeps, ShardKeeps DEF ServicesInv

\* The semaphore of the delivery workers loses no permit and gives none twice,
\* whatever is read, sent or fails (relay.rs, deliver_many and
\* load_delivery_payload).
THEOREM DeliveryPermitsConserved == BudgetSpec => []PermitsConserved
<1>1. BudgetSpec => []BudgetInv
  BY BudgetInitially, BudgetKeeps, PTL DEF BudgetSpec
<1>2. QED
  BY <1>1, BudgetEnough, PTL

\* The ledger forgets no quality error and invents none, whatever is archived,
\* restored or refused in between, whatever crashes and whatever refresh fails;
\* and /health reports the ledger unless the last refresh failed or a request
\* has run across one (relay.rs, archive_ingest_quality,
\* restore_ingest_quality, refresh_ingest_quality).
THEOREM LedgerConservesErrors == QualitySpec => []ErrorsConserved
<1>1. QualitySpec => []QualityInv
  BY QualityInitially, QualityKeeps, PTL DEF QualitySpec
<1>2. QED
  BY <1>1, QualityEnough, PTL

\* What the Collector answers holds: a record it called durable is found, in
\* the shard it looks into and with that payload, after starts with whatever
\* shard counts and crashes; a flush it answered with 200 has sealed
\* everything; and the bodies in memory stay within the budget (sharded.rs,
\* collector.rs, ingest.rs).
THEOREM CollectorKeepsItsWord == ShardSpec => [](AnswersHold /\ BodiesBounded)
<1>1. ShardSpec => []ShardInv
  BY ShardInitially, ShardKeeps, PTL DEF ShardSpec
<1>2. QED
  BY <1>1, ShardsEnough, PTL

\* The three together: where every capture, permit, counted error, operator,
\* connection and record is, in every state of the services.
THEOREM ServicesAreSound == ServicesSpec => []ServicesInv
<1>1. ServicesInit => ServicesInv
  BY BudgetInitially, QualityInitially, ShardInitially DEF ServicesInit, ServicesInv
<1>2. QED
  BY <1>1, ServicesKeep, PTL DEF ServicesSpec, servicesVars

\* No permit is lost or given twice by either budget, whatever is read, sent,
\* refused, cancelled or fails (relay.rs, deliver_many; ingest.rs).
THEOREM PermitsAreKept == ServicesSpec => []PermitsKept
<1>1. ServicesInv => PermitsKept
  BY BudgetEnough, ShardsEnough DEF ServicesInv, PermitsKept
<1>2. QED
  BY <1>1, ServicesAreSound, PTL
=============================================================================
