--------------------------- MODULE CoroutineProofs ---------------------------
(***************************************************************************)
(* What the histories of Coroutines are worth, for any number of slots and *)
(* keys: a key that no two coroutines ever held together has at most one   *)
(* coroutine at work on it, so that nobody else writes what that one read. *)
(* Then, for the components that add amounts up: sums over finite sets.    *)
(***************************************************************************)
EXTENDS Coroutines, FiniteSetsExt, FiniteSetTheorems, TLAPS

\* A coroutine in progress is about a key, a free slot about none.
Keyed ==
  /\ req = [s \in Slots |-> req[s]]
  /\ \A s \in Slots : Free(s) => req[s].key = None
  /\ \A s \in Slots : ~Free(s) => req[s].key \in Keys

SoleOwner ==
  \A s, t \in Slots : s # t /\ ~Free(s) /\ req[s].key = req[t].key =>
    req[s].key \in overlapped

CoroutinesInv == Keyed /\ SoleOwner

\* Slot s now holds r, and no other slot has changed.
Holds(s, r) == req'[s] = r /\ \A t \in Slots \ {s} : req'[t] = req[t]

LEMMA IdleIsFree == Idle.pc = "idle" /\ Idle.key = None
  BY DEF Idle

LEMMA InitiallyNobody == CoroutinesInit => CoroutinesInv
  BY IdleIsFree DEF CoroutinesInit, CoroutinesInv, Keyed, SoleOwner, Free, At

\* A coroutine that begins on a key and stays alone on it found nobody there.
LEMMA StartKeeps ==
  ASSUME CoroutinesInv, NEW s \in Slots, NEW r, Free(s), Start(s, r),
         r.pc # "idle", r.key \in Keys
  PROVE  /\ CoroutinesInv'
         /\ Holds(s, r)
         /\ dropped' = dropped
         /\ \A k : Alone(k)' => Alone(k)
         /\ Alone(r.key)' => Quiet(r.key)
  <1>1. /\ req' = [req EXCEPT ![s] = r]
        /\ dropped' = dropped
        /\ overlapped' = overlapped \cup {k \in {r.key} : \E t \in Slots \ {s} : req[t].key = k}
    BY DEF Start
  <1>2. Holds(s, r)
    BY <1>1 DEF Holds, CoroutinesInv, Keyed
  <1>3. Keyed'
    BY <1>1, <1>2 DEF Holds, CoroutinesInv, Keyed, Free, At
  <1>4. SoleOwner'
    <2> SUFFICES ASSUME NEW t \in Slots, NEW u \in Slots, t # u,
                        (~Free(t))', (req[t].key = req[u].key)'
                 PROVE  (req[t].key \in overlapped)'
      BY DEF SoleOwner
    <2>1. CASE t = s
      BY <2>1, <1>1, <1>2 DEF Holds
    <2>2. CASE u = s
      BY <2>2, <1>1, <1>2 DEF Holds
    <2>3. CASE t # s /\ u # s
      BY <2>3, <1>1, <1>2 DEF Holds, CoroutinesInv, SoleOwner, Free, At
    <2> QED
      BY <2>1, <2>2, <2>3
  <1>5. req[s].key # r.key
    BY KeyAssumption DEF CoroutinesInv, Keyed
  <1> QED
    BY <1>1, <1>2, <1>3, <1>4, <1>5 DEF CoroutinesInv, Alone, Quiet

\* A coroutine that goes on stays with its key.
LEMMA StepKeeps ==
  ASSUME CoroutinesInv, NEW s \in Slots, NEW r, ~Free(s),
         req' = [req EXCEPT ![s] = r], UNCHANGED overlapped,
         r.pc # "idle", r.key = req[s].key
  PROVE  /\ CoroutinesInv'
         /\ Holds(s, r)
         /\ \A k : Alone(k)' = Alone(k)
         /\ \A k : Quiet(k)' = Quiet(k)
  <1>1. Holds(s, r)
    BY DEF Holds, CoroutinesInv, Keyed
  <1>2. \A t \in Slots : req'[t].key = req[t].key /\ Free(t)' = Free(t)
    BY <1>1 DEF Holds, Free, At
  <1> QED
    BY <1>1, <1>2 DEF CoroutinesInv, Keyed, SoleOwner, Alone, Quiet

\* A coroutine that ends, or dies, leaves its key.
LEMMA EndKeeps ==
  ASSUME CoroutinesInv, NEW s \in Slots, ~Free(s),
         req' = [req EXCEPT ![s] = Idle], UNCHANGED overlapped
  PROVE  /\ CoroutinesInv'
         /\ Holds(s, Idle)
         /\ \A k : Alone(k)' = Alone(k)
         /\ \A k : k \in Keys /\ k # req[s].key => Quiet(k)' = Quiet(k)
         /\ \A k : k = req[s].key /\ Alone(k) => Quiet(k)'
  <1>1. Holds(s, Idle)
    BY DEF Holds, CoroutinesInv, Keyed
  <1>2. Keyed'
    BY <1>1, IdleIsFree DEF Holds, CoroutinesInv, Keyed, Free, At
  <1>3. SoleOwner'
    <2> SUFFICES ASSUME NEW t \in Slots, NEW u \in Slots, t # u,
                        (~Free(t))', (req[t].key = req[u].key)'
                 PROVE  (req[t].key \in overlapped)'
      BY DEF SoleOwner
    <2>1. t # s /\ req'[t] = req[t] /\ ~Free(t) /\ req[t].key \in Keys
      BY <1>1, IdleIsFree DEF Holds, Free, At, CoroutinesInv, Keyed
    <2>2. u # s
      BY <1>1, <2>1, IdleIsFree, KeyAssumption DEF Holds
    <2> QED
      BY <1>1, <2>1, <2>2 DEF Holds, CoroutinesInv, SoleOwner
  <1>4. \A k : k \in Keys /\ k # req[s].key => Quiet(k)' = Quiet(k)
    BY <1>1, IdleIsFree, KeyAssumption DEF Holds, Quiet
  <1>5. \A k : k = req[s].key /\ Alone(k) => Quiet(k)'
    <2> SUFFICES ASSUME NEW k, k = req[s].key, Alone(k), NEW t \in Slots
                 PROVE  req'[t].key # k
      BY DEF Quiet
    <2>1. k \in Keys
      BY DEF CoroutinesInv, Keyed
    <2>2. CASE t = s
      BY <1>1, <2>1, <2>2, IdleIsFree, KeyAssumption DEF Holds
    <2>3. CASE t # s
      BY <1>1, <2>3 DEF Holds, CoroutinesInv, SoleOwner, Alone
    <2> QED
      BY <2>2, <2>3
  <1> QED
    BY <1>1, <1>2, <1>3, <1>4, <1>5 DEF CoroutinesInv, Alone

\* Two coroutines that are alone on their keys have different ones.
LEMMA AloneIsSole ==
  ASSUME CoroutinesInv, NEW s \in Slots, NEW t \in Slots, s # t, ~Free(s), Alone(req[s].key)
  PROVE  req[t].key # req[s].key
  BY DEF CoroutinesInv, SoleOwner, Alone

-----------------------------------------------------------------------------
(* Sums over finite sets.  MapThenSumSet adds the summands up in an order   *)
(* that CHOOSE fixes; the lemmas say that the order does not matter.        *)

SumOver(g, S) == MapThenSumSet(LAMBDA x : g[x], S)

Pick(S) == CHOOSE x \in S : TRUE

Adding(g, h, S) == IF S = {} THEN 0 ELSE g[Pick(S)] + h[S \ {Pick(S)}]

\* h says, for every subset of S, what the sum of g over it is.
Sums(g, h, S) == h = [T \in SUBSET S |-> Adding(g, h, T)]

LEMMA SumIsChosen ==
  ASSUME NEW g, NEW S
  PROVE  SumOver(g, S) = (CHOOSE h : Sums(g, h, S))[S]
  BY Zenon DEF SumOver, Sums, Adding, Pick, MapThenSumSet, MapThenFoldSet

LEMMA PickIsElement == ASSUME NEW S, S # {} PROVE Pick(S) \in S
  BY DEF Pick

\* Of the subsets of a finite set with some property, one has no smaller one.
LEMMA SmallestSubset ==
  ASSUME NEW S, IsFiniteSet(S), NEW C, C \subseteq SUBSET S, C # {}
  PROVE  \E T \in C : \A U \in C : U \subseteq T => U = T
<1>1. IsWellFoundedOn(StrictSubsetOrdering(S), SUBSET S)
  BY FS_StrictSubsetOrderingWellFounded, FS_FiniteSubsetsOfFinite
<1>2. PICK T \in C : \A U \in C : ~ (<<U, T>> \in StrictSubsetOrdering(S))
  BY <1>1, WFMin, Zenon
<1>3. ASSUME NEW U \in C, U \subseteq T, U # T PROVE FALSE
  BY <1>2, <1>3 DEF StrictSubsetOrdering
<1> QED
  BY <1>3

LEMMA SumsIsUnique ==
  ASSUME NEW g, NEW S, IsFiniteSet(S), NEW h, NEW k, Sums(g, h, S), Sums(g, k, S)
  PROVE  h = k
<1> DEFINE C == {T \in SUBSET S : h[T] # k[T]}
<1>1. ASSUME C # {} PROVE FALSE
  <2>0. C \subseteq SUBSET S
    OBVIOUS
  <2>1. PICK T \in C : \A U \in C : U \subseteq T => U = T
    <3> HIDE DEF C
    <3> QED
      BY <1>1, <2>0, SmallestSubset
  <2>2. h[T] = Adding(g, h, T) /\ k[T] = Adding(g, k, T)
    BY DEF Sums
  <2>3. T # {}
    BY <2>2 DEF Adding
  <2>4. Pick(T) \in T
    BY <2>3, PickIsElement
  <2>5. T \ {Pick(T)} \subseteq T /\ T \ {Pick(T)} # T /\ T \ {Pick(T)} \in SUBSET S
    BY <2>4
  <2>6. h[T \ {Pick(T)}] = k[T \ {Pick(T)}]
    BY <2>1, <2>5
  <2> QED
    BY <2>2, <2>6 DEF Adding
<1>2. \A T \in SUBSET S : h[T] = k[T]
  BY <1>1
<1> QED
  BY <1>2 DEF Sums

LEMMA SumsRestricted ==
  ASSUME NEW g, NEW S, NEW h, Sums(g, h, S), NEW U, U \subseteq S
  PROVE  Sums(g, [T \in SUBSET U |-> h[T]], U)
<1> DEFINE k == [T \in SUBSET U |-> h[T]]
<1>1. ASSUME NEW T \in SUBSET U PROVE k[T] = Adding(g, k, T)
  <2>1. k[T] = Adding(g, h, T)
    BY DEF Sums
  <2>2. T # {} => k[T \ {Pick(T)}] = h[T \ {Pick(T)}]
    OBVIOUS
  <2> QED
    BY <2>1, <2>2 DEF Adding
<1>2. k = [T \in SUBSET U |-> Adding(g, k, T)]
  BY <1>1
<1> QED
  BY <1>2 DEF Sums

LEMMA ChosenSums ==
  ASSUME NEW g, NEW S, IsFiniteSet(S), NEW h, Sums(g, h, S)
  PROVE  \A T \in SUBSET S : SumOver(g, T) = h[T]
<1> SUFFICES ASSUME NEW T \in SUBSET S PROVE SumOver(g, T) = h[T]
  OBVIOUS
<1> DEFINE k == [U \in SUBSET T |-> h[U]]
           c == CHOOSE j : Sums(g, j, T)
<1>1. Sums(g, k, T)
  BY SumsRestricted
<1>2. Sums(g, c, T)
  BY <1>1, Zenon
<1>3. IsFiniteSet(T)
  BY FS_Subset
<1> HIDE DEF k, c
<1>4. c = k
  BY <1>1, <1>2, <1>3, SumsIsUnique
<1> QED
  BY <1>4, SumIsChosen DEF c, k

LEMMA SumsExists ==
  ASSUME NEW g, NEW S, IsFiniteSet(S)
  PROVE  \E h : Sums(g, h, S)
<1> DEFINE C == {T \in SUBSET S : ~ \E h : Sums(g, h, T)}
<1>1. ASSUME C # {} PROVE FALSE
  <2>0. C \subseteq SUBSET S
    OBVIOUS
  <2>1. PICK T \in C : \A U \in C : U \subseteq T => U = T
    <3> HIDE DEF C
    <3> QED
      BY <1>1, <2>0, SmallestSubset
  <2> DEFINE W(U) == IF U = {} THEN 0 ELSE g[Pick(U)] + SumOver(g, U \ {Pick(U)})
             k == [U \in SUBSET T |-> IF U = T THEN W(U) ELSE SumOver(g, U)]
  <2>2. ASSUME NEW U \in SUBSET T, U # T
        PROVE  SumOver(g, U) = W(U)
    <3>1. PICK h : Sums(g, h, U)
      BY <2>1, <2>2
    <3>2. IsFiniteSet(U)
      BY FS_Subset
    <3>3. \A V \in SUBSET U : SumOver(g, V) = h[V]
      BY <3>1, <3>2, ChosenSums
    <3>4. U \in SUBSET U /\ U \ {Pick(U)} \in SUBSET U
      OBVIOUS
    <3>5. h[U] = Adding(g, h, U)
      BY <3>1, <3>4 DEF Sums
    <3> QED
      BY <3>3, <3>4, <3>5 DEF Adding
  <2>3. ASSUME NEW U \in SUBSET T PROVE k[U] = Adding(g, k, U)
    <3>1. k[U] = W(U)
      BY <2>2
    <3>2. U # {} => U \ {Pick(U)} \in SUBSET T /\ U \ {Pick(U)} # T
      BY PickIsElement
    <3>3. U # {} => k[U \ {Pick(U)}] = SumOver(g, U \ {Pick(U)})
      BY <3>2
    <3> HIDE DEF k
    <3> QED
      BY <3>1, <3>3 DEF Adding
  <2>4. k = [U \in SUBSET T |-> Adding(g, k, U)]
    BY <2>3
  <2>5. Sums(g, k, T)
    BY <2>4 DEF Sums
  <2> QED
    BY <2>1, <2>5
<1>2. S \in SUBSET S /\ S \notin C
  BY <1>1
<1> QED
  BY <1>2

\* What MapThenSumSet computes, element by element.
LEMMA SumEquation ==
  ASSUME NEW g, NEW S, IsFiniteSet(S)
  PROVE  /\ SumOver(g, {}) = 0
         /\ S # {} => SumOver(g, S) = g[Pick(S)] + SumOver(g, S \ {Pick(S)})
<1>1. PICK h : Sums(g, h, S)
  BY SumsExists
<1>2. \A T \in SUBSET S : SumOver(g, T) = h[T]
  BY <1>1, ChosenSums
<1>3. {} \in SUBSET S /\ S \in SUBSET S /\ S \ {Pick(S)} \in SUBSET S
  OBVIOUS
<1>4. h[{}] = Adding(g, h, {}) /\ h[S] = Adding(g, h, S)
  BY <1>1, <1>3 DEF Sums
<1> QED
  BY <1>2, <1>3, <1>4 DEF Adding

LEMMA SumOfNone == ASSUME NEW g PROVE SumOver(g, {}) = 0
  BY FS_EmptySet, SumEquation

LEMMA SumIsInt ==
  ASSUME NEW g, NEW S, IsFiniteSet(S), \A x \in S : g[x] \in Int
  PROVE  \A T \in SUBSET S : SumOver(g, T) \in Int
<1> DEFINE C == {T \in SUBSET S : SumOver(g, T) \notin Int}
<1>1. ASSUME C # {} PROVE FALSE
  <2>1. C \subseteq SUBSET S
    OBVIOUS
  <2>2. PICK T \in C : \A U \in C : U \subseteq T => U = T
    <3> HIDE DEF C
    <3> QED
      BY <1>1, <2>1, SmallestSubset
  <2>3. IsFiniteSet(T)
    BY FS_Subset
  <2>4. T # {}
    BY SumOfNone
  <2>5. Pick(T) \in T
    BY <2>4, PickIsElement
  <2>6. SumOver(g, T \ {Pick(T)}) \in Int
    BY <2>2, <2>5
  <2> QED
    BY <2>3, <2>4, <2>5, <2>6, SumEquation
<1> QED
  BY <1>1

LEMMA SumIsNat ==
  ASSUME NEW g, NEW S, IsFiniteSet(S), \A x \in S : g[x] \in Nat
  PROVE  SumOver(g, S) \in Nat
<1> DEFINE C == {T \in SUBSET S : SumOver(g, T) \notin Nat}
<1>1. ASSUME C # {} PROVE FALSE
  <2>1. C \subseteq SUBSET S
    OBVIOUS
  <2>2. PICK T \in C : \A U \in C : U \subseteq T => U = T
    <3> HIDE DEF C
    <3> QED
      BY <1>1, <2>1, SmallestSubset
  <2>3. IsFiniteSet(T)
    BY FS_Subset
  <2>4. T # {}
    BY SumOfNone
  <2>5. Pick(T) \in T
    BY <2>4, PickIsElement
  <2>6. SumOver(g, T \ {Pick(T)}) \in Nat
    BY <2>2, <2>5
  <2> QED
    BY <2>3, <2>4, <2>5, <2>6, SumEquation
<1> QED
  BY <1>1

LEMMA SumOfZeros ==
  ASSUME NEW g, NEW S, IsFiniteSet(S), \A x \in S : g[x] = 0
  PROVE  \A T \in SUBSET S : SumOver(g, T) = 0
<1> DEFINE C == {T \in SUBSET S : SumOver(g, T) # 0}
<1>1. ASSUME C # {} PROVE FALSE
  <2>1. C \subseteq SUBSET S
    OBVIOUS
  <2>2. PICK T \in C : \A U \in C : U \subseteq T => U = T
    <3> HIDE DEF C
    <3> QED
      BY <1>1, <2>1, SmallestSubset
  <2>3. IsFiniteSet(T)
    BY FS_Subset
  <2>4. T # {}
    BY SumOfNone
  <2>5. Pick(T) \in T
    BY <2>4, PickIsElement
  <2>6. SumOver(g, T \ {Pick(T)}) = 0
    BY <2>2, <2>5
  <2> QED
    BY <2>3, <2>4, <2>5, <2>6, SumEquation
<1> QED
  BY <1>1

\* Equal summands, equal sums.
LEMMA SumCongruence ==
  ASSUME NEW f, NEW g, NEW S, IsFiniteSet(S), \A x \in S : f[x] = g[x]
  PROVE  SumOver(f, S) = SumOver(g, S)
<1> DEFINE C == {T \in SUBSET S : SumOver(f, T) # SumOver(g, T)}
<1>1. ASSUME C # {} PROVE FALSE
  <2>1. C \subseteq SUBSET S
    OBVIOUS
  <2>2. PICK T \in C : \A U \in C : U \subseteq T => U = T
    <3> HIDE DEF C
    <3> QED
      BY <1>1, <2>1, SmallestSubset
  <2>3. IsFiniteSet(T)
    BY FS_Subset
  <2>4. T # {}
    BY SumOfNone
  <2>5. Pick(T) \in T
    BY <2>4, PickIsElement
  <2>6. SumOver(f, T \ {Pick(T)}) = SumOver(g, T \ {Pick(T)})
    BY <2>2, <2>5
  <2> QED
    BY <2>3, <2>4, <2>5, <2>6, SumEquation
<1> QED
  BY <1>1

\* Any element may be taken out first.
LEMMA SumTakeOut ==
  ASSUME NEW g, NEW S, IsFiniteSet(S), \A x \in S : g[x] \in Int, NEW y \in S
  PROVE  SumOver(g, S) = g[y] + SumOver(g, S \ {y})
<1> DEFINE C == {T \in SUBSET S : \E x \in T : SumOver(g, T) # g[x] + SumOver(g, T \ {x})}
<1>1. ASSUME C # {} PROVE FALSE
  <2>1. C \subseteq SUBSET S
    OBVIOUS
  <2>2. PICK T \in C : \A U \in C : U \subseteq T => U = T
    <3> HIDE DEF C
    <3> QED
      BY <1>1, <2>1, SmallestSubset
  <2>3. PICK x \in T : SumOver(g, T) # g[x] + SumOver(g, T \ {x})
    OBVIOUS
  <2> DEFINE p == Pick(T)
  <2>4. IsFiniteSet(T) /\ p \in T
    BY FS_Subset, PickIsElement
  <2> HIDE DEF p
  <2>5. SumOver(g, T) = g[p] + SumOver(g, T \ {p})
    BY <2>4, SumEquation DEF p
  <2>6. x # p
    BY <2>3, <2>5
  <2>7. T \ {p} \notin C /\ T \ {x} \notin C
    BY <2>2, <2>4
  <2>8. SumOver(g, T \ {p}) = g[x] + SumOver(g, (T \ {p}) \ {x})
    BY <2>6, <2>7
  <2>9. SumOver(g, T \ {x}) = g[p] + SumOver(g, (T \ {x}) \ {p})
    BY <2>4, <2>6, <2>7
  <2>10. (T \ {p}) \ {x} = (T \ {x}) \ {p}
    OBVIOUS
  <2>11. SumOver(g, (T \ {p}) \ {x}) \in Int /\ g[x] \in Int /\ g[p] \in Int
    BY <2>4, SumIsInt
  <2> DEFINE rest == SumOver(g, (T \ {p}) \ {x})
             gx == g[x]
             gp == g[p]
  <2>12. SumOver(g, T) = gp + (gx + rest)
    BY <2>5, <2>8
  <2>13. gx + SumOver(g, T \ {x}) = gx + (gp + rest)
    BY <2>9, <2>10
  <2>14. gp + (gx + rest) = gx + (gp + rest)
    <3> HIDE DEF rest, gx, gp
    <3> QED
      BY <2>11 DEF rest, gx, gp
  <2> QED
    BY <2>3, <2>12, <2>13, <2>14
<1> QED
  BY <1>1

LEMMA SumPutIn ==
  ASSUME NEW g, NEW S, IsFiniteSet(S), NEW y, y \notin S, \A x \in S \cup {y} : g[x] \in Int
  PROVE  SumOver(g, S \cup {y}) = g[y] + SumOver(g, S)
<1>1. IsFiniteSet(S \cup {y})
  BY FS_AddElement
<1>2. (S \cup {y}) \ {y} = S
  OBVIOUS
<1> QED
  BY <1>1, <1>2, SumTakeOut

\* One summand changes.
LEMMA SumChange ==
  ASSUME NEW f, NEW g, NEW S, IsFiniteSet(S), NEW y \in S,
         \A x \in S : f[x] \in Int /\ g[x] \in Int,
         \A x \in S \ {y} : g[x] = f[x]
  PROVE  SumOver(g, S) = SumOver(f, S) + (g[y] - f[y])
<1>1. IsFiniteSet(S \ {y})
  BY FS_Subset
<1>2. SumOver(f, S) = f[y] + SumOver(f, S \ {y}) /\ SumOver(g, S) = g[y] + SumOver(g, S \ {y})
  BY SumTakeOut
<1>3. SumOver(f, S \ {y}) = SumOver(g, S \ {y})
  BY <1>1, SumCongruence
<1>4. SumOver(f, S \ {y}) \in Int
  BY SumIsInt
<1> QED
  BY <1>2, <1>3, <1>4

\* A set falls into two parts.
LEMMA SumOfParts ==
  ASSUME NEW g, NEW S, IsFiniteSet(S), NEW T, IsFiniteSet(T), S \cap T = {},
         \A x \in S \cup T : g[x] \in Int
  PROVE  SumOver(g, S \cup T) = SumOver(g, S) + SumOver(g, T)
<1> DEFINE C == {U \in SUBSET S : SumOver(g, U \cup T) # SumOver(g, U) + SumOver(g, T)}
<1>1. SumOver(g, T) \in Int
  BY SumIsInt
<1>2. ASSUME C # {} PROVE FALSE
  <2>1. C \subseteq SUBSET S
    OBVIOUS
  <2>2. PICK U \in C : \A V \in C : V \subseteq U => V = U
    <3> HIDE DEF C
    <3> QED
      BY <1>2, <2>1, SmallestSubset
  <2>3. IsFiniteSet(U) /\ IsFiniteSet(U \cup T)
    BY FS_Subset, FS_Union
  <2>4. CASE U = {}
    <3>1. U \cup T = T
      BY <2>4
    <3>2. SumOver(g, U) = 0
      BY <2>4, SumOfNone
    <3>3. SumOver(g, U \cup T) = 0 + SumOver(g, T)
      BY <3>1, <1>1
    <3> QED
      BY <3>2, <3>3
  <2>5. ASSUME NEW y \in U PROVE FALSE
    <3>1. U \ {y} \notin C
      BY <2>2
    <3>2. SumOver(g, (U \ {y}) \cup T) = SumOver(g, U \ {y}) + SumOver(g, T)
      BY <3>1
    <3>3. (U \ {y}) \cup T = (U \cup T) \ {y}
      OBVIOUS
    <3>4. SumOver(g, U) = g[y] + SumOver(g, U \ {y})
      BY <2>3, SumTakeOut
    <3>5. SumOver(g, U \cup T) = g[y] + SumOver(g, (U \cup T) \ {y})
      BY <2>3, SumTakeOut
    <3>6. SumOver(g, U \ {y}) \in Int /\ g[y] \in Int
      BY SumIsInt
    <3>7. SumOver(g, U \cup T) # SumOver(g, U) + SumOver(g, T)
      OBVIOUS
    <3> DEFINE a == SumOver(g, U \ {y})
               b == SumOver(g, T)
               gy == g[y]
    <3>8. SumOver(g, U \cup T) = gy + (a + b)
      BY <3>2, <3>3, <3>5
    <3>9. SumOver(g, U) + b = (gy + a) + b
      BY <3>4
    <3>10. gy + (a + b) = (gy + a) + b
      BY <3>6, <1>1
    <3> QED
      BY <3>7, <3>8, <3>9, <3>10
  <2> QED
    BY <2>4, <2>5
<1>3. S \notin C
  BY <1>2
<1> QED
  BY <1>3
=============================================================================
