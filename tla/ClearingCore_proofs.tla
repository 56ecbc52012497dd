------------------------- MODULE ClearingCore_proofs ------------------------
(***************************************************************************)
(* What the operators of the engine keep, for every price, amount and      *)
(* limit, whoever calls them: the market and the program's accounts both   *)
(* cite these lemmas.                                                      *)
(*                                                                         *)
(* A store.  The credited total is the sum of the buckets' credits, the    *)
(* in-flight total is exactly what the buckets have yet to replay, no      *)
(* operation loses or makes money, and none but a redemption takes from a  *)
(* bucket what it was promised.  Shares come in by a merge and leave by a  *)
(* redemption only, and who stays loses nothing by it.  What the entries   *)
(* from any event on still have to credit is no more than what they gave   *)
(* when they were written (Covered), so the store's own check never fails. *)
(*                                                                         *)
(* A sub-pool and its positions.  The generations are numbered without a   *)
(* gap and logged (Numbered), no position is ahead of them (Placed), the   *)
(* amounts are natural numbers and the stores sound (PoolSound), and what  *)
(* the positions hold adds up to what is on the books (Owned).  Each entry *)
(* point keeps all of that, and either clears, brings money in, pays a     *)
(* position out, or moves dust.                                            *)
(*                                                                         *)
(* Sums over buckets and replays of the ledger are folds, so the module    *)
(* starts from induction: a property is given as the set of the things     *)
(* that have it, and a least counterexample is found with WFMin.           *)
(***************************************************************************)
EXTENDS ClearingCore, FiniteSetTheorems, WellFoundedInduction, SequenceTheorems, TLAPS

(***************************************************************************)
(* Induction.  Its principle is stated with the set of the things that     *)
(* have the property, so that it can be cited like any other fact.         *)
(***************************************************************************)
LEMMA LeastNatural ==
  ASSUME NEW T, T \subseteq Nat, T # {}
  PROVE  \E x \in T : \A y \in T : x <= y
<1> DEFINE R == OpToRel(<, Nat)
<1>1. IsWellFoundedOn(R, Nat)
  BY NatLessThanWellFounded
<1>2. \A i, j \in Nat : i < j => <<i, j>> \in R
  BY DEF OpToRel
<1> HIDE DEF R
<1>3. PICK x \in T : \A y \in T : ~(<<y, x>> \in R)
  BY <1>1, WFMin
<1>4. \A y \in T : y \in Nat
  OBVIOUS
<1>5. \A y \in T : ~(y < x)
  BY <1>2, <1>3, <1>4
<1> QED
  BY <1>4, <1>5

LEMMA SmallestSet ==
  ASSUME NEW S, IsFiniteSet(S), NEW B, B \subseteq SUBSET S, B # {}
  PROVE  \E T \in B : \A U \in B : U \subseteq T => U = T
<1>1. IsWellFoundedOn(StrictSubsetOrdering(S), SUBSET S)
  BY FS_StrictSubsetOrderingWellFounded, FS_FiniteSubsetsOfFinite
<1>2. PICK T \in B : \A U \in B : ~(<<U, T>> \in StrictSubsetOrdering(S))
  BY <1>1, WFMin
<1> QED
  BY <1>2 DEF StrictSubsetOrdering

LEMMA NaturalInduction ==
  ASSUME NEW G, 0 \in G, \A n \in Nat : n \in G => n + 1 \in G
  PROVE  Nat \subseteq G
<1> SUFFICES ASSUME Nat \ G # {} PROVE FALSE
  OBVIOUS
<1>1. PICK n \in Nat \ G : \A m \in Nat \ G : n <= m
  BY LeastNatural
<1>2. n - 1 \in Nat
  BY <1>1
<1>3. n - 1 \in G
  BY <1>1, <1>2
<1> QED
  BY <1>1, <1>2, <1>3

LEMMA SetInduction ==
  ASSUME NEW S, IsFiniteSet(S), NEW G, {} \in G,
         \A T \in SUBSET S : \A x \in S \ T : T \in G => T \cup {x} \in G
  PROVE  S \in G
<1> SUFFICES ASSUME S \notin G PROVE FALSE
  OBVIOUS
<1> DEFINE B == {T \in SUBSET S : T \notin G}
<1>0. B \subseteq SUBSET S /\ B # {}
  OBVIOUS
<1>1. PICK T \in B : \A U \in B : U \subseteq T => U = T
  <2> HIDE DEF B
  <2> QED
    BY <1>0, SmallestSet
<1>2. PICK x \in T : TRUE
  BY <1>1
<1>3. T \ {x} \in G
  BY <1>1, <1>2
<1>4. (T \ {x}) \cup {x} \in G
  BY <1>1, <1>2, <1>3
<1>5. (T \ {x}) \cup {x} = T
  BY <1>2
<1> HIDE DEF B
<1>6. T \in G
  BY <1>4, <1>5
<1> QED
  BY <1>1, <1>6 DEF B

(* Places in a log, counted from its start and from that of its tail.      *)
LEMMA PlaceInTail ==
  ASSUME NEW off \in Nat, NEW drop \in Nat, NEW n \in Nat, NEW low, low = off + drop,
         NEW last \in Int, low <= last, last <= off + n, NEW i \in Int, 1 <= i, i <= off + n - last
  PROVE  last - low + i \in 1 .. n - drop /\ drop + (last - low + i) = last - off + i
OBVIOUS

LEMMA PlaceInLog ==
  ASSUME NEW off \in Nat, NEW n \in Nat, NEW next, next = off + n, NEW last \in off .. next
  PROVE  /\ next - last \in Nat /\ last - off + 1 \in Int /\ last - off + 1 <= n + 1
         /\ n + 1 \in Int /\ 1 <= last - off + 1 /\ n + 1 - (last - off + 1) = next - last
OBVIOUS

LEMMA PlaceOfIndex ==
  ASSUME NEW off \in Nat, NEW drop \in Nat, NEW n \in Nat, drop <= n, NEW low, low = off + drop,
         NEW next, next = off + n, NEW k \in low + 1 .. next
  PROVE  k - low \in 1 .. n - drop /\ drop + (k - low) = k - off
OBVIOUS

LEMMA PlaceMoved ==
  ASSUME NEW from \in Int, NEW i \in Int, NEW off \in Int
  PROVE  (from + i) - off = (from - off) + i
OBVIOUS

(***************************************************************************)
(* Folds.  A fold over S takes out of every subset the element `next`      *)
(* names and adds it to what was folded of the rest.                       *)
(***************************************************************************)
Chooses(next, S) == \A s \in SUBSET S : s # {} => next[s] \in s

IsFold(g, F, base, next, S) ==
  g = [s \in SUBSET S |->
         IF s = {} THEN base ELSE F[<<next[s], g[s \ {next[s]}]>>]]

Small(S, n) == {s \in SUBSET S : Cardinality(s) <= n}

IsFoldUpTo(g, F, base, next, S, n) ==
  g = [s \in Small(S, n) |->
         IF s = {} THEN base ELSE F[<<next[s], g[s \ {next[s]}]>>]]

LEMMA FoldGrows ==
  ASSUME NEW S, IsFiniteSet(S), NEW next, Chooses(next, S), NEW F, NEW base,
         NEW n \in Nat, NEW g, IsFoldUpTo(g, F, base, next, S, n)
  PROVE  \E h : IsFoldUpTo(h, F, base, next, S, n + 1)
<1> DEFINE h == [s \in Small(S, n + 1) |->
                   IF s = {} THEN base ELSE F[<<next[s], g[s \ {next[s]}]>>]]
<1>1. Small(S, n) \subseteq Small(S, n + 1)
  <2> SUFFICES ASSUME NEW s \in SUBSET S, Cardinality(s) <= n
               PROVE  Cardinality(s) <= n + 1
    BY DEF Small
  <2>1. Cardinality(s) \in Nat
    BY FS_Subset, FS_CardinalityType
  <2> QED
    BY <2>1
<1>2. \A s \in Small(S, n) : h[s] = g[s]
  BY <1>1 DEF IsFoldUpTo
<1>3. ASSUME NEW s \in Small(S, n + 1), s # {}
      PROVE  s \ {next[s]} \in Small(S, n)
  <2>1. next[s] \in s /\ IsFiniteSet(s) /\ s \in SUBSET S
    BY <1>3, FS_Subset DEF Chooses, Small
  <2>2. Cardinality(s \ {next[s]}) = Cardinality(s) - 1
    BY <2>1, FS_RemoveElement
  <2>3. Cardinality(s) \in Nat /\ Cardinality(s) <= n + 1
    BY <2>1, FS_CardinalityType DEF Small
  <2> QED
    BY <2>1, <2>2, <2>3 DEF Small
<1>4. h = [s \in Small(S, n + 1) |->
             IF s = {} THEN base ELSE F[<<next[s], h[s \ {next[s]}]>>]]
  BY <1>2, <1>3
<1> HIDE DEF h
<1> QED
  BY <1>4 DEF IsFoldUpTo

LEMMA FoldExists ==
  ASSUME NEW S, IsFiniteSet(S), NEW next, Chooses(next, S), NEW F, NEW base
  PROVE  \E g : IsFold(g, F, base, next, S)
<1> DEFINE G == {n \in Nat : \E g : IsFoldUpTo(g, F, base, next, S, n)}
<1>1. 0 \in G
  <2> DEFINE g == [s \in Small(S, 0) |-> base]
  <2>1. \A s \in Small(S, 0) : s = {}
      <3> SUFFICES ASSUME NEW s \in SUBSET S, Cardinality(s) <= 0 PROVE s = {}
      BY DEF Small
    <3>1. IsFiniteSet(s) /\ Cardinality(s) \in Nat
      BY FS_Subset, FS_CardinalityType
    <3> QED
      BY <3>1, FS_EmptySet
  <2>2. IsFoldUpTo(g, F, base, next, S, 0)
    BY <2>1 DEF IsFoldUpTo
  <2> QED
    BY <2>2
<1>2. \A n \in Nat : n \in G => n + 1 \in G
  BY FoldGrows
<1>3. Nat \subseteq G
  <2> HIDE DEF G
  <2> QED
    BY <1>1, <1>2, NaturalInduction
<1>4. Cardinality(S) \in Nat
  BY FS_CardinalityType
<1>5. Small(S, Cardinality(S)) = SUBSET S
  BY FS_Subset, FS_CardinalityType DEF Small
<1>6. PICK g : IsFoldUpTo(g, F, base, next, S, Cardinality(S))
  BY <1>3, <1>4
<1>7. IsFold(g, F, base, next, S)
  BY <1>5, <1>6 DEF IsFold, IsFoldUpTo
<1> QED
  BY <1>7

LEMMA FoldValue ==
  ASSUME NEW S, NEW next, NEW F, NEW base, NEW g, IsFold(g, F, base, next, S)
  PROVE  /\ g[{}] = base
         /\ \A s \in SUBSET S :
              s # {} => g[s] = F[<<next[s], g[s \ {next[s]}]>>]
BY DEF IsFold

LEMMA FoldUnique ==
  ASSUME NEW S, IsFiniteSet(S), NEW next, Chooses(next, S), NEW F, NEW base,
         NEW g, IsFold(g, F, base, next, S),
         NEW R, S \subseteq R, NEW h, IsFold(h, F, base, next, R)
  PROVE  \A s \in SUBSET S : g[s] = h[s]
<1> DEFINE B == {s \in SUBSET S : g[s] # h[s]}
<1> SUFFICES ASSUME B # {} PROVE FALSE
  OBVIOUS
<1>0. B \subseteq SUBSET S
  OBVIOUS
<1>1. PICK s \in B : \A u \in B : u \subseteq s => u = s
  <2> HIDE DEF B
  <2> QED
    BY <1>0, SmallestSet
<1>a. /\ g[{}] = base
      /\ \A u \in SUBSET S : u # {} => g[u] = F[<<next[u], g[u \ {next[u]}]>>]
  BY FoldValue
<1>b. /\ h[{}] = base
      /\ \A u \in SUBSET R : u # {} => h[u] = F[<<next[u], h[u \ {next[u]}]>>]
  BY FoldValue
<1>2. s # {}
  BY <1>1, <1>a, <1>b
<1>3. next[s] \in s /\ s \in SUBSET S
  BY <1>1, <1>2 DEF Chooses
<1>4. g[s \ {next[s]}] = h[s \ {next[s]}]
  BY <1>1, <1>3
<1>5. g[s] = h[s]
  BY <1>2, <1>3, <1>4, <1>a, <1>b
<1> QED
  BY <1>1, <1>5

LEMMA FoldType ==
  ASSUME NEW S, IsFiniteSet(S), NEW next, Chooses(next, S), NEW F, NEW base,
         NEW g, IsFold(g, F, base, next, S),
         NEW V, base \in V, \A x \in S, v \in V : F[<<x, v>>] \in V
  PROVE  \A s \in SUBSET S : g[s] \in V
<1> DEFINE B == {s \in SUBSET S : g[s] \notin V}
<1> SUFFICES ASSUME B # {} PROVE FALSE
  OBVIOUS
<1>0. B \subseteq SUBSET S
  OBVIOUS
<1>1. PICK s \in B : \A u \in B : u \subseteq s => u = s
  <2> HIDE DEF B
  <2> QED
    BY <1>0, SmallestSet
<1>a. /\ g[{}] = base
      /\ \A u \in SUBSET S : u # {} => g[u] = F[<<next[u], g[u \ {next[u]}]>>]
  BY FoldValue
<1>2. s # {}
  BY <1>1, <1>a
<1>3. next[s] \in s /\ s \in SUBSET S
  BY <1>1, <1>2 DEF Chooses
<1>4. g[s \ {next[s]}] \in V
  BY <1>1, <1>3
<1>5. g[s] \in V
  BY <1>2, <1>3, <1>4, <1>a
<1> QED
  BY <1>1, <1>5

(***************************************************************************)
(* Sums.  SumOver takes its terms in the order CHOOSE names them; what it  *)
(* returns does not depend on that order.                                  *)
(***************************************************************************)
Pick(s) == CHOOSE x \in s : TRUE

Picks(S) == [s \in SUBSET S |-> Pick(s)]

IsSum(g, f, S) ==
  g = [s \in SUBSET S |-> IF s = {} THEN 0 ELSE f[Pick(s)] + g[s \ {Pick(s)}]]

Adds(f, S, V) == [q \in S \X V |-> f[q[1]] + q[2]]

Amounts(f, S) == \A x \in S : f[x] \in Nat

LEMMA SumIsChosen ==
  ASSUME NEW f, NEW S PROVE SumOver(f, S) = (CHOOSE g : IsSum(g, f, S))[S]
BY DEF SumOver, SumFunctionOnSet, FoldFunctionOnSet, MapThenFoldSet, IsSum, Pick

LEMMA PicksChoose == ASSUME NEW R, NEW S, S \subseteq R PROVE Chooses(Picks(R), S)
BY DEF Chooses, Picks, Pick

(* A sum is a fold of the addition on any set with its values.             *)
LEMMA SumIsFold ==
  ASSUME NEW S, NEW R, S \subseteq R, NEW f, NEW V, NEW g, \A s \in SUBSET S : g[s] \in V
  PROVE  IsSum(g, f, S) <=> IsFold(g, Adds(f, R, V), 0, Picks(R), S)
<1>1. ASSUME NEW s \in SUBSET S, s # {}
      PROVE  Adds(f, R, V)[<<Picks(R)[s], g[s \ {Picks(R)[s]}]>>]
               = f[Pick(s)] + g[s \ {Pick(s)}]
  <2>1. Picks(R)[s] = Pick(s) /\ Pick(s) \in s
    BY <1>1 DEF Picks, Pick
  <2>2. g[s \ {Pick(s)}] \in V /\ Pick(s) \in R
    BY <2>1
  <2> QED
    BY <2>1, <2>2 DEF Adds
<1>2. [s \in SUBSET S |-> IF s = {} THEN 0 ELSE f[Pick(s)] + g[s \ {Pick(s)}]]
      = [s \in SUBSET S |->
           IF s = {} THEN 0
           ELSE Adds(f, R, V)[<<Picks(R)[s], g[s \ {Picks(R)[s]}]>>]]
  BY <1>1
<1> QED
  BY <1>2 DEF IsSum, IsFold

LEMMA AddsType ==
  ASSUME NEW S, NEW R, S \subseteq R, NEW f, Amounts(f, S), NEW V, Nat \subseteq V
  PROVE  \A x \in S, v \in Nat : Adds(f, R, V)[<<x, v>>] \in Nat
<1> SUFFICES ASSUME NEW x \in S, NEW v \in Nat PROVE Adds(f, R, V)[<<x, v>>] \in Nat
  OBVIOUS
<1>1. <<x, v>> \in R \X V
  OBVIOUS
<1>2. Adds(f, R, V)[<<x, v>>] = f[x] + v
  BY <1>1 DEF Adds
<1> QED
  BY <1>2 DEF Amounts

LEMMA SumType ==
  ASSUME NEW S, IsFiniteSet(S), NEW f, Amounts(f, S), NEW g, IsSum(g, f, S)
  PROVE  \A s \in SUBSET S : g[s] \in Nat
<1> DEFINE V == Nat \cup {g[s] : s \in SUBSET S}
<1>0. Nat \subseteq V /\ \A s \in SUBSET S : g[s] \in V
  OBVIOUS
<1> HIDE DEF V
<1>1. IsFold(g, Adds(f, S, V), 0, Picks(S), S)
  BY <1>0, SumIsFold
<1>2. Chooses(Picks(S), S)
  BY PicksChoose
<1>3. \A x \in S, v \in Nat : Adds(f, S, V)[<<x, v>>] \in Nat
  BY <1>0, AddsType
<1> QED
  BY <1>1, <1>2, <1>3, FoldType

LEMMA SumExists ==
  ASSUME NEW S, IsFiniteSet(S), NEW f, Amounts(f, S)
  PROVE  \E g : IsSum(g, f, S) /\ SumOver(f, S) = g[S]
<1>1. Chooses(Picks(S), S)
  BY PicksChoose
<1>2. PICK g : IsFold(g, Adds(f, S, Nat), 0, Picks(S), S)
  BY <1>1, FoldExists
<1>3. \A x \in S, v \in Nat : Adds(f, S, Nat)[<<x, v>>] \in Nat
  BY AddsType
<1>4. \A s \in SUBSET S : g[s] \in Nat
  BY <1>1, <1>2, <1>3, FoldType
<1>5. IsSum(g, f, S)
  BY <1>2, <1>4, SumIsFold
<1>6. IsSum(CHOOSE h : IsSum(h, f, S), f, S)
  BY <1>5
<1> QED
  BY <1>6, SumIsChosen

LEMMA SumAgrees ==
  ASSUME NEW R, IsFiniteSet(R), NEW f, Amounts(f, R), NEW h, IsSum(h, f, R),
         NEW S \in SUBSET R
  PROVE  SumOver(f, S) = h[S]
<1>1. IsFiniteSet(S) /\ Amounts(f, S)
  BY FS_Subset DEF Amounts
<1>2. PICK g : IsSum(g, f, S) /\ SumOver(f, S) = g[S]
  BY <1>1, SumExists
<1>3. IsFold(g, Adds(f, R, Nat), 0, Picks(R), S)
  BY <1>1, <1>2, SumType, SumIsFold
<1>4. IsFold(h, Adds(f, R, Nat), 0, Picks(R), R)
  BY SumType, SumIsFold
<1>5. Chooses(Picks(R), S)
  BY PicksChoose
<1>6. \A s \in SUBSET S : g[s] = h[s]
  BY <1>1, <1>3, <1>4, <1>5, FoldUnique
<1> QED
  BY <1>2, <1>6

(* The laws of SumOver.                                                    *)
LEMMA SumEmpty == ASSUME NEW f PROVE SumOver(f, {}) = 0
<1>1. IsFiniteSet({}) /\ Amounts(f, {})
  BY FS_EmptySet DEF Amounts
<1>2. PICK g : IsSum(g, f, {}) /\ SumOver(f, {}) = g[{}]
  BY <1>1, SumExists
<1> QED
  BY <1>2 DEF IsSum

LEMMA SumNat ==
  ASSUME NEW S, IsFiniteSet(S), NEW f, Amounts(f, S) PROVE SumOver(f, S) \in Nat
<1>1. PICK g : IsSum(g, f, S) /\ SumOver(f, S) = g[S]
  BY SumExists
<1> QED
  BY <1>1, SumType

LEMMA SumPick ==
  ASSUME NEW S, IsFiniteSet(S), S # {}, NEW f, Amounts(f, S)
  PROVE  Pick(S) \in S /\ SumOver(f, S) = f[Pick(S)] + SumOver(f, S \ {Pick(S)})
<1>1. PICK g : IsSum(g, f, S) /\ SumOver(f, S) = g[S]
  BY SumExists
<1>2. Pick(S) \in S
  BY DEF Pick
<1>3. SumOver(f, S \ {Pick(S)}) = g[S \ {Pick(S)}]
  BY <1>1, SumAgrees
<1> QED
  BY <1>1, <1>2, <1>3 DEF IsSum

LEMMA SumRemove ==
  ASSUME NEW S, IsFiniteSet(S), NEW f, Amounts(f, S), NEW x \in S
  PROVE  SumOver(f, S) = f[x] + SumOver(f, S \ {x})
<1> DEFINE Law(T, y) == SumOver(f, T) = f[y] + SumOver(f, T \ {y})
           B == {T \in SUBSET S : \E y \in T : ~Law(T, y)}
<1> SUFFICES ASSUME B # {} PROVE FALSE
  OBVIOUS
<1>0. B \subseteq SUBSET S
  OBVIOUS
<1>1. PICK T \in B : \A U \in B : U \subseteq T => U = T
  <2> HIDE DEF B
  <2> QED
    BY <1>0, SmallestSet
<1>a. PICK y \in T : ~Law(T, y)
  BY <1>1
<1> DEFINE c == Pick(T)
<1>2. IsFiniteSet(T) /\ Amounts(f, T) /\ T # {} /\ T \in SUBSET S
  BY <1>1, FS_Subset DEF Amounts
<1>3. c \in T /\ SumOver(f, T) = f[c] + SumOver(f, T \ {c})
  BY <1>2, SumPick
<1>4. c # y
  BY <1>a, <1>3
<1>5. \A u \in T : T \ {u} \notin B
  BY <1>1
<1>6. Law(T \ {c}, y) /\ Law(T \ {y}, c)
  BY <1>2, <1>3, <1>4, <1>5
<1>7. (T \ {y}) \ {c} = (T \ {c}) \ {y}
  OBVIOUS
<1>8. SumOver(f, (T \ {c}) \ {y}) \in Nat /\ f[c] \in Nat /\ f[y] \in Nat
  <2>1. IsFiniteSet((T \ {c}) \ {y})
    BY <1>2, FS_Subset
  <2> QED
    BY <1>2, <1>3, <2>1, SumNat DEF Amounts
<1>9. PICK a, b, n \in Nat :
        a = f[c] /\ b = f[y] /\ n = SumOver(f, (T \ {c}) \ {y})
  BY <1>8
<1>10. SumOver(f, T) = a + (b + n) /\ SumOver(f, T \ {y}) = a + n
  BY <1>3, <1>6, <1>7, <1>9
<1>11. SumOver(f, T) = f[y] + SumOver(f, T \ {y})
  BY <1>9, <1>10
<1> QED
  BY <1>a, <1>11

LEMMA SumAdd ==
  ASSUME NEW S, IsFiniteSet(S), NEW x, x \notin S, NEW f, Amounts(f, S \cup {x})
  PROVE  SumOver(f, S \cup {x}) = f[x] + SumOver(f, S)
<1>1. IsFiniteSet(S \cup {x})
  BY FS_AddElement
<1>2. (S \cup {x}) \ {x} = S
  OBVIOUS
<1> QED
  BY <1>1, <1>2, SumRemove

(* What is proved of a sum by adding its terms one by one.                 *)
LEMMA SumSame ==
  ASSUME NEW S, IsFiniteSet(S), NEW f, Amounts(f, S), NEW g, \A x \in S : g[x] = f[x]
  PROVE  SumOver(g, S) = SumOver(f, S)
<1> DEFINE G == {T \in SUBSET S : SumOver(g, T) = SumOver(f, T)}
<1>1. {} \in G
  BY SumEmpty
<1>2. ASSUME NEW T \in SUBSET S, NEW x \in S \ T, T \in G PROVE T \cup {x} \in G
  <2>1. IsFiniteSet(T) /\ Amounts(f, T \cup {x}) /\ Amounts(g, T \cup {x})
    BY FS_Subset DEF Amounts
  <2>2. /\ SumOver(f, T \cup {x}) = f[x] + SumOver(f, T)
        /\ SumOver(g, T \cup {x}) = g[x] + SumOver(g, T)
    BY <2>1, SumAdd
  <2> QED
    BY <1>2, <2>2
<1> HIDE DEF G
<1>3. S \in G
  BY <1>1, <1>2, SetInduction
<1> QED
  BY <1>3 DEF G

LEMMA SumPlus ==
  ASSUME NEW S, IsFiniteSet(S), NEW f, Amounts(f, S), NEW g, Amounts(g, S),
         NEW h, \A x \in S : h[x] = f[x] + g[x]
  PROVE  SumOver(h, S) = SumOver(f, S) + SumOver(g, S)
<1> DEFINE G == {T \in SUBSET S : SumOver(h, T) = SumOver(f, T) + SumOver(g, T)}
<1>1. {} \in G
  BY SumEmpty
<1>2. ASSUME NEW T \in SUBSET S, NEW x \in S \ T, T \in G PROVE T \cup {x} \in G
  <2>1. /\ IsFiniteSet(T) /\ Amounts(f, T \cup {x}) /\ Amounts(g, T \cup {x})
        /\ Amounts(h, T \cup {x})
    BY FS_Subset DEF Amounts
  <2>2. /\ SumOver(f, T \cup {x}) = f[x] + SumOver(f, T)
        /\ SumOver(g, T \cup {x}) = g[x] + SumOver(g, T)
        /\ SumOver(h, T \cup {x}) = h[x] + SumOver(h, T)
    BY <2>1, SumAdd
  <2>3. SumOver(f, T) \in Nat /\ SumOver(g, T) \in Nat /\ f[x] \in Nat /\ g[x] \in Nat
    <3>1. Amounts(f, T) /\ Amounts(g, T)
      BY DEF Amounts
    <3> QED
      BY <2>1, <3>1, SumNat DEF Amounts
  <2> QED
    BY <1>2, <2>2, <2>3
<1> HIDE DEF G
<1>3. S \in G
  BY <1>1, <1>2, SetInduction
<1> QED
  BY <1>3 DEF G

LEMMA SumZero ==
  ASSUME NEW S, IsFiniteSet(S), NEW f, \A x \in S : f[x] = 0
  PROVE  SumOver(f, S) = 0
<1> DEFINE G == {T \in SUBSET S : SumOver(f, T) = 0}
<1>1. {} \in G
  BY SumEmpty
<1>2. ASSUME NEW T \in SUBSET S, NEW x \in S \ T, T \in G PROVE T \cup {x} \in G
  <2>1. IsFiniteSet(T) /\ Amounts(f, T \cup {x})
    BY FS_Subset DEF Amounts
  <2>2. SumOver(f, T \cup {x}) = f[x] + SumOver(f, T)
    BY <2>1, SumAdd
  <2> QED
    BY <1>2, <2>2
<1> HIDE DEF G
<1>3. S \in G
  BY <1>1, <1>2, SetInduction
<1> QED
  BY <1>3 DEF G

LEMMA SumSplit ==
  ASSUME NEW S, IsFiniteSet(S), NEW f, Amounts(f, S), NEW R \in SUBSET S
  PROVE  SumOver(f, S) = SumOver(f, R) + SumOver(f, S \ R)
<1> DEFINE G == {T \in SUBSET R :
                   SumOver(f, (S \ R) \cup T) = SumOver(f, T) + SumOver(f, S \ R)}
<1>0. IsFiniteSet(R) /\ Amounts(f, R) /\ IsFiniteSet(S \ R) /\ Amounts(f, S \ R)
  BY FS_Subset DEF Amounts
<1>1. {} \in G
  <2>1. SumOver(f, S \ R) \in Nat
    BY <1>0, SumNat
  <2>2. (S \ R) \cup {} = S \ R
    OBVIOUS
  <2> QED
    BY <2>1, <2>2, SumEmpty
<1>2. ASSUME NEW T \in SUBSET R, NEW x \in R \ T, T \in G PROVE T \cup {x} \in G
  <2> DEFINE W == (S \ R) \cup T
  <2>1. IsFiniteSet(T) /\ IsFiniteSet(W) /\ x \notin W
    BY FS_Subset
  <2>2. Amounts(f, T \cup {x}) /\ Amounts(f, W \cup {x}) /\ Amounts(f, T)
    BY DEF Amounts
  <2>3. /\ SumOver(f, T \cup {x}) = f[x] + SumOver(f, T)
        /\ SumOver(f, W \cup {x}) = f[x] + SumOver(f, W)
    <3> HIDE DEF W
    <3> QED
      BY <2>1, <2>2, SumAdd
  <2>4. W \cup {x} = (S \ R) \cup (T \cup {x})
    OBVIOUS
  <2>5. SumOver(f, T) \in Nat /\ SumOver(f, S \ R) \in Nat /\ f[x] \in Nat
    BY <1>0, <2>1, <2>2, SumNat DEF Amounts
  <2>6. SumOver(f, W) = SumOver(f, T) + SumOver(f, S \ R)
    BY <1>2
  <2>7. SumOver(f, W \cup {x}) = SumOver(f, T \cup {x}) + SumOver(f, S \ R)
    <3> HIDE DEF W, G
    <3> QED
      BY <2>3, <2>5, <2>6
  <2> QED
    BY <2>4, <2>7
<1> HIDE DEF G
<1>3. R \in G
  BY <1>0, <1>1, <1>2, SetInduction
<1>4. (S \ R) \cup R = S
  OBVIOUS
<1> QED
  BY <1>3, <1>4 DEF G

LEMMA SumOfPart ==
  ASSUME NEW S, IsFiniteSet(S), NEW R \in SUBSET S, NEW f, Amounts(f, R),
         NEW g, \A x \in S : g[x] = IF x \in R THEN f[x] ELSE 0
  PROVE  Amounts(g, S) /\ SumOver(g, S) = SumOver(f, R) /\ SumOver(f, R) \in Nat
<1>1. Amounts(g, S) /\ IsFiniteSet(R) /\ IsFiniteSet(S \ R)
  BY FS_Subset DEF Amounts
<1>2. SumOver(g, R) = SumOver(f, R) /\ SumOver(f, R) \in Nat
  BY <1>1, SumSame, SumNat
<1>3. SumOver(g, S \ R) = 0
  BY <1>1, SumZero
<1>4. SumOver(g, S) = SumOver(g, R) + SumOver(g, S \ R)
  BY <1>1, SumSplit
<1> QED
  BY <1>1, <1>2, <1>3, <1>4

LEMMA SumMonotone ==
  ASSUME NEW S, IsFiniteSet(S), NEW f, Amounts(f, S), NEW g, Amounts(g, S),
         \A x \in S : f[x] <= g[x]
  PROVE  SumOver(f, S) <= SumOver(g, S)
<1> DEFINE h == [x \in S |-> g[x] - f[x]]
<1>1. Amounts(h, S) /\ \A x \in S : g[x] = h[x] + f[x]
  BY DEF Amounts
<1> HIDE DEF h
<1> QED
  BY <1>1, SumPlus, SumNat

(***************************************************************************)
(* Shares of an amount are floored, and a set of them never exceeds it.    *)
(***************************************************************************)
LEMMA FloorPart ==
  ASSUME NEW a \in Nat, NEW b \in Nat, NEW d \in Nat \ {0}
  PROVE  /\ MulDivFloor(a, b, d) \in Nat
         /\ MulDivFloor(a, b, d) * d <= a * b
         /\ b <= d => MulDivFloor(a, b, d) <= a
BY DEF MulDivFloor

LEMMA ShareBound ==
  ASSUME NEW alloc \in Nat, NEW owed \in Nat, NEW total \in Nat
  PROVE  /\ ShareOf(alloc, owed, total) \in Nat
         /\ ShareOf(alloc, owed, total) <= owed
         /\ ShareOf(alloc, owed, total) * total <= alloc * owed
         /\ total = 0 \/ owed = 0 => ShareOf(alloc, owed, total) = 0
<1> DEFINE q == MulDivFloor(alloc, owed, total)
           r == ShareOf(alloc, owed, total)
<1>1. CASE total = 0
  BY <1>1 DEF ShareOf
<1>2. CASE total # 0
  <2>1. q \in Nat /\ q * total <= alloc * owed
    BY <1>2, FloorPart
  <2>2. (r = q /\ q <= owed) \/ (r = owed /\ owed < q)
    <3>1. r = Smaller(q, owed)
      BY <1>2 DEF ShareOf
    <3> HIDE DEF q, r
    <3> QED
      BY <2>1, <3>1 DEF Smaller
  <2> HIDE DEF q, r
  <2>3. r \in Nat /\ r <= owed /\ r <= q
    BY <2>1, <2>2
  <2>4. r * total <= q * total /\ r * total \in Nat /\ q * total \in Nat
    BY <2>1, <2>3
  <2>5. r * total <= alloc * owed /\ (owed = 0 => r = 0)
    BY <2>1, <2>3, <2>4
  <2> QED
    BY <1>2, <2>3, <2>5 DEF r
<1> QED
  BY <1>1, <1>2

LEMMA SharesWithinAlloc ==
  ASSUME NEW S, IsFiniteSet(S), NEW owed, Amounts(owed, S), NEW alloc \in Nat,
         NEW share, \A x \in S : share[x] = ShareOf(alloc, owed[x], SumOver(owed, S))
  PROVE  Amounts(share, S) /\ SumOver(share, S) <= alloc
<1> DEFINE total == SumOver(owed, S)
           G == {T \in SUBSET S : SumOver(share, T) * total <= alloc * SumOver(owed, T)}
<1>1. total \in Nat
  BY SumNat
<1> HIDE DEF total
<1>2. Amounts(share, S)
  BY <1>1, ShareBound DEF Amounts, total
<1>3. {} \in G
  BY <1>1, SumEmpty
<1>4. ASSUME NEW T \in SUBSET S, NEW x \in S \ T, T \in G PROVE T \cup {x} \in G
  <2>1. /\ IsFiniteSet(T) /\ Amounts(share, T \cup {x}) /\ Amounts(owed, T \cup {x})
        /\ Amounts(share, T) /\ Amounts(owed, T)
    BY <1>2, FS_Subset DEF Amounts
  <2>2. PICK q, o, Q, O \in Nat :
          /\ q = share[x] /\ o = owed[x]
          /\ Q = SumOver(share, T) /\ O = SumOver(owed, T)
    BY <2>1, SumNat DEF Amounts
  <2>3. SumOver(share, T \cup {x}) = q + Q /\ SumOver(owed, T \cup {x}) = o + O
    BY <2>1, <2>2, SumAdd
  <2>4. q * total <= alloc * o
    BY <1>1, <2>2, ShareBound DEF total
  <2>5. Q * total <= alloc * O
    BY <1>4, <2>2
  <2>6. (q + Q) * total <= alloc * (o + O)
    BY <1>1, <2>4, <2>5
  <2> QED
    BY <2>3, <2>6
<1>5. S \in G
  <2> HIDE DEF G
  <2> QED
    BY <1>3, <1>4, SetInduction
<1>6. SumOver(share, S) * total <= alloc * total /\ SumOver(share, S) \in Nat
  BY <1>2, <1>5, SumNat DEF total
<1>7. CASE total = 0
  <2>1. \A x \in S : owed[x] \in Nat /\ share[x] = ShareOf(alloc, owed[x], total)
    BY DEF total, Amounts
  <2>2. \A x \in S : share[x] = 0
    BY <1>7, <2>1, ShareBound
  <2>3. SumOver(share, S) = 0
    BY <2>2, SumZero
  <2> QED
    BY <1>2, <2>3
<1>8. CASE total # 0
  BY <1>1, <1>2, <1>6, <1>8
<1> QED
  BY <1>7, <1>8

(***************************************************************************)
(* Floored parts of an amount, in proportion to holdings that make up the  *)
(* whole, never exceed it.                                                 *)
(***************************************************************************)
LEMMA PartsWithin ==
  ASSUME NEW S, IsFiniteSet(S), NEW w, Amounts(w, S), NEW amount \in Nat,
         NEW part, \A x \in S : part[x] = IF w[x] = 0 THEN 0
                                          ELSE MulDivFloor(amount, w[x], SumOver(w, S))
  PROVE  Amounts(part, S) /\ SumOver(part, S) <= amount
<1> DEFINE total == SumOver(w, S)
           G == {T \in SUBSET S : SumOver(part, T) * total <= amount * SumOver(w, T)}
<1>1. total \in Nat
  BY SumNat
<1> HIDE DEF total
<1>2. ASSUME NEW x \in S PROVE part[x] \in Nat /\ part[x] * total <= amount * w[x]
  <2>1. w[x] \in Nat /\ part[x] = IF w[x] = 0 THEN 0 ELSE MulDivFloor(amount, w[x], total)
    BY DEF Amounts, total
  <2>2. CASE w[x] = 0
    BY <1>1, <2>1, <2>2
  <2>3. CASE w[x] # 0
    <3>1. total # 0
      <4>1. IsFiniteSet(S \ {x}) /\ Amounts(w, S \ {x})
        BY FS_Subset DEF Amounts
      <4>2. total = w[x] + SumOver(w, S \ {x}) /\ SumOver(w, S \ {x}) \in Nat
        BY <4>1, SumRemove, SumNat DEF total
      <4> QED
        BY <2>1, <2>3, <4>2
    <3>2. PICK v \in Nat : v = w[x]
      BY <2>1
    <3>3. MulDivFloor(amount, v, total) \in Nat /\ MulDivFloor(amount, v, total) * total <= amount * v
      BY <1>1, <3>1, FloorPart
    <3> QED
      BY <2>1, <2>3, <3>2, <3>3
  <2> QED
    BY <2>2, <2>3
<1>3. Amounts(part, S)
  BY <1>2 DEF Amounts
<1>4. {} \in G
  BY <1>1, SumEmpty
<1>5. ASSUME NEW T \in SUBSET S, NEW x \in S \ T, T \in G PROVE T \cup {x} \in G
  <2>1. /\ IsFiniteSet(T) /\ Amounts(part, T \cup {x}) /\ Amounts(w, T \cup {x})
        /\ Amounts(part, T) /\ Amounts(w, T)
    BY <1>3, FS_Subset DEF Amounts
  <2>2. PICK q, o, Q, O \in Nat :
          /\ q = part[x] /\ o = w[x]
          /\ Q = SumOver(part, T) /\ O = SumOver(w, T)
    BY <2>1, SumNat DEF Amounts
  <2>3. SumOver(part, T \cup {x}) = q + Q /\ SumOver(w, T \cup {x}) = o + O
    BY <2>1, <2>2, SumAdd
  <2>4. q * total <= amount * o
    BY <1>2, <2>2
  <2>5. Q * total <= amount * O
    BY <1>5, <2>2
  <2>6. (q + Q) * total <= amount * (o + O)
    BY <1>1, <2>4, <2>5
  <2> QED
    BY <2>3, <2>6
<1>6. S \in G
  <2> HIDE DEF G
  <2> QED
    BY <1>4, <1>5, SetInduction
<1>7. SumOver(part, S) * total <= amount * total /\ SumOver(part, S) \in Nat
  BY <1>3, <1>6, SumNat DEF total
<1>8. CASE total = 0
  <2>1. \A x \in S : w[x] = 0
    <3> TAKE x \in S
    <3>1. IsFiniteSet(S \ {x}) /\ Amounts(w, S \ {x}) /\ w[x] \in Nat
      BY FS_Subset DEF Amounts
    <3>2. total = w[x] + SumOver(w, S \ {x}) /\ SumOver(w, S \ {x}) \in Nat
      BY <3>1, SumRemove, SumNat DEF total
    <3> QED
      BY <1>8, <3>1, <3>2
  <2>2. \A x \in S : part[x] = 0
    BY <2>1
  <2>3. SumOver(part, S) = 0
    BY <2>2, SumZero
  <2> QED
    BY <1>3, <2>3
<1>9. CASE total # 0
  BY <1>1, <1>3, <1>7, <1>9
<1> QED
  BY <1>8, <1>9

(* A sum of sums, bounded column by column.                                *)
LEMMA SumOfSumsWithin ==
  ASSUME NEW S, IsFiniteSet(S), NEW R, IsFiniteSet(R),
         NEW f, \A i \in S, t \in R : f[<<i, t>>] \in Nat,
         NEW bound, Amounts(bound, R),
         \A t \in R : SumOver([i \in S |-> f[<<i, t>>]], S) <= bound[t],
         NEW row, \A i \in S : row[i] = SumOver([t \in R |-> f[<<i, t>>]], R)
  PROVE  Amounts(row, S) /\ SumOver(row, S) <= SumOver(bound, R)
<1> DEFINE Row(i) == [t \in R |-> f[<<i, t>>]]
           Col(t) == [i \in S |-> f[<<i, t>>]]
           Part(T) == [i \in S |-> SumOver(Row(i), T)]
           G == {T \in SUBSET R : SumOver(Part(T), S) <= SumOver(bound, T)}
<1>1. \A i \in S, t \in R : Row(i)[t] = f[<<i, t>>] /\ Col(t)[i] = f[<<i, t>>]
  OBVIOUS
<1>2. /\ \A i \in S : Amounts(Row(i), R)
      /\ \A t \in R : Amounts(Col(t), S) /\ SumOver(Col(t), S) <= bound[t]
  BY DEF Amounts
<1> HIDE DEF Row, Col
<1>3. ASSUME NEW T \in SUBSET R
      PROVE  /\ IsFiniteSet(T) /\ Amounts(bound, T) /\ SumOver(bound, T) \in Nat
             /\ \A i \in S : Amounts(Row(i), T) /\ Part(T)[i] = SumOver(Row(i), T)
             /\ Amounts(Part(T), S) /\ SumOver(Part(T), S) \in Nat
  <2>1. IsFiniteSet(T) /\ Amounts(bound, T) /\ \A i \in S : Amounts(Row(i), T)
    BY <1>2, FS_Subset DEF Amounts
  <2>2. \A i \in S : SumOver(Row(i), T) \in Nat
    BY <2>1, SumNat
  <2>3. Amounts(Part(T), S) /\ \A i \in S : Part(T)[i] = SumOver(Row(i), T)
    BY <2>2 DEF Amounts
  <2> HIDE DEF Part
  <2> QED
    BY <2>1, <2>3, SumNat
<1>4. {} \in G
  <2>1. \A i \in S : Part({})[i] = 0
    BY SumEmpty
  <2>2. SumOver(Part({}), S) = 0 /\ SumOver(bound, {}) = 0
    <3> HIDE DEF Part
    <3> QED
      BY <2>1, SumZero, SumEmpty
  <2> QED
    BY <2>2
<1>5. ASSUME NEW T \in SUBSET R, NEW t \in R \ T, T \in G PROVE T \cup {t} \in G
  <2> DEFINE U == T \cup {t}
  <2>1. U \in SUBSET R
    OBVIOUS
  <2>2. ASSUME NEW i \in S PROVE Part(U)[i] = Col(t)[i] + Part(T)[i]
    <3>1. SumOver(Row(i), U) = Row(i)[t] + SumOver(Row(i), T)
      BY <1>3, <2>1, SumAdd
    <3> QED
      BY <1>1, <3>1
  <2>3. SumOver(Part(U), S) = SumOver(Col(t), S) + SumOver(Part(T), S)
    <3>1. Amounts(Col(t), S) /\ Amounts(Part(T), S)
      BY <1>2, <1>3
    <3> HIDE DEF Part, U
    <3> QED
      BY <2>2, <3>1, SumPlus
  <2>4. SumOver(bound, U) = bound[t] + SumOver(bound, T)
    BY <1>3, <2>1, SumAdd
  <2> HIDE DEF Part, U
  <2>5. PICK a, b, c, e \in Nat : /\ a = SumOver(Col(t), S) /\ b = SumOver(Part(T), S)
                                  /\ c = bound[t] /\ e = SumOver(bound, T)
    BY <1>2, <1>3, SumNat DEF Amounts
  <2>6. a <= c /\ b <= e
    BY <1>2, <1>5, <2>5
  <2>7. a + b <= c + e
    BY <2>6
  <2> QED
    BY <2>1, <2>3, <2>4, <2>5, <2>7 DEF U
<1>6. R \in G
  <2> HIDE DEF G
  <2> QED
    BY <1>4, <1>5, SetInduction
<1>7. \A i \in S : row[i] = Part(R)[i]
  BY DEF Row
<1>8. Amounts(Part(R), S)
  BY <1>3
<1> HIDE DEF Part
<1>9. SumOver(row, S) = SumOver(Part(R), S) /\ Amounts(row, S)
  BY <1>7, <1>8, SumSame DEF Amounts
<1> QED
  BY <1>6, <1>9

(***************************************************************************)
(* Replaying a ledger.                                                     *)
(***************************************************************************)
Bucket == [anchor : Nat, shares : Nat, notional : Nat, accrued : Nat, lastApplied : Nat]

Entry == [price : Nat, outstanding : Nat, alloc : Nat, observed : Nat]

(* What bucket b of side d has once it has replayed the entries of log.    *)
Replay(d, b, log) ==
  FoldLeft(LAMBDA accrued, e : accrued + EntryShare(d, b, accrued, e), b.accrued, log)

LEMMA ReplayedIsReplay ==
  ASSUME NEW st, NEW b PROVE Replayed(st, b) = Replay(st.dir, b, Unapplied(st, b))
BY DEF Replayed, Replay

LEMMA ClaimNat ==
  ASSUME NEW d, NEW b \in Bucket, NEW p \in Nat
  PROVE  /\ IntrinsicClaim(d, b, p) \in Nat
         /\ OutstandingClaim(d, b, p) \in Nat
         /\ ~Activated(d, b.anchor, p) => OutstandingClaim(d, b, p) = 0
<1>1. Distance(p, b.anchor) \in Nat /\ b.notional \in Nat /\ b.anchor \in Nat /\ b.accrued \in Nat
  BY DEF Bucket, Distance
<1>2. IntrinsicClaim(d, b, p) \in Nat
  BY <1>1, FloorPart DEF IntrinsicClaim
<1> QED
  BY <1>1, <1>2 DEF OutstandingClaim, Monus, IntrinsicClaim

LEMMA EntryShareNat ==
  ASSUME NEW d, NEW b \in Bucket, NEW v \in Nat, NEW e \in Entry
  PROVE  /\ EntryShare(d, b, v, e) \in Nat
         /\ ~Activated(d, b.anchor, e.price) => EntryShare(d, b, v, e) = 0
<1> DEFINE owed == Monus(IntrinsicClaim(d, b, e.price), v)
<1>1. e.price \in Nat /\ e.alloc \in Nat /\ e.outstanding \in Nat
  BY DEF Entry
<1>2. IntrinsicClaim(d, b, e.price) \in Nat
  BY <1>1, ClaimNat
<1>3. owed \in Nat
  BY <1>2 DEF Monus
<1>4. ~Activated(d, b.anchor, e.price) => owed = 0
  BY <1>2 DEF Monus, IntrinsicClaim
<1> HIDE DEF owed
<1>5. EntryShare(d, b, v, e) = ShareOf(e.alloc, owed, e.outstanding)
  BY DEF EntryShare, owed
<1>6. ShareOf(e.alloc, owed, e.outstanding) \in Nat
      /\ (owed = 0 => ShareOf(e.alloc, owed, e.outstanding) = 0)
  BY <1>1, <1>3, ShareBound
<1> QED
  BY <1>4, <1>5, <1>6

IsReplay(g, d, b, log, S) ==
  g = [s \in SUBSET S |->
         IF s = {} THEN b.accrued
         ELSE g[s \ {Max(s)}] + EntryShare(d, b, g[s \ {Max(s)}], log[Max(s)])]

LEMMA ReplayIsChosen ==
  ASSUME NEW d, NEW b, NEW log
  PROVE  Replay(d, b, log) = (CHOOSE g : IsReplay(g, d, b, log, DOMAIN log))[DOMAIN log]
BY DEF Replay, FoldLeft, MapThenFoldSet, IsReplay

Latest(S) == [s \in SUBSET S |-> Max(s)]

Credits(d, b, log, S, V) == [q \in S \X V |-> q[2] + EntryShare(d, b, q[2], log[q[1]])]

LEMMA LatestChooses ==
  ASSUME NEW n \in Nat, NEW R, NEW S, S \subseteq 1 .. n, S \subseteq R
  PROVE  Chooses(Latest(R), S)
<1> SUFFICES ASSUME NEW s \in SUBSET S, s # {} PROVE Latest(R)[s] \in s
  BY DEF Chooses
<1> DEFINE T == {n - x : x \in s}
<1>0. \A x \in s : x \in Nat /\ n - x \in Nat
  <2> SUFFICES ASSUME NEW x \in s PROVE x \in Nat /\ n - x \in Nat
    OBVIOUS
  <2>1. x \in 1 .. n
    OBVIOUS
  <2> QED
    BY <2>1
<1>1. T \subseteq Nat /\ T # {}
  BY <1>0
<1>2. PICK y \in T : \A z \in T : y <= z
  <2> HIDE DEF T
  <2> QED
    BY <1>1, LeastNatural
<1>3. PICK x \in s : y = n - x
  BY <1>2
<1>4. \A z \in s : x >= z
  <2> SUFFICES ASSUME NEW z \in s PROVE x >= z
    OBVIOUS
  <2>1. n - x <= n - z /\ x \in Nat /\ z \in Nat
    BY <1>2, <1>3
  <2> QED
    BY <2>1
<1> QED
  BY <1>4 DEF Latest, Max

(* A replay is a fold of the credits of the entries, in any set with its   *)
(* values and for any log that has the same entries.                       *)
LEMMA ReplayIsFold ==
  ASSUME NEW n \in Nat, NEW R, NEW S, S \subseteq 1 .. n, S \subseteq R,
         NEW d, NEW b, NEW log, NEW other, \A i \in S : other[i] = log[i],
         NEW V, NEW g, \A s \in SUBSET S : g[s] \in V
  PROVE  IsReplay(g, d, b, log, S)
           <=> IsFold(g, Credits(d, b, other, R, V), b.accrued, Latest(R), S)
<1>1. ASSUME NEW s \in SUBSET S, s # {}
      PROVE  Credits(d, b, other, R, V)[<<Latest(R)[s], g[s \ {Latest(R)[s]}]>>]
               = g[s \ {Max(s)}] + EntryShare(d, b, g[s \ {Max(s)}], log[Max(s)])
  <2>1. Latest(R)[s] \in s
    BY <1>1, LatestChooses DEF Chooses
  <2>2. Latest(R)[s] = Max(s)
    BY DEF Latest
  <2>3. g[s \ {Max(s)}] \in V /\ Max(s) \in R /\ other[Max(s)] = log[Max(s)]
    BY <2>1, <2>2
  <2> QED
    BY <2>2, <2>3 DEF Credits
<1>2. [s \in SUBSET S |->
         IF s = {} THEN b.accrued
         ELSE g[s \ {Max(s)}] + EntryShare(d, b, g[s \ {Max(s)}], log[Max(s)])]
      = [s \in SUBSET S |->
           IF s = {} THEN b.accrued
           ELSE Credits(d, b, other, R, V)[<<Latest(R)[s], g[s \ {Latest(R)[s]}]>>]]
  BY <1>1
<1> QED
  BY <1>2 DEF IsReplay, IsFold

AtLeast(v) == {u \in Nat : v <= u}

LEMMA CreditsType ==
  ASSUME NEW R, NEW d, NEW b \in Bucket, NEW log, \A i \in R : log[i] \in Entry,
         NEW V, AtLeast(b.accrued) \subseteq V
  PROVE  \A i \in R, v \in AtLeast(b.accrued) :
           Credits(d, b, log, R, V)[<<i, v>>] \in AtLeast(b.accrued)
<1> SUFFICES ASSUME NEW i \in R, NEW v \in AtLeast(b.accrued)
             PROVE  Credits(d, b, log, R, V)[<<i, v>>] \in AtLeast(b.accrued)
  OBVIOUS
<1>1. <<i, v>> \in R \X V
  OBVIOUS
<1>2. Credits(d, b, log, R, V)[<<i, v>>] = v + EntryShare(d, b, v, log[i])
  BY <1>1 DEF Credits
<1>3. EntryShare(d, b, v, log[i]) \in Nat /\ v \in Nat /\ b.accrued <= v /\ b.accrued \in Nat
  BY EntryShareNat DEF AtLeast, Bucket
<1> QED
  BY <1>2, <1>3 DEF AtLeast

LEMMA AccruedReached == ASSUME NEW b \in Bucket PROVE b.accrued \in AtLeast(b.accrued)
BY DEF Bucket, AtLeast

LEMMA ReplayType ==
  ASSUME NEW n \in Nat, NEW d, NEW b \in Bucket, NEW log, \A i \in 1 .. n : log[i] \in Entry,
         NEW g, IsReplay(g, d, b, log, 1 .. n)
  PROVE  \A s \in SUBSET (1 .. n) : g[s] \in AtLeast(b.accrued)
<1> DEFINE S == 1 .. n
           V == AtLeast(b.accrued) \cup {g[s] : s \in SUBSET S}
<1>0. AtLeast(b.accrued) \subseteq V /\ \A s \in SUBSET S : g[s] \in V
  OBVIOUS
<1>a. IsFiniteSet(S) /\ \A i \in S : log[i] \in Entry
  BY FS_Interval
<1>b. Chooses(Latest(S), S)
  BY LatestChooses
<1> HIDE DEF V
<1>1. IsFold(g, Credits(d, b, log, S, V), b.accrued, Latest(S), S)
  BY <1>0, ReplayIsFold
<1>3. \A i \in S, v \in AtLeast(b.accrued) :
        Credits(d, b, log, S, V)[<<i, v>>] \in AtLeast(b.accrued)
  BY <1>0, <1>a, CreditsType
<1> HIDE DEF S
<1>4. \A s \in SUBSET S : g[s] \in AtLeast(b.accrued)
  BY <1>1, <1>a, <1>b, <1>3, FoldType, AccruedReached
<1> QED
  BY <1>4 DEF S

LEMMA ReplayExists ==
  ASSUME NEW d, NEW b \in Bucket, NEW log \in Seq(Entry)
  PROVE  \E g : IsReplay(g, d, b, log, 1 .. Len(log)) /\ Replay(d, b, log) = g[1 .. Len(log)]
<1> DEFINE S == 1 .. Len(log)
           V == AtLeast(b.accrued)
<1>a. /\ Len(log) \in Nat /\ DOMAIN log = S /\ IsFiniteSet(S)
      /\ \A i \in S : log[i] \in Entry
  BY FS_Interval
<1>b. Chooses(Latest(S), S)
  BY <1>a, LatestChooses
<1>3. \A i \in S, v \in V : Credits(d, b, log, S, V)[<<i, v>>] \in V
  <2> HIDE DEF S
  <2> QED
    BY <1>a, CreditsType
<1>2. PICK g : IsFold(g, Credits(d, b, log, S, V), b.accrued, Latest(S), S)
  <2> HIDE DEF S, V
  <2> QED
    BY <1>a, <1>b, FoldExists
<1>4. \A s \in SUBSET S : g[s] \in V
  <2> HIDE DEF S, V
  <2> QED
    BY <1>a, <1>b, <1>2, <1>3, FoldType, AccruedReached DEF V
<1>5. IsReplay(g, d, b, log, S)
  BY <1>a, <1>2, <1>4, ReplayIsFold
<1>6. IsReplay(CHOOSE h : IsReplay(h, d, b, log, S), d, b, log, S)
  BY <1>5
<1> QED
  BY <1>a, <1>6, ReplayIsChosen

(* The laws of a replay.                                                   *)
LEMMA ReplayNone ==
  ASSUME NEW d, NEW b \in Bucket PROVE Replay(d, b, <<>>) = b.accrued
<1>1. <<>> \in Seq(Entry) /\ 1 .. Len(<<>>) = {}
  OBVIOUS
<1>2. PICK g : IsReplay(g, d, b, <<>>, 1 .. Len(<<>>)) /\ Replay(d, b, <<>>) = g[1 .. Len(<<>>)]
  BY <1>1, ReplayExists
<1>3. IsReplay(g, d, b, <<>>, {}) /\ Replay(d, b, <<>>) = g[{}]
  BY <1>1, <1>2
<1> QED
  BY <1>3 DEF IsReplay

LEMMA ReplayGrows ==
  ASSUME NEW d, NEW b \in Bucket, NEW log \in Seq(Entry)
  PROVE  Replay(d, b, log) \in Nat /\ b.accrued <= Replay(d, b, log)
<1>1. PICK g : IsReplay(g, d, b, log, 1 .. Len(log)) /\ Replay(d, b, log) = g[1 .. Len(log)]
  BY ReplayExists
<1>2. Len(log) \in Nat /\ \A i \in 1 .. Len(log) : log[i] \in Entry
  OBVIOUS
<1>3. g[1 .. Len(log)] \in AtLeast(b.accrued)
  BY <1>1, <1>2, ReplayType
<1> QED
  BY <1>1, <1>3 DEF AtLeast

LEMMA ReplayAppend ==
  ASSUME NEW d, NEW b \in Bucket, NEW log \in Seq(Entry), NEW e \in Entry
  PROVE  Replay(d, b, Append(log, e))
           = Replay(d, b, log) + EntryShare(d, b, Replay(d, b, log), e)
<1> DEFINE n == Len(log)
           S == 1 .. n
           m == n + 1
           R == 1 .. m
           more == Append(log, e)
           V == AtLeast(b.accrued)
<1>1. n \in Nat /\ more \in Seq(Entry) /\ Len(more) = m /\ m \in Nat /\ m = n + 1
  OBVIOUS
<1>2. /\ \A i \in S : more[i] = log[i] /\ log[i] \in Entry
      /\ \A i \in R : more[i] \in Entry
      /\ more[m] = e
  OBVIOUS
<1> HIDE DEF n, m, more
<1>3. PICK g : IsReplay(g, d, b, log, S) /\ Replay(d, b, log) = g[S]
  BY ReplayExists DEF n
<1>4. PICK h : IsReplay(h, d, b, more, R) /\ Replay(d, b, more) = h[R]
  BY <1>1, ReplayExists
<1>5. IsFiniteSet(S) /\ S \subseteq R
  BY <1>1, FS_Interval
<1>6. Chooses(Latest(R), S)
  BY <1>1, <1>5, LatestChooses
<1>7. IsFold(g, Credits(d, b, more, R, V), b.accrued, Latest(R), S)
  <2>1. \A s \in SUBSET S : g[s] \in V
    BY <1>1, <1>2, <1>3, ReplayType
  <2> QED
    BY <1>1, <1>2, <1>3, <1>5, <2>1, ReplayIsFold
<1>8. IsFold(h, Credits(d, b, more, R, V), b.accrued, Latest(R), R)
  <2>1. \A s \in SUBSET R : h[s] \in V
    BY <1>1, <1>2, <1>4, ReplayType
  <2> QED
    BY <1>1, <1>2, <1>4, <2>1, ReplayIsFold
<1>9. g[S] = h[S]
  <2> HIDE DEF S, R, V
  <2> QED
    BY <1>5, <1>6, <1>7, <1>8, FoldUnique
<1>10. Max(R) = m /\ R \ {Max(R)} = S /\ R # {}
  <2>1. m \in R /\ \A z \in R : m >= z
    BY <1>1
  <2>2. \A x \in R : (\A z \in R : x >= z) => x = m
    BY <1>1, <2>1
  <2>3. Max(R) = m
    BY <2>1, <2>2 DEF Max
  <2>4. R \ {m} = S
    BY <1>1
  <2> HIDE DEF R, S
  <2> QED
    BY <2>1, <2>3, <2>4
<1>11. h[R] = h[S] + EntryShare(d, b, h[S], more[m])
  <2> HIDE DEF R, S
  <2> QED
    BY <1>4, <1>10 DEF IsReplay
<1> QED
  BY <1>2, <1>3, <1>4, <1>9, <1>11 DEF more

-----------------------------------------------------------------------------
(***************************************************************************)
(* Stores.  StoreSound is what every operation preserves: the fields have  *)
(* their types, no bucket points outside the ledger, accruedTotal is what  *)
(* the buckets were credited with, and pending is exactly what they have   *)
(* yet to replay.                                                          *)
(***************************************************************************)
StoreFields == {"dir", "bucket", "ledger", "gcOffset", "accruedTotal", "pending"}

StoreTyped(st) ==
  /\ st = [f \in StoreFields |-> st[f]]
  /\ st.dir \in Direction
  /\ st.bucket = [t \in Ticks(st) |-> st.bucket[t]]
  /\ Ticks(st) \subseteq Nat /\ IsFiniteSet(Ticks(st))
  /\ \A t \in Ticks(st) : st.bucket[t] \in Bucket
  /\ st.ledger \in Seq(Entry)
  /\ st.gcOffset \in Nat /\ st.accruedTotal \in Nat /\ st.pending \in Nat

Within(st) == \A t \in Ticks(st) : st.bucket[t].lastApplied \in st.gcOffset .. NextEventIndex(st)

Credit(st) == [t \in Ticks(st) |-> st.bucket[t].accrued]

Due(st) == [t \in Ticks(st) |-> PendingForBucket(st, t)]

StoreSound(st) ==
  /\ StoreTyped(st)
  /\ Within(st)
  /\ st.accruedTotal = SumOver(Credit(st), Ticks(st))
  /\ st.pending = SumOver(Due(st), Ticks(st))

StoreMoney(st) == st.accruedTotal + st.pending

(* What bucket t has been credited with plus what it will be.  Nothing but *)
(* a redemption takes from it.                                             *)
Promised(st, t) == Replayed(st, st.bucket[t])

Keeps(st, u) ==
  \A t \in Ticks(st) : /\ t \in Ticks(u)
                       /\ Promised(st, t) \in Nat /\ Promised(u, t) \in Nat
                       /\ Promised(st, t) <= Promised(u, t)

LEMMA NextIndexNat ==
  ASSUME NEW st, StoreTyped(st)
  PROVE  /\ Len(st.ledger) \in Nat
         /\ NextEventIndex(st) \in Nat
         /\ st.gcOffset <= NextEventIndex(st)
BY DEF StoreTyped, NextEventIndex

LEMMA UnappliedType ==
  ASSUME NEW st, StoreTyped(st), NEW b,
         b.lastApplied \in st.gcOffset .. NextEventIndex(st)
  PROVE  /\ Unapplied(st, b) \in Seq(Entry)
         /\ Len(Unapplied(st, b)) = NextEventIndex(st) - b.lastApplied
         /\ \A i \in 1 .. NextEventIndex(st) - b.lastApplied :
              Unapplied(st, b)[i] = st.ledger[b.lastApplied - st.gcOffset + i]
         /\ b.lastApplied = NextEventIndex(st) => Unapplied(st, b) = <<>>
<1> DEFINE m == b.lastApplied - st.gcOffset + 1
           n == Len(st.ledger)
<1>1. st.gcOffset \in Nat /\ n \in Nat /\ st.ledger \in Seq(Entry)
  BY DEF StoreTyped
<1>2. b.lastApplied \in Nat /\ st.gcOffset <= b.lastApplied /\ b.lastApplied <= st.gcOffset + n
  BY <1>1 DEF NextEventIndex
<1>3. m \in Int /\ n \in Int /\ 1 <= m /\ m <= n + 1
  BY <1>1, <1>2
<1>4. \A i \in m .. n : st.ledger[i] \in Entry
  BY <1>1, <1>3
<1>5. /\ Unapplied(st, b) \in Seq(Entry)
      /\ Len(Unapplied(st, b)) = IF m <= n THEN n - m + 1 ELSE 0
      /\ \A i \in 1 .. n - m + 1 : Unapplied(st, b)[i] = st.ledger[m + i - 1]
  <2> HIDE DEF m, n
  <2>1. Unapplied(st, b) = SubSeq(st.ledger, m, n)
    BY DEF Unapplied, m, n
  <2> QED
    BY <1>3, <1>4, <2>1, SubSeqProperties
<1>6. n - m + 1 = NextEventIndex(st) - b.lastApplied
  BY <1>1, <1>2 DEF NextEventIndex
<1>7. Len(Unapplied(st, b)) = n - m + 1
  BY <1>1, <1>3, <1>5
<1>8. \A i \in 1 .. n - m + 1 : m + i - 1 = b.lastApplied - st.gcOffset + i
  BY <1>1, <1>2
<1>9. b.lastApplied = NextEventIndex(st) => Unapplied(st, b) = <<>>
  <2> SUFFICES ASSUME b.lastApplied = NextEventIndex(st) PROVE Unapplied(st, b) = <<>>
    OBVIOUS
  <2>1. Len(Unapplied(st, b)) = 0
    BY <1>2, <1>6, <1>7
  <2> QED
    BY <1>5, <2>1
<1> QED
  BY <1>5, <1>6, <1>7, <1>8, <1>9

LEMMA DueType ==
  ASSUME NEW st, StoreTyped(st), Within(st)
  PROVE  /\ Amounts(Due(st), Ticks(st))
         /\ Amounts(Credit(st), Ticks(st))
         /\ \A t \in Ticks(st) :
              /\ Replayed(st, st.bucket[t]) \in Nat
              /\ Replayed(st, st.bucket[t]) = st.bucket[t].accrued + Due(st)[t]
              /\ st.bucket[t].lastApplied = NextEventIndex(st) => Due(st)[t] = 0
<1> SUFFICES ASSUME NEW t \in Ticks(st)
             PROVE  /\ Due(st)[t] \in Nat /\ Credit(st)[t] \in Nat
                    /\ Replayed(st, st.bucket[t]) \in Nat
                    /\ Replayed(st, st.bucket[t]) = st.bucket[t].accrued + Due(st)[t]
                    /\ st.bucket[t].lastApplied = NextEventIndex(st) => Due(st)[t] = 0
  BY DEF Amounts
<1> DEFINE b == st.bucket[t]
<1>1. b \in Bucket /\ b.accrued \in Nat
  BY DEF StoreTyped, Bucket
<1>2. /\ Unapplied(st, b) \in Seq(Entry)
      /\ b.lastApplied = NextEventIndex(st) => Unapplied(st, b) = <<>>
  BY UnappliedType DEF Within
<1>3. /\ Replayed(st, b) \in Nat /\ b.accrued <= Replayed(st, b)
      /\ b.lastApplied = NextEventIndex(st) => Replayed(st, b) = b.accrued
  <2> HIDE DEF b
  <2> QED
    BY <1>1, <1>2, ReplayGrows, ReplayNone, ReplayedIsReplay
<1>4. Due(st)[t] = Replayed(st, b) - b.accrued /\ Credit(st)[t] = b.accrued
  BY DEF Due, PendingForBucket, Credit
<1> QED
  BY <1>1, <1>3, <1>4

(* apply_pending_to_bucket moves what a set of buckets is due from pending *)
(* to accruedTotal; it saturates where nothing can underflow.              *)
CaughtUpBy(st, T, u) ==
  /\ StoreSound(u)
  /\ StoreMoney(u) = StoreMoney(st)
  /\ u.dir = st.dir /\ u.ledger = st.ledger /\ u.gcOffset = st.gcOffset
  /\ Ticks(u) = Ticks(st)
  /\ \A t \in T : u.bucket[t] = [st.bucket[t] EXCEPT !.accrued = Replayed(st, st.bucket[t]),
                                    !.lastApplied = NextEventIndex(st)]
  /\ \A t \in Ticks(st) \ T : u.bucket[t] = st.bucket[t]

(* What a bucket is due depends on the bucket, the side and the ledger.    *)
LEMMA SameLedgerSameDue ==
  ASSUME NEW st, NEW u, u.dir = st.dir, u.ledger = st.ledger, u.gcOffset = st.gcOffset,
         NEW t \in Ticks(st), t \in Ticks(u), u.bucket[t] = st.bucket[t]
  PROVE  Due(u)[t] = Due(st)[t]
<1>1. Unapplied(u, st.bucket[t]) = Unapplied(st, st.bucket[t])
  BY DEF Unapplied
<1>2. Replayed(u, st.bucket[t]) = Replayed(st, st.bucket[t])
  BY <1>1, ReplayedIsReplay
<1> QED
  BY <1>2 DEF Due, PendingForBucket

LEMMA FullyReplayed ==
  ASSUME NEW st, StoreTyped(st), Within(st), NEW t \in Ticks(st)
  PROVE  LET b == [st.bucket[t] EXCEPT !.accrued = Replayed(st, st.bucket[t]),
                                       !.lastApplied = NextEventIndex(st)]
         IN  /\ b \in Bucket
             /\ b.accrued = st.bucket[t].accrued + Due(st)[t]
             /\ b.lastApplied \in st.gcOffset .. NextEventIndex(st)
             /\ b.lastApplied = NextEventIndex(st)
             /\ b.shares = st.bucket[t].shares /\ b.notional = st.bucket[t].notional
             /\ b.anchor = st.bucket[t].anchor
<1>1. st.bucket[t] \in Bucket
  BY DEF StoreTyped
<1>2. /\ Replayed(st, st.bucket[t]) \in Nat
      /\ Replayed(st, st.bucket[t]) = st.bucket[t].accrued + Due(st)[t]
  BY DueType
<1>3. PICK n \in Nat : n = NextEventIndex(st) /\ n \in st.gcOffset .. NextEventIndex(st)
  BY NextIndexNat DEF StoreTyped
<1>4. PICK r \in Nat : r = Replayed(st, st.bucket[t]) /\ r = st.bucket[t].accrued + Due(st)[t]
  BY <1>2
<1> QED
  BY <1>1, <1>3, <1>4 DEF Bucket

LEMMA ApplyPendingSound ==
  ASSUME NEW st, StoreSound(st), NEW T \in SUBSET Ticks(st)
  PROVE  CaughtUpBy(st, T, ApplyPending(st, T))
<1> DEFINE u == ApplyPending(st, T)
           full(t) == [st.bucket[t] EXCEPT !.accrued = Replayed(st, st.bucket[t]),
                                           !.lastApplied = NextEventIndex(st)]
           credited == SumOver([t \in T |-> PendingForBucket(st, t)], T)
           rest == SumOver(Due(st), Ticks(st) \ T)
<1>1. StoreTyped(st) /\ Within(st)
  BY DEF StoreSound
<1>2. /\ u.dir = st.dir /\ u.ledger = st.ledger /\ u.gcOffset = st.gcOffset
      /\ u = [f \in StoreFields |-> u[f]]
      /\ Ticks(u) = Ticks(st)
      /\ u.bucket = [t \in Ticks(u) |-> u.bucket[t]]
      /\ \A t \in T : u.bucket[t] = full(t)
      /\ \A t \in Ticks(st) \ T : u.bucket[t] = st.bucket[t]
      /\ u.accruedTotal = st.accruedTotal + credited
      /\ u.pending = Monus(st.pending, credited)
  BY <1>1 DEF ApplyPending, StoreTyped, StoreFields, Ticks
<1>3. NextEventIndex(u) = NextEventIndex(st)
  BY <1>2 DEF NextEventIndex
<1>4. \A t \in T : /\ full(t) \in Bucket
                   /\ full(t).accrued = st.bucket[t].accrued + Due(st)[t]
                   /\ full(t).lastApplied \in st.gcOffset .. NextEventIndex(st)
                   /\ full(t).lastApplied = NextEventIndex(st)
  BY <1>1, FullyReplayed
<1>f. IsFiniteSet(Ticks(st)) /\ IsFiniteSet(T) /\ IsFiniteSet(Ticks(st) \ T)
  BY <1>1, FS_Subset DEF StoreTyped
<1>d. Amounts(Due(st), Ticks(st)) /\ Amounts(Credit(st), Ticks(st))
  BY <1>1, DueType
<1>5. credited = SumOver(Due(st), T)
  <2>1. \A t \in T : [v \in T |-> PendingForBucket(st, v)][t] = Due(st)[t]
    BY DEF Due
  <2> QED
    BY <1>f, <1>d, <2>1, SumSame DEF Amounts
<1>6. credited \in Nat /\ rest \in Nat /\ st.pending = credited + rest
  <2>1. SumOver(Due(st), Ticks(st)) = SumOver(Due(st), T) + rest
    BY <1>f, <1>d, SumSplit
  <2> QED
    BY <1>5, <1>f, <1>d, <2>1, SumNat DEF Amounts, StoreSound
<1> HIDE DEF u, full, credited
<1>7. u.pending = rest /\ u.accruedTotal \in Nat
  BY <1>1, <1>2, <1>6 DEF Monus, StoreTyped
<1>8. StoreTyped(u)
  BY <1>1, <1>2, <1>4, <1>6, <1>7 DEF StoreTyped
<1>9. Within(u)
  BY <1>1, <1>2, <1>3, <1>4 DEF Within
<1>10. u.accruedTotal = SumOver(Credit(u), Ticks(u))
  <2> DEFINE gain == [t \in Ticks(st) |-> IF t \in T THEN Due(st)[t] ELSE 0]
  <2>1. Amounts(gain, Ticks(st)) /\ Amounts(gain, T)
    BY <1>d DEF Amounts
  <2>2. ASSUME NEW t \in Ticks(st) PROVE Credit(u)[t] = Credit(st)[t] + gain[t]
    <3>1. Credit(u)[t] = u.bucket[t].accrued /\ Credit(st)[t] = st.bucket[t].accrued
      BY <1>2 DEF Credit
    <3>2. CASE t \in T
      BY <1>2, <1>4, <3>1, <3>2
    <3>3. CASE t \notin T
      BY <1>2, <1>d, <3>1, <3>3 DEF Amounts
    <3> QED
      BY <3>2, <3>3
  <2>3. /\ \A t \in T : gain[t] = Due(st)[t]
        /\ \A t \in Ticks(st) \ T : gain[t] = 0
    OBVIOUS
  <2> HIDE DEF gain
  <2>4. SumOver(Credit(u), Ticks(st)) = SumOver(Credit(st), Ticks(st)) + SumOver(gain, Ticks(st))
    BY <1>f, <1>d, <2>1, <2>2, SumPlus
  <2>5. SumOver(gain, T) = credited
    BY <1>f, <1>d, <1>5, <2>3, SumSame DEF Amounts
  <2>6. SumOver(gain, Ticks(st) \ T) = 0
    BY <1>f, <2>3, SumZero
  <2>7. SumOver(gain, Ticks(st)) = SumOver(gain, T) + SumOver(gain, Ticks(st) \ T)
    BY <1>f, <2>1, SumSplit
  <2> QED
    BY <1>2, <1>6, <2>4, <2>5, <2>6, <2>7 DEF StoreSound
<1>11. u.pending = SumOver(Due(u), Ticks(u))
  <2>1. Amounts(Due(u), Ticks(u))
    BY <1>8, <1>9, DueType
  <2>0. \A t \in T : t \in Ticks(u) /\ u.bucket[t].lastApplied = NextEventIndex(u)
    BY <1>2, <1>3, <1>4
  <2>2. \A t \in T : Due(u)[t] = 0
    BY <1>8, <1>9, <2>0, DueType
  <2>3. \A t \in Ticks(st) \ T : Due(u)[t] = Due(st)[t]
    BY <1>2, SameLedgerSameDue
  <2>4. SumOver(Due(u), T) = 0
    BY <1>f, <2>2, SumZero
  <2>5. SumOver(Due(u), Ticks(st) \ T) = rest
    BY <1>f, <1>d, <2>3, SumSame DEF Amounts
  <2>6. SumOver(Due(u), Ticks(u)) = SumOver(Due(u), T) + SumOver(Due(u), Ticks(st) \ T)
    BY <1>2, <1>f, <2>1, SumSplit
  <2> QED
    BY <1>6, <1>7, <2>4, <2>5, <2>6
<1>12. StoreMoney(u) = StoreMoney(st)
  BY <1>1, <1>2, <1>6, <1>7 DEF StoreMoney, StoreTyped
<1>13. StoreSound(u)
  BY <1>8, <1>9, <1>10, <1>11 DEF StoreSound
<1> QED
  BY <1>2, <1>12, <1>13 DEF CaughtUpBy, u, full

(* Catching up changes what a bucket was credited with and its place in    *)
(* the ledger, nothing else.                                               *)
LEMMA CaughtUpBucket ==
  ASSUME NEW st, StoreSound(st), NEW T \in SUBSET Ticks(st), NEW u, CaughtUpBy(st, T, u),
         NEW t \in Ticks(st)
  PROVE  /\ u.bucket[t] \in Bucket
         /\ u.bucket[t].anchor = st.bucket[t].anchor
         /\ u.bucket[t].shares = st.bucket[t].shares
         /\ u.bucket[t].notional = st.bucket[t].notional
         /\ t \in T => u.bucket[t].lastApplied = NextEventIndex(u)
         /\ Promised(u, t) = Promised(st, t)
<1> DEFINE b == [st.bucket[t] EXCEPT !.accrued = Replayed(st, st.bucket[t]),
                                     !.lastApplied = NextEventIndex(st)]
<1>1. NextEventIndex(u) = NextEventIndex(st)
  BY DEF CaughtUpBy, NextEventIndex
<1>2. /\ StoreTyped(st) /\ Within(st) /\ StoreTyped(u) /\ Within(u)
      /\ Ticks(u) = Ticks(st) /\ t \in Ticks(u)
  BY DEF StoreSound, CaughtUpBy
<1>a. u.dir = st.dir /\ u.ledger = st.ledger /\ u.gcOffset = st.gcOffset
  BY DEF CaughtUpBy
<1>3. CASE t \in T
  <2>1. u.bucket[t] = b
    BY <1>3 DEF CaughtUpBy
  <2>2. /\ b.lastApplied = NextEventIndex(st)
        /\ b.shares = st.bucket[t].shares /\ b.notional = st.bucket[t].notional
        /\ b.anchor = st.bucket[t].anchor
        /\ b.accrued = st.bucket[t].accrued + Due(st)[t]
    BY <1>2, FullyReplayed
  <2> HIDE DEF b
  <2>3. Due(u)[t] = 0 /\ Promised(u, t) = u.bucket[t].accrued + Due(u)[t]
    BY <1>1, <1>2, <2>1, <2>2, DueType DEF Promised
  <2>4. /\ Promised(st, t) = st.bucket[t].accrued + Due(st)[t]
        /\ Promised(st, t) \in Nat
    BY <1>2, DueType DEF Promised
  <2>5. Promised(u, t) = Promised(st, t)
    BY <2>1, <2>2, <2>3, <2>4
  <2> QED
    BY <1>1, <1>2, <2>1, <2>2, <2>5 DEF StoreTyped
<1>4. CASE t \notin T
  <2>1. u.bucket[t] = st.bucket[t]
    BY <1>4 DEF CaughtUpBy
  <2>2. Due(u)[t] = Due(st)[t]
    BY <1>2, <1>a, <2>1, SameLedgerSameDue
  <2>3. /\ Promised(u, t) = u.bucket[t].accrued + Due(u)[t]
        /\ Promised(st, t) = st.bucket[t].accrued + Due(st)[t]
    BY <1>2, DueType DEF Promised
  <2> QED
    BY <1>2, <1>4, <2>1, <2>2, <2>3 DEF StoreTyped
<1> QED
  BY <1>3, <1>4

(* compact_ledger drops nothing a bucket has yet to replay.                *)
Compacted(st, u) ==
  /\ StoreSound(u)
  /\ StoreMoney(u) = StoreMoney(st)
  /\ u.dir = st.dir /\ u.bucket = st.bucket
  /\ NextEventIndex(u) = NextEventIndex(st)
  /\ Due(u) = Due(st)
  /\ \A t \in Ticks(st) : Promised(u, t) = Promised(st, t)

LEMMA WatermarkBound ==
  ASSUME NEW st, StoreTyped(st), Within(st)
  PROVE  /\ Watermark(st) \in st.gcOffset .. NextEventIndex(st)
         /\ \A t \in Ticks(st) : Watermark(st) <= st.bucket[t].lastApplied
<1> DEFINE S == {st.bucket[t].lastApplied : t \in Ticks(st)} \cup {NextEventIndex(st)}
<1>0. /\ st.gcOffset \in Nat /\ NextEventIndex(st) \in st.gcOffset .. NextEventIndex(st)
      /\ \A t \in Ticks(st) : st.bucket[t].lastApplied \in st.gcOffset .. NextEventIndex(st)
      /\ \A i \in st.gcOffset .. NextEventIndex(st) : i \in Nat
  BY NextIndexNat DEF Within, StoreTyped
<1>1. S \subseteq st.gcOffset .. NextEventIndex(st) /\ S # {}
  BY <1>0
<1>2. S \subseteq Nat
  BY <1>0, <1>1
<1>3. \A t \in Ticks(st) : st.bucket[t].lastApplied \in S
  OBVIOUS
<1>4. Watermark(st) = Min(S)
  BY DEF Watermark
<1> HIDE DEF S
<1>5. \E x \in S : \A y \in S : x <= y
  BY <1>1, <1>2, LeastNatural
<1>6. Min(S) \in S /\ \A y \in S : Min(S) <= y
  BY <1>5 DEF Min
<1> QED
  BY <1>1, <1>3, <1>4, <1>6

LEMMA CompactSound ==
  ASSUME NEW st, StoreSound(st) PROVE Compacted(st, CompactLedger(st))
<1> DEFINE u == CompactLedger(st)
           drop == Monus(Watermark(st), st.gcOffset)
           n == Len(st.ledger)
<1>1. StoreTyped(st) /\ Within(st)
  BY DEF StoreSound
<1>2. /\ st.gcOffset \in Nat /\ n \in Nat /\ st.ledger \in Seq(Entry)
      /\ NextEventIndex(st) = st.gcOffset + n
  BY <1>1 DEF StoreTyped, NextEventIndex
<1>3. /\ drop \in Nat /\ drop <= n /\ st.gcOffset + drop = Watermark(st)
  BY <1>1, <1>2, WatermarkBound DEF Monus
<1>4. /\ u = [f \in StoreFields |-> u[f]]
      /\ u.dir = st.dir /\ u.bucket = st.bucket /\ Ticks(u) = Ticks(st)
      /\ u.ledger = SubSeq(st.ledger, drop + 1, n) /\ u.gcOffset = st.gcOffset + drop
      /\ u.accruedTotal = st.accruedTotal /\ u.pending = st.pending
  BY <1>1 DEF CompactLedger, StoreTyped, StoreFields, Ticks
<1> HIDE DEF u, drop, n
<1>5. /\ u.ledger \in Seq(Entry) /\ Len(u.ledger) = n - drop
      /\ \A i \in 1 .. n - drop : u.ledger[i] = st.ledger[drop + i]
  <2> DEFINE m == drop + 1
  <2>1. m \in Int /\ n \in Int /\ m <= n + 1 /\ \A i \in m .. n : st.ledger[i] \in Entry
    BY <1>2, <1>3 DEF n
  <2>2. n - m + 1 = n - drop /\ \A i \in 1 .. n - drop : m + i - 1 = drop + i
    BY <1>2, <1>3
  <2>3. u.ledger = SubSeq(st.ledger, m, n)
    BY <1>4
  <2> HIDE DEF m
  <2>4. /\ u.ledger \in Seq(Entry)
        /\ Len(u.ledger) = IF m <= n THEN n - m + 1 ELSE 0
        /\ \A i \in 1 .. n - m + 1 : u.ledger[i] = st.ledger[m + i - 1]
    BY <2>1, <2>3, SubSeqProperties
  <2>5. Len(u.ledger) = n - m + 1
    BY <2>1, <2>4
  <2> QED
    BY <2>2, <2>4, <2>5
<1>6. NextEventIndex(u) = NextEventIndex(st)
  BY <1>2, <1>3, <1>4, <1>5 DEF NextEventIndex
<1>7. StoreTyped(u)
  <2>1. u.bucket = [t \in Ticks(u) |-> u.bucket[t]]
    BY <1>1, <1>4 DEF StoreTyped
  <2>2. u.gcOffset \in Nat
    BY <1>2, <1>3, <1>4
  <2> QED
    BY <1>1, <1>4, <1>5, <2>1, <2>2 DEF StoreTyped
<1>8. ASSUME NEW t \in Ticks(st)
      PROVE  /\ st.bucket[t].lastApplied \in u.gcOffset .. NextEventIndex(u)
             /\ Unapplied(u, st.bucket[t]) = Unapplied(st, st.bucket[t])
  <2> DEFINE b == st.bucket[t]
             k == NextEventIndex(st) - b.lastApplied
  <2>1. /\ b.lastApplied \in st.gcOffset .. NextEventIndex(st)
        /\ Watermark(st) <= b.lastApplied
    BY <1>1, WatermarkBound DEF Within
  <2> HIDE DEF b
  <2>2. b.lastApplied \in u.gcOffset .. NextEventIndex(u)
    BY <1>2, <1>3, <1>4, <1>6, <2>1
  <2>3. /\ Unapplied(st, b) \in Seq(Entry) /\ Len(Unapplied(st, b)) = k
        /\ \A i \in 1 .. k : Unapplied(st, b)[i] = st.ledger[b.lastApplied - st.gcOffset + i]
    BY <1>1, <2>1, UnappliedType
  <2>4. /\ Unapplied(u, b) \in Seq(Entry) /\ Len(Unapplied(u, b)) = k
        /\ \A i \in 1 .. k : Unapplied(u, b)[i] = u.ledger[b.lastApplied - u.gcOffset + i]
    BY <1>6, <1>7, <2>2, UnappliedType
  <2>5. ASSUME NEW i \in 1 .. k
        PROVE  u.ledger[b.lastApplied - u.gcOffset + i] = st.ledger[b.lastApplied - st.gcOffset + i]
    <3> DEFINE j == b.lastApplied - u.gcOffset + i
    <3>0. /\ b.lastApplied \in Int /\ st.gcOffset + drop <= b.lastApplied
          /\ b.lastApplied <= st.gcOffset + n /\ u.gcOffset = st.gcOffset + drop
          /\ i \in Int /\ 1 <= i /\ i <= st.gcOffset + n - b.lastApplied
      BY <1>2, <1>3, <1>4, <2>1
    <3>1. j \in 1 .. n - drop /\ drop + j = b.lastApplied - st.gcOffset + i
      <4> DEFINE last == b.lastApplied
                 off == st.gcOffset
                 low == u.gcOffset
      <4>1. off \in Nat /\ drop \in Nat /\ n \in Nat /\ low = off + drop
        BY <1>2, <1>3, <3>0
      <4>2. /\ last \in Int /\ low <= last /\ last <= off + n /\ i \in Int /\ 1 <= i
            /\ i <= off + n - last
        BY <3>0
      <4>3. j = last - low + i
        OBVIOUS
      <4> HIDE DEF last, off, low, j
      <4>4. last - low + i \in 1 .. n - drop /\ drop + (last - low + i) = last - off + i
        BY <4>1, <4>2, PlaceInTail
      <4> QED
        BY <4>3, <4>4 DEF last, off
    <3> HIDE DEF j
    <3>2. u.ledger[j] = st.ledger[drop + j]
      BY <1>5, <3>1
    <3> QED
      BY <3>1, <3>2 DEF j
  <2>6. Unapplied(u, b) = Unapplied(st, b)
    BY <2>3, <2>4, <2>5, SeqEqual
  <2> QED
    BY <2>2, <2>6 DEF b
<1>9. Within(u)
  BY <1>4, <1>8 DEF Within
<1>10. Due(u) = Due(st)
  <2>1. \A t \in Ticks(st) : Replayed(u, st.bucket[t]) = Replayed(st, st.bucket[t])
    BY <1>4, <1>8, ReplayedIsReplay
  <2> QED
    BY <1>4, <2>1 DEF Due, PendingForBucket
<1>11. Credit(u) = Credit(st) /\ Ticks(u) = Ticks(st)
  BY <1>4 DEF Credit
<1>13. \A t \in Ticks(st) : Promised(u, t) = Promised(st, t)
  BY <1>4, <1>8, ReplayedIsReplay DEF Promised
<1>12. StoreSound(u)
  BY <1>4, <1>7, <1>9, <1>10, <1>11 DEF StoreSound
<1> QED
  BY <1>4, <1>6, <1>10, <1>12, <1>13 DEF Compacted, StoreMoney, u

LEMMA WithRoomSound ==
  ASSUME NEW st, StoreSound(st) PROVE Compacted(st, WithRoom(st))
BY CompactSound DEF WithRoom, Compacted

(* A new entry is replayed by every bucket that has not stepped past it.   *)
LEMMA AppendedDue ==
  ASSUME NEW st, StoreTyped(st), NEW e \in Entry,
         NEW u, u.dir = st.dir, u.gcOffset = st.gcOffset, u.ledger = Append(st.ledger, e),
         NEW t \in Ticks(st), t \in Ticks(u), u.bucket[t] = st.bucket[t],
         st.bucket[t].lastApplied \in st.gcOffset .. NextEventIndex(st)
  PROVE  Due(u)[t] = Due(st)[t]
           + EntryShare(st.dir, st.bucket[t], Replayed(st, st.bucket[t]), e)
<1> DEFINE b == st.bucket[t]
           k == NextEventIndex(st) - b.lastApplied
           n == Len(st.ledger)
           j == b.lastApplied - st.gcOffset + 1
<1>1. /\ b \in Bucket /\ st.ledger \in Seq(Entry) /\ n \in Nat /\ st.gcOffset \in Nat
      /\ NextEventIndex(st) = st.gcOffset + n
      /\ b.lastApplied \in st.gcOffset .. NextEventIndex(st)
  BY DEF StoreTyped, NextEventIndex
<1> HIDE DEF b, n
<1>2. /\ Append(st.ledger, e) \in Seq(Entry) /\ Len(Append(st.ledger, e)) = n + 1
      /\ \A i \in 1 .. n : Append(st.ledger, e)[i] = st.ledger[i]
      /\ Append(st.ledger, e)[n + 1] = e
  BY <1>1, AppendProperties DEF n
<1>3. /\ Unapplied(st, b) \in Seq(Entry) /\ Len(Unapplied(st, b)) = k
      /\ \A i \in 1 .. k : Unapplied(st, b)[i] = st.ledger[b.lastApplied - st.gcOffset + i]
  BY <1>1, UnappliedType
<1>4. k \in Nat /\ j \in Int /\ j <= n + 1 /\ n + 1 \in Int /\ 1 <= j /\ n + 1 - j = k
  <2> DEFINE off == st.gcOffset
             next == NextEventIndex(st)
             last == b.lastApplied
  <2>1. off \in Nat /\ n \in Nat /\ next = off + n /\ last \in off .. next
    BY <1>1
  <2>2. k = next - last /\ j = last - off + 1
    OBVIOUS
  <2> HIDE DEF off, next, last, k, j
  <2> QED
    BY <2>1, <2>2, PlaceInLog
<1>5. /\ Unapplied(u, b) \in Seq(Entry) /\ Len(Unapplied(u, b)) = k + 1
      /\ \A i \in 1 .. k + 1 : Unapplied(u, b)[i] = Append(st.ledger, e)[j + i - 1]
  <2> DEFINE m == n + 1
             more == Append(st.ledger, e)
  <2>1. Unapplied(u, b) = SubSeq(more, j, m)
    BY <1>2 DEF Unapplied
  <2>2. \A i \in j .. m : more[i] \in Entry
    BY <1>2, <1>4
  <2>3. j \in Int /\ m \in Int /\ j <= m /\ m - j + 1 = k + 1
    BY <1>1, <1>4
  <2> HIDE DEF j, m, k, more
  <2>5. /\ Unapplied(u, b) \in Seq(Entry)
        /\ Len(Unapplied(u, b)) = m - j + 1
        /\ \A i \in 1 .. m - j + 1 : Unapplied(u, b)[i] = more[j + i - 1]
    BY <2>1, <2>2, <2>3, SubSeqProperties
  <2> QED
    BY <2>3, <2>5 DEF more
<1>6. Unapplied(u, b) = Append(Unapplied(st, b), e)
  <2> DEFINE old == Unapplied(st, b)
  <2>1. /\ Append(old, e) \in Seq(Entry) /\ Len(Append(old, e)) = k + 1
        /\ \A i \in 1 .. k : Append(old, e)[i] = old[i]
        /\ Append(old, e)[k + 1] = e
    BY <1>3, AppendProperties
  <2> HIDE DEF old
  <2>2. ASSUME NEW i \in 1 .. k + 1 PROVE Unapplied(u, b)[i] = Append(old, e)[i]
    <3>1. CASE i = k + 1
      <4>1. j + i - 1 = n + 1
        BY <1>1, <1>4, <3>1
      <4> QED
        BY <1>2, <1>5, <2>1, <3>1, <4>1
    <3>2. CASE i # k + 1
      <4>0. /\ i \in Int /\ 1 <= i /\ i <= k /\ b.lastApplied \in Int /\ st.gcOffset \in Int
            /\ 1 <= j /\ n + 1 - j = k /\ n \in Int /\ k \in Int /\ j \in Int
        BY <1>1, <1>4, <3>2
      <4>1. i \in 1 .. k /\ j + i - 1 \in 1 .. n /\ j + i - 1 = b.lastApplied - st.gcOffset + i
        <5>1. j + i - 1 = b.lastApplied - st.gcOffset + i
          BY <4>0
        <5> HIDE DEF k, j
        <5> QED
          BY SMTT(30), <4>0, <5>1
      <4>2. Unapplied(u, b)[i] = st.ledger[j + i - 1]
        BY <1>2, <1>5, <4>1
      <4>3. Append(old, e)[i] = st.ledger[b.lastApplied - st.gcOffset + i]
        BY <1>3, <2>1, <4>1 DEF old
      <4> QED
        BY <4>1, <4>2, <4>3
    <3> QED
      BY <3>1, <3>2
  <2>3. Unapplied(u, b) = Append(old, e)
    BY <1>5, <2>1, <2>2, SeqEqual
  <2> QED
    BY <2>3 DEF old
<1>7. Replayed(u, b) = Replayed(st, b) + EntryShare(st.dir, b, Replayed(st, b), e)
  BY <1>1, <1>3, <1>6, ReplayedIsReplay, ReplayAppend
<1>8. Replayed(st, b) \in Nat /\ b.accrued \in Nat
  BY <1>1, <1>3, ReplayedIsReplay, ReplayGrows DEF Bucket
<1>9. EntryShare(st.dir, b, Replayed(st, b), e) \in Nat
  BY <1>1, <1>8, EntryShareNat
<1>10. Due(st)[t] = Replayed(st, b) - b.accrued /\ Due(u)[t] = Replayed(u, b) - b.accrued
  BY DEF Due, PendingForBucket, b
<1>11. Due(u)[t] = Due(st)[t] + EntryShare(st.dir, b, Replayed(st, b), e)
  BY <1>7, <1>8, <1>9, <1>10
<1> QED
  BY <1>11 DEF b

(* What a distribution starts from: the activated buckets are caught up,   *)
(* the denominator is the sum of what they are owed.                       *)
SplitFacts(st, p, alloc, s) ==
  /\ StoreSound(s.ready)
  /\ StoreMoney(s.ready) = StoreMoney(st)
  /\ s.ready.dir = st.dir /\ Ticks(s.ready) = Ticks(st)
  /\ NextEventIndex(s.ready) = NextEventIndex(st)
  /\ s.active \subseteq Ticks(st) /\ IsFiniteSet(s.active)
  /\ \A t \in s.active : /\ s.ready.bucket[t].lastApplied = NextEventIndex(s.ready)
                         /\ s.share[t] = ShareOf(alloc, OutstandingClaim(st.dir, s.ready.bucket[t], p),
                                                 s.total)
  /\ \A t \in Ticks(st) \ s.active : ~Activated(st.dir, s.ready.bucket[t].anchor, p)
  /\ \A t \in Ticks(st) : Promised(s.ready, t) = Promised(st, t)
  /\ s.total \in Nat
  /\ Amounts(s.share, s.active)
  /\ s.allocated = SumOver(s.share, s.active)
  /\ s.allocated \in Nat /\ s.allocated <= alloc
  /\ s.total = 0 => s.allocated = 0

LEMMA SplitSound ==
  ASSUME NEW st, StoreSound(st), NEW p \in Nat, NEW alloc \in Nat
  PROVE  SplitFacts(st, p, alloc, Split(st, p, alloc))
<1> DEFINE s == Split(st, p, alloc)
           room == WithRoom(st)
           T == ActivatedTicks(st, p)
           u == ApplyPending(room, T)
           owed == OwedAt(u, p)
<1>1. Compacted(st, room) /\ StoreSound(room)
  BY WithRoomSound DEF Compacted
<1>2. Ticks(room) = Ticks(st) /\ room.bucket = st.bucket /\ room.dir = st.dir
  BY <1>1 DEF Compacted, Ticks
<1>3. T \subseteq Ticks(room)
  BY <1>2 DEF ActivatedTicks
<1>4. CaughtUpBy(room, T, u)
  BY <1>1, <1>3, ApplyPendingSound
<1> HIDE DEF room, u, T
<1>5. /\ StoreSound(u) /\ StoreTyped(u) /\ StoreMoney(u) = StoreMoney(st)
      /\ u.dir = st.dir /\ Ticks(u) = Ticks(st)
  BY <1>1, <1>2, <1>4 DEF CaughtUpBy, Compacted, StoreSound
<1>6. NextEventIndex(u) = NextEventIndex(st) /\ NextEventIndex(room) = NextEventIndex(st)
  BY <1>1, <1>4 DEF CaughtUpBy, Compacted, NextEventIndex
<1>7. \A t \in Ticks(st) : u.bucket[t].anchor = st.bucket[t].anchor
  BY <1>1, <1>2, <1>3, <1>4, CaughtUpBucket
<1>8. /\ \A t \in T : Activated(st.dir, st.bucket[t].anchor, p) /\ t \in Ticks(st)
      /\ \A t \in Ticks(st) \ T : ~Activated(st.dir, st.bucket[t].anchor, p)
  BY DEF ActivatedTicks, T
<1>9. ActivatedTicks(u, p) = T
  BY <1>5, <1>7, <1>8 DEF ActivatedTicks
<1>10. /\ DOMAIN owed = T
       /\ \A t \in T : owed[t] = OutstandingClaim(st.dir, u.bucket[t], p)
  BY <1>5, <1>9 DEF OwedAt
<1>11. IsFiniteSet(T) /\ Amounts(owed, T)
  <2>1. \A t \in T : u.bucket[t] \in Bucket
    BY <1>5, <1>8 DEF StoreTyped
  <2>2. IsFiniteSet(T)
    BY <1>5, <1>8, FS_Subset DEF StoreTyped
  <2> QED
    BY <1>10, <2>1, <2>2, ClaimNat DEF Amounts
<1> HIDE DEF owed
<1> DEFINE total == SumOver(owed, T)
           share == [t \in T |-> ShareOf(alloc, owed[t], total)]
<1>12. /\ s.ready = u /\ s.active = T /\ s.total = total
       /\ s.share = share /\ s.allocated = SumOver(share, T)
  BY <1>10 DEF Split, CaughtUp, owed, u, T, room
<1>13. Amounts(share, T) /\ SumOver(share, T) <= alloc /\ total \in Nat
  <2>1. \A t \in T : share[t] = ShareOf(alloc, owed[t], SumOver(owed, T))
    OBVIOUS
  <2> HIDE DEF share
  <2> QED
    BY <1>11, <2>1, SharesWithinAlloc, SumNat
<1>14. SumOver(share, T) \in Nat
  BY <1>11, <1>13, SumNat
<1>15. total = 0 => SumOver(share, T) = 0
  <2> SUFFICES ASSUME total = 0 PROVE SumOver(share, T) = 0
    OBVIOUS
  <2>0. \A t \in T : owed[t] \in Nat /\ share[t] = ShareOf(alloc, owed[t], total)
    BY <1>11 DEF Amounts
  <2> HIDE DEF share, total
  <2>1. \A t \in T : share[t] = 0
    BY <1>13, <2>0, ShareBound
  <2> QED
    BY <1>11, <2>1, SumZero
<1>16. \A t \in T : share[t] = ShareOf(alloc, OutstandingClaim(st.dir, u.bucket[t], p), total)
  BY <1>10
<1>17. \A t \in T : u.bucket[t].lastApplied = NextEventIndex(u)
  BY <1>1, <1>3, <1>4, CaughtUpBucket
<1>18. \A t \in Ticks(st) : Promised(u, t) = Promised(st, t)
  <2>1. \A t \in Ticks(st) : Promised(u, t) = Promised(room, t)
    BY <1>1, <1>2, <1>3, <1>4, CaughtUpBucket
  <2> QED
    BY <1>1, <2>1 DEF Compacted
<1> HIDE DEF s, share, total
<1> QED
  BY <1>18, <1>5, <1>6, <1>7, <1>8, <1>11, <1>12, <1>13, <1>14, <1>15, <1>16, <1>17 DEF SplitFacts, s

LEMMA ResidualNat ==
  ASSUME NEW st, StoreSound(st), NEW p \in Nat, NEW alloc \in Nat
  PROVE  /\ Residual(st, p, alloc) \in Nat
         /\ Split(st, p, alloc).allocated + Residual(st, p, alloc) = alloc
<1> DEFINE s == Split(st, p, alloc)
<1>1. SplitFacts(st, p, alloc, s)
  BY SplitSound
<1>2. Residual(st, p, alloc) = alloc - s.allocated
  BY DEF Residual
<1> HIDE DEF s
<1>3. s.allocated \in Nat /\ s.allocated <= alloc
  BY <1>1 DEF SplitFacts
<1>4. s.allocated + Residual(st, p, alloc) = alloc /\ Residual(st, p, alloc) \in Nat
  BY <1>2, <1>3
<1> QED
  BY <1>4 DEF s

(* The new entry gives every activated bucket the share it was computed    *)
(* for, and nothing to the others.                                         *)
LEMMA EntryGives ==
  ASSUME NEW st, NEW p \in Nat, NEW alloc \in Nat, NEW s, SplitFacts(st, p, alloc, s),
         NEW t \in Ticks(st)
  PROVE  /\ NewEntry(p, alloc, s) \in Entry
         /\ EntryShare(st.dir, s.ready.bucket[t], Replayed(s.ready, s.ready.bucket[t]),
                       NewEntry(p, alloc, s))
              = IF t \in s.active THEN s.share[t] ELSE 0
         /\ t \in s.active => Due(s.ready)[t] = 0
<1> DEFINE r == s.ready
           b == r.bucket[t]
           e == NewEntry(p, alloc, s)
<1>1. e \in Entry /\ e.price = p /\ e.alloc = alloc /\ e.outstanding = s.total
  BY DEF SplitFacts, NewEntry, Entry
<1>2. StoreTyped(r) /\ Within(r) /\ Ticks(r) = Ticks(st)
  BY DEF SplitFacts, StoreSound
<1>3. b \in Bucket /\ b.accrued \in Nat
  BY <1>2 DEF StoreTyped, Bucket
<1>4. Replayed(r, b) \in Nat /\ Replayed(r, b) = b.accrued + Due(r)[t]
  BY <1>2, DueType
<1>5. CASE t \in s.active
  <2>1. Due(r)[t] = 0
    BY <1>2, <1>5, DueType DEF SplitFacts
  <2>2. Replayed(r, b) = b.accrued
    BY <1>3, <1>4, <2>1
  <2> HIDE DEF b, e, r
  <2>3. EntryShare(st.dir, b, b.accrued, e)
          = ShareOf(alloc, OutstandingClaim(st.dir, b, p), s.total)
    BY <1>1 DEF EntryShare, OutstandingClaim
  <2> QED
    BY <1>1, <1>5, <2>1, <2>2, <2>3 DEF SplitFacts, b, e, r
<1>6. CASE t \notin s.active
  <2>1. ~Activated(st.dir, b.anchor, p)
    BY <1>6 DEF SplitFacts
  <2> HIDE DEF b, e, r
  <2>2. EntryShare(st.dir, b, Replayed(r, b), e) = 0
    BY <1>1, <1>3, <1>4, <2>1, EntryShareNat
  <2> QED
    BY <1>1, <1>6, <2>2 DEF b, e, r
<1> QED
  BY <1>5, <1>6

(* What a distribution leaves: the money it was given is on the books of   *)
(* the store, but for the residual, and no bucket lost a promise.          *)
Distributed(st, p, alloc, u) ==
  /\ StoreSound(u)
  /\ u.dir = st.dir /\ Ticks(u) = Ticks(st)
  /\ Residual(st, p, alloc) \in Nat
  /\ StoreMoney(u) + Residual(st, p, alloc) = StoreMoney(st) + alloc
  /\ Keeps(st, u)

LEMMA PromisedNat ==
  ASSUME NEW st, StoreTyped(st), Within(st), NEW t \in Ticks(st)
  PROVE  Promised(st, t) \in Nat /\ Promised(st, t) = st.bucket[t].accrued + Due(st)[t]
BY DueType DEF Promised

LEMMA MoneyNat ==
  ASSUME NEW st, StoreTyped(st) PROVE StoreMoney(st) \in Nat
BY DEF StoreMoney, StoreTyped

LEMMA NothingSplit ==
  ASSUME NEW st, StoreSound(st), NEW p \in Nat, NEW alloc \in Nat,
         Split(st, p, alloc).total = 0
  PROVE  Distributed(st, p, alloc, Split(st, p, alloc).ready)
<1> DEFINE s == Split(st, p, alloc)
<1>1. SplitFacts(st, p, alloc, s)
  BY SplitSound
<1>2. s.allocated = 0 /\ s.allocated + Residual(st, p, alloc) = alloc
      /\ Residual(st, p, alloc) \in Nat
  BY <1>1, ResidualNat DEF SplitFacts
<1> HIDE DEF s
<1>3. StoreTyped(s.ready) /\ Within(s.ready) /\ Ticks(s.ready) = Ticks(st)
      /\ StoreTyped(st) /\ StoreMoney(st) \in Nat
  BY <1>1, MoneyNat DEF SplitFacts, StoreSound
<1>4. Keeps(st, s.ready)
  BY <1>1, <1>3, PromisedNat DEF Keeps, SplitFacts
<1>5. Distributed(st, p, alloc, s.ready)
  BY <1>1, <1>2, <1>3, <1>4 DEF Distributed, SplitFacts
<1> QED
  BY <1>5 DEF s

LEMMA EntryRecorded ==
  ASSUME NEW st, StoreTyped(st), NEW e \in Entry,
         NEW u, u.ledger = Append(st.ledger, e), u.gcOffset = st.gcOffset
  PROVE  /\ u.ledger \in Seq(Entry)
         /\ NextEventIndex(u) \in Nat /\ NextEventIndex(u) = NextEventIndex(st) + 1
         /\ NextEventIndex(u) \in u.gcOffset .. NextEventIndex(u)
         /\ \A i \in st.gcOffset .. NextEventIndex(st) : i \in u.gcOffset .. NextEventIndex(u)
<1>1. st.ledger \in Seq(Entry) /\ st.gcOffset \in Nat /\ Len(st.ledger) \in Nat
  BY DEF StoreTyped
<1>2. u.ledger \in Seq(Entry) /\ Len(u.ledger) = Len(st.ledger) + 1
  BY <1>1, AppendProperties
<1>3. PICK n \in Nat : n = NextEventIndex(st) /\ st.gcOffset <= n
  BY NextIndexNat
<1>4. NextEventIndex(u) = n + 1
  BY <1>1, <1>2, <1>3 DEF NextEventIndex
<1>5. \A i \in st.gcOffset .. n : i \in st.gcOffset .. n + 1
  BY <1>1, <1>3
<1>6. n + 1 \in Nat /\ n + 1 \in st.gcOffset .. n + 1
  BY <1>1, <1>3
<1> QED
  BY <1>2, <1>3, <1>4, <1>5, <1>6

(* The lazy path: the entry is in flight until it is replayed.             *)
LEMMA DistributeLazySound ==
  ASSUME NEW st, StoreSound(st), NEW p \in Nat, NEW alloc \in Nat
  PROVE  Distributed(st, p, alloc, DistributeLazy(st, p, alloc))
<1> DEFINE s == Split(st, p, alloc)
           r == s.ready
           e == NewEntry(p, alloc, s)
           u == DistributeLazy(st, p, alloc)
           given == [t \in Ticks(st) |-> IF t \in s.active THEN s.share[t] ELSE 0]
<1>0. SplitFacts(st, p, alloc, s)
  BY SplitSound
<1>1. CASE s.total = 0
  <2>1. u = s.ready
    BY <1>1 DEF DistributeLazy
  <2> QED
    BY <1>1, <2>1, NothingSplit
<1>2. CASE s.total # 0
  <2>1. u = [r EXCEPT !.pending = @ + s.allocated, !.ledger = Append(@, e)]
    BY <1>2 DEF DistributeLazy
  <2>2. s.allocated + Residual(st, p, alloc) = alloc /\ Residual(st, p, alloc) \in Nat
    BY ResidualNat
  <2> HIDE DEF s, u
  <2>3. /\ StoreTyped(r) /\ Within(r) /\ Ticks(r) = Ticks(st)
        /\ s.active \in SUBSET Ticks(st) /\ IsFiniteSet(Ticks(st))
        /\ r.dir = st.dir /\ s.allocated \in Nat
        /\ Amounts(s.share, s.active) /\ s.allocated = SumOver(s.share, s.active)
        /\ r.accruedTotal = SumOver(Credit(r), Ticks(r))
        /\ r.pending = SumOver(Due(r), Ticks(r))
    BY <1>0 DEF SplitFacts, StoreSound, StoreTyped
  <2>4. \A t \in Ticks(st) :
          /\ e \in Entry
          /\ EntryShare(st.dir, r.bucket[t], Replayed(r, r.bucket[t]), e) = given[t]
    BY <1>0, EntryGives
  <2>5. Amounts(given, Ticks(st)) /\ SumOver(given, Ticks(st)) = s.allocated
    <3>1. \A t \in Ticks(st) : given[t] = IF t \in s.active THEN s.share[t] ELSE 0
      OBVIOUS
    <3> HIDE DEF given
    <3> QED
      BY <2>3, <3>1, SumOfPart
  <2>6. e \in Entry
    BY <1>0 DEF SplitFacts, NewEntry, Entry
  <2> HIDE DEF e, given
  <2>7. /\ u = [f \in StoreFields |-> u[f]]
        /\ u.dir = r.dir /\ u.bucket = r.bucket /\ Ticks(u) = Ticks(r)
        /\ u.ledger = Append(r.ledger, e) /\ u.gcOffset = r.gcOffset
        /\ u.accruedTotal = r.accruedTotal /\ u.pending = r.pending + s.allocated
    BY <2>1, <2>3 DEF StoreTyped, StoreFields, Ticks
  <2>8. r.gcOffset \in Nat /\ r.accruedTotal \in Nat /\ r.pending \in Nat
    BY <2>3 DEF StoreTyped
  <2>a. /\ u.ledger \in Seq(Entry)
        /\ \A i \in r.gcOffset .. NextEventIndex(r) : i \in u.gcOffset .. NextEventIndex(u)
    BY <2>3, <2>6, <2>7, EntryRecorded
  <2>9. StoreTyped(u)
    <3>1. u.bucket = [t \in Ticks(u) |-> u.bucket[t]]
      BY <2>3, <2>7 DEF StoreTyped
    <3>2. \A t \in Ticks(u) : u.bucket[t] \in Bucket
      BY <2>3, <2>7 DEF StoreTyped
    <3>3. /\ u.dir \in Direction /\ Ticks(u) \subseteq Nat /\ IsFiniteSet(Ticks(u))
          /\ u.gcOffset \in Nat /\ u.accruedTotal \in Nat /\ u.pending \in Nat
      BY <2>3, <2>7, <2>8 DEF StoreTyped
    <3> QED
      BY <2>7, <2>a, <3>1, <3>2, <3>3 DEF StoreTyped
  <2>10. Within(u)
    BY <2>3, <2>7, <2>a DEF Within
  <2>11. \A t \in Ticks(st) : Due(u)[t] = Due(r)[t] + given[t]
    <3> SUFFICES ASSUME NEW t \in Ticks(st) PROVE Due(u)[t] = Due(r)[t] + given[t]
      OBVIOUS
    <3>1. t \in Ticks(r) /\ t \in Ticks(u) /\ u.bucket[t] = r.bucket[t]
      BY <2>3, <2>7
    <3>2. r.bucket[t].lastApplied \in r.gcOffset .. NextEventIndex(r)
      BY <2>3, <3>1 DEF Within
    <3>3. Due(u)[t] = Due(r)[t]
            + EntryShare(r.dir, r.bucket[t], Replayed(r, r.bucket[t]), e)
      BY <2>3, <2>6, <2>7, <3>1, <3>2, AppendedDue
    <3> QED
      BY <2>3, <2>4, <3>3
  <2>12. Amounts(Due(r), Ticks(st)) /\ Amounts(Due(u), Ticks(st))
    BY <2>3, <2>7, <2>9, <2>10, DueType
  <2>13. SumOver(Due(u), Ticks(st)) = SumOver(Due(r), Ticks(st)) + SumOver(given, Ticks(st))
    BY <2>3, <2>5, <2>11, <2>12, SumPlus
  <2>14. Credit(u) = Credit(r)
    BY <2>7 DEF Credit
  <2>15. StoreSound(u)
    BY <2>3, <2>5, <2>7, <2>9, <2>10, <2>13, <2>14 DEF StoreSound
  <2>16. StoreMoney(u) = StoreMoney(st) + s.allocated /\ StoreMoney(st) \in Nat
    <3>1. StoreMoney(r) = StoreMoney(st)
      BY <1>0 DEF SplitFacts
    <3> QED
      BY <2>3, <2>7, <2>8, <3>1 DEF StoreMoney
  <2>17. Keeps(st, u)
    <3> SUFFICES ASSUME NEW t \in Ticks(st)
                 PROVE  /\ t \in Ticks(u)
                        /\ Promised(st, t) \in Nat /\ Promised(u, t) \in Nat
                        /\ Promised(st, t) <= Promised(u, t)
      BY DEF Keeps
    <3>1. /\ t \in Ticks(u) /\ t \in Ticks(r) /\ given[t] \in Nat
          /\ u.bucket[t] = r.bucket[t] /\ r.bucket[t] \in Bucket
      BY <2>3, <2>5, <2>7 DEF Amounts, StoreTyped
    <3>2. /\ Promised(u, t) \in Nat /\ Promised(u, t) = u.bucket[t].accrued + Due(u)[t]
          /\ Promised(r, t) \in Nat /\ Promised(r, t) = r.bucket[t].accrued + Due(r)[t]
      BY <2>3, <2>9, <2>10, <3>1, PromisedNat
    <3>3. Due(u)[t] = Due(r)[t] + given[t] /\ Due(r)[t] \in Nat
      BY <2>11, <2>12 DEF Amounts
    <3>4. Promised(r, t) = Promised(st, t)
      BY <1>0 DEF SplitFacts
    <3>5. r.bucket[t].accrued \in Nat
      BY <3>1 DEF Bucket
    <3>6. Promised(u, t) = Promised(r, t) + given[t]
      BY <3>1, <3>2, <3>3, <3>5
    <3> QED
      BY <3>1, <3>2, <3>4, <3>6
  <2>18. StoreMoney(u) + Residual(st, p, alloc) = StoreMoney(st) + alloc
    BY <2>2, <2>3, <2>16
  <2>19. Distributed(st, p, alloc, u)
    BY <2>2, <2>3, <2>7, <2>15, <2>17, <2>18 DEF Distributed
  <2> QED
    BY <2>19 DEF u
<1> QED
  BY <1>1, <1>2

(* The eager path: the activated buckets are credited at once and step     *)
(* past the entry; the others will replay nothing from it.                 *)
LEMMA DistributeEagerSound ==
  ASSUME NEW st, StoreSound(st), NEW p \in Nat, NEW alloc \in Nat
  PROVE  Distributed(st, p, alloc, DistributeEager(st, p, alloc))
<1> DEFINE s == Split(st, p, alloc)
           r == s.ready
           e == NewEntry(p, alloc, s)
           u == DistributeEager(st, p, alloc)
           given == [t \in Ticks(st) |-> IF t \in s.active THEN s.share[t] ELSE 0]
           next == NextEventIndex(r) + 1
<1>0. SplitFacts(st, p, alloc, s)
  BY SplitSound
<1>1. CASE s.total = 0
  <2>1. u = s.ready
    BY <1>1 DEF DistributeEager
  <2> QED
    BY <1>1, <2>1, NothingSplit
<1>2. CASE s.total # 0
  <2>1. u = [r EXCEPT !.bucket = [t \in Ticks(st) |->
                                    IF t \in s.active THEN Credited(@[t], s.share[t], next)
                                    ELSE @[t]],
                      !.accruedTotal = @ + s.allocated, !.ledger = Append(@, e)]
    BY <1>2 DEF DistributeEager
  <2>2. s.allocated + Residual(st, p, alloc) = alloc /\ Residual(st, p, alloc) \in Nat
    BY ResidualNat
  <2> HIDE DEF s, u
  <2>3. /\ StoreTyped(r) /\ Within(r) /\ Ticks(r) = Ticks(st)
        /\ s.active \in SUBSET Ticks(st) /\ IsFiniteSet(Ticks(st))
        /\ r.dir = st.dir /\ s.allocated \in Nat
        /\ Amounts(s.share, s.active) /\ s.allocated = SumOver(s.share, s.active)
        /\ r.accruedTotal = SumOver(Credit(r), Ticks(r))
        /\ r.pending = SumOver(Due(r), Ticks(r))
    BY <1>0 DEF SplitFacts, StoreSound, StoreTyped
  <2>4. \A t \in Ticks(st) :
          /\ EntryShare(st.dir, r.bucket[t], Replayed(r, r.bucket[t]), e) = given[t]
          /\ t \in s.active => Due(r)[t] = 0
    BY <1>0, EntryGives
  <2>b. \A t \in Ticks(st) : given[t] = IF t \in s.active THEN s.share[t] ELSE 0
    OBVIOUS
  <2>6. e \in Entry
    BY <1>0 DEF SplitFacts, NewEntry, Entry
  <2> HIDE DEF e, given, next
  <2>5. Amounts(given, Ticks(st)) /\ SumOver(given, Ticks(st)) = s.allocated
    BY <2>3, <2>b, SumOfPart
  <2>7. /\ u = [f \in StoreFields |-> u[f]]
        /\ u.dir = r.dir
        /\ u.bucket = [t \in Ticks(st) |->
                         IF t \in s.active THEN Credited(r.bucket[t], s.share[t], next)
                         ELSE r.bucket[t]]
        /\ u.ledger = Append(r.ledger, e) /\ u.gcOffset = r.gcOffset
        /\ u.accruedTotal = r.accruedTotal + s.allocated /\ u.pending = r.pending
    BY <2>1, <2>3 DEF StoreTyped, StoreFields
  <2>c. Ticks(u) = Ticks(st) /\ u.bucket = [t \in Ticks(u) |-> u.bucket[t]]
    BY <2>7 DEF Ticks
  <2>8. r.gcOffset \in Nat /\ r.accruedTotal \in Nat /\ r.pending \in Nat
    BY <2>3 DEF StoreTyped
  <2>a. /\ u.ledger \in Seq(Entry)
        /\ NextEventIndex(u) = next /\ next \in Nat /\ next \in u.gcOffset .. NextEventIndex(u)
        /\ \A i \in r.gcOffset .. NextEventIndex(r) : i \in u.gcOffset .. NextEventIndex(u)
    <3>1. u.ledger = Append(r.ledger, e) /\ u.gcOffset = r.gcOffset /\ StoreTyped(r)
      BY <2>3, <2>7
    <3>2. /\ u.ledger \in Seq(Entry)
          /\ NextEventIndex(u) \in Nat /\ NextEventIndex(u) = NextEventIndex(r) + 1
          /\ NextEventIndex(u) \in u.gcOffset .. NextEventIndex(u)
          /\ \A i \in r.gcOffset .. NextEventIndex(r) : i \in u.gcOffset .. NextEventIndex(u)
      BY <2>6, <3>1, EntryRecorded
    <3> QED
      BY <3>2 DEF next
  <2>d. ASSUME NEW t \in Ticks(st)
        PROVE  /\ u.bucket[t] \in Bucket
               /\ u.bucket[t].lastApplied \in u.gcOffset .. NextEventIndex(u)
               /\ t \in s.active => /\ u.bucket[t].lastApplied = NextEventIndex(u)
                                    /\ u.bucket[t].accrued = r.bucket[t].accrued + given[t]
               /\ t \notin s.active => u.bucket[t] = r.bucket[t] /\ given[t] = 0
    <3>1. r.bucket[t] \in Bucket /\ r.bucket[t].lastApplied \in r.gcOffset .. NextEventIndex(r)
      BY <2>3 DEF StoreTyped, Within
    <3>2. CASE t \in s.active
      <4>1. s.share[t] = given[t] /\ given[t] \in Nat
        BY <2>b, <2>5, <3>2 DEF Amounts
      <4>2. u.bucket[t] = [r.bucket[t] EXCEPT !.accrued = @ + given[t], !.lastApplied = next]
        BY <2>7, <3>2, <4>1 DEF Credited
      <4>3. PICK a \in Nat : a = r.bucket[t].accrued + given[t]
        BY <3>1, <4>1 DEF Bucket
      <4>4. u.bucket[t] = [r.bucket[t] EXCEPT !.accrued = a, !.lastApplied = next]
        BY <4>2, <4>3
      <4>5. u.bucket[t] \in Bucket /\ u.bucket[t].lastApplied = next /\ u.bucket[t].accrued = a
        BY <2>a, <3>1, <4>4 DEF Bucket
      <4> QED
        BY <2>a, <3>2, <4>3, <4>5
    <3>3. CASE t \notin s.active
      BY <2>7, <2>a, <2>b, <3>1, <3>3
    <3> QED
      BY <3>2, <3>3
  <2>9. StoreTyped(u)
    <3>1. u.dir \in Direction /\ Ticks(u) \subseteq Nat /\ IsFiniteSet(Ticks(u))
      BY <2>3, <2>7, <2>c DEF StoreTyped
    <3>2. u.gcOffset \in Nat /\ u.accruedTotal \in Nat /\ u.pending \in Nat
      BY <2>3, <2>7, <2>8
    <3> QED
      BY <2>7, <2>a, <2>c, <2>d, <3>1, <3>2 DEF StoreTyped
  <2>10. Within(u)
    BY <2>c, <2>d DEF Within
  <2>11. \A t \in Ticks(st) : Due(u)[t] = Due(r)[t]
    <3> SUFFICES ASSUME NEW t \in Ticks(st) PROVE Due(u)[t] = Due(r)[t]
      OBVIOUS
    <3>1. t \in Ticks(r) /\ t \in Ticks(u)
      BY <2>3, <2>c
    <3>2. r.bucket[t].lastApplied \in r.gcOffset .. NextEventIndex(r)
      BY <2>3, <3>1 DEF Within
    <3>3. CASE t \in s.active
      BY <2>4, <2>9, <2>10, <2>d, <3>1, <3>3, DueType
    <3>4. CASE t \notin s.active
      <4>1. u.bucket[t] = r.bucket[t] /\ given[t] = 0
        BY <2>d, <3>4
      <4>a. /\ u.dir = r.dir /\ u.gcOffset = r.gcOffset /\ u.ledger = Append(r.ledger, e)
            /\ StoreTyped(r)
        BY <2>3, <2>7
      <4>2. Due(u)[t] = Due(r)[t]
              + EntryShare(r.dir, r.bucket[t], Replayed(r, r.bucket[t]), e)
        BY <2>6, <3>1, <3>2, <4>1, <4>a, AppendedDue
      <4>3. Due(r)[t] \in Nat
        BY <2>3, <3>1, DueType DEF Amounts
      <4> QED
        BY <2>3, <2>4, <4>1, <4>2, <4>3
    <3> QED
      BY <3>3, <3>4
  <2>12. /\ Amounts(Due(r), Ticks(st)) /\ Amounts(Due(u), Ticks(st))
         /\ Amounts(Credit(r), Ticks(st)) /\ Amounts(Credit(u), Ticks(st))
    BY <2>3, <2>9, <2>10, <2>c, DueType
  <2>13. SumOver(Due(u), Ticks(st)) = SumOver(Due(r), Ticks(st))
    BY <2>3, <2>11, <2>12, SumSame
  <2>14. \A t \in Ticks(st) : Credit(u)[t] = Credit(r)[t] + given[t]
    <3> SUFFICES ASSUME NEW t \in Ticks(st) PROVE Credit(u)[t] = Credit(r)[t] + given[t]
      OBVIOUS
    <3>1. Credit(u)[t] = u.bucket[t].accrued /\ Credit(r)[t] = r.bucket[t].accrued
      BY <2>3, <2>c DEF Credit
    <3>2. Credit(r)[t] \in Nat
      BY <2>12 DEF Amounts
    <3> QED
      BY <2>d, <3>1, <3>2
  <2>e. SumOver(Credit(u), Ticks(st)) = SumOver(Credit(r), Ticks(st)) + SumOver(given, Ticks(st))
    BY <2>3, <2>5, <2>12, <2>14, SumPlus
  <2>15. StoreSound(u)
    BY <2>3, <2>5, <2>7, <2>9, <2>10, <2>13, <2>c, <2>e DEF StoreSound
  <2>16. StoreMoney(u) = StoreMoney(st) + s.allocated /\ StoreMoney(st) \in Nat
    <3>1. StoreMoney(r) = StoreMoney(st)
      BY <1>0 DEF SplitFacts
    <3> QED
      BY <2>3, <2>7, <2>8, <3>1 DEF StoreMoney
  <2>17. Keeps(st, u)
    <3> SUFFICES ASSUME NEW t \in Ticks(st)
                 PROVE  /\ t \in Ticks(u)
                        /\ Promised(st, t) \in Nat /\ Promised(u, t) \in Nat
                        /\ Promised(st, t) <= Promised(u, t)
      BY DEF Keeps
    <3>1. t \in Ticks(u) /\ t \in Ticks(r) /\ given[t] \in Nat
      BY <2>3, <2>5, <2>c DEF Amounts
    <3>2. /\ Promised(u, t) \in Nat /\ Promised(u, t) = Credit(u)[t] + Due(u)[t]
          /\ Promised(r, t) \in Nat /\ Promised(r, t) = Credit(r)[t] + Due(r)[t]
      BY <2>3, <2>9, <2>10, <3>1, PromisedNat DEF Credit
    <3>3. /\ Due(u)[t] = Due(r)[t] /\ Due(r)[t] \in Nat
          /\ Credit(u)[t] = Credit(r)[t] + given[t] /\ Credit(r)[t] \in Nat
      BY <2>11, <2>12, <2>14 DEF Amounts
    <3>4. Promised(r, t) = Promised(st, t)
      BY <1>0 DEF SplitFacts
    <3>6. Promised(u, t) = Promised(r, t) + given[t]
      BY <3>1, <3>2, <3>3
    <3> QED
      BY <3>1, <3>2, <3>4, <3>6
  <2>18. StoreMoney(u) + Residual(st, p, alloc) = StoreMoney(st) + alloc
    BY <2>2, <2>3, <2>16
  <2>19. Distributed(st, p, alloc, u)
    BY <2>2, <2>3, <2>7, <2>15, <2>17, <2>18, <2>c DEF Distributed
  <2> QED
    BY <2>19 DEF u
<1> QED
  BY <1>1, <1>2

(* One bucket is changed, added or removed while it is due nothing.        *)
Value(st, t) == IF t \in Ticks(st) THEN st.bucket[t].accrued ELSE 0

LEMMA OneBucket ==
  ASSUME NEW st, StoreSound(st), NEW t \in Nat, NEW u,
         t \in Ticks(st) => st.bucket[t].lastApplied = NextEventIndex(st),
         u = [f \in StoreFields |-> u[f]],
         u.dir = st.dir, u.ledger = st.ledger, u.gcOffset = st.gcOffset,
         u.pending = st.pending,
         u.bucket = [x \in Ticks(u) |-> u.bucket[x]],
         Ticks(u) \ {t} = Ticks(st) \ {t},
         \A x \in Ticks(st) \ {t} : u.bucket[x] = st.bucket[x],
         t \in Ticks(u) => /\ u.bucket[t] \in Bucket
                          /\ u.bucket[t].lastApplied = NextEventIndex(st),
         u.accruedTotal = (st.accruedTotal - Value(st, t)) + Value(u, t)
  PROVE  /\ StoreSound(u)
         /\ Value(st, t) \in Nat /\ Value(u, t) \in Nat
         /\ StoreMoney(st) \in Nat /\ StoreMoney(u) \in Nat
         /\ StoreMoney(u) + Value(st, t) = StoreMoney(st) + Value(u, t)
         /\ \A x \in Ticks(st) \ {t} :
              x \in Ticks(u) /\ Promised(u, x) \in Nat /\ Promised(u, x) = Promised(st, x)
         /\ t \in Ticks(st) => Promised(st, t) = Value(st, t)
         /\ t \in Ticks(u) => Promised(u, t) = Value(u, t)
<1> DEFINE S == Ticks(st) \ {t}
           rest == SumOver(Credit(st), S)
           due == SumOver(Due(st), S)
<1>1. StoreTyped(st) /\ Within(st) /\ S \subseteq Ticks(st) /\ S \subseteq Ticks(u)
  BY DEF StoreSound
<1>2. NextEventIndex(u) = NextEventIndex(st)
  BY DEF NextEventIndex
<1>3. /\ IsFiniteSet(Ticks(st)) /\ IsFiniteSet(S) /\ IsFiniteSet(Ticks(u))
      /\ Ticks(u) \subseteq Nat
  <2>1. IsFiniteSet(Ticks(st)) /\ IsFiniteSet(S) /\ Ticks(st) \subseteq Nat
    BY <1>1, FS_Subset DEF StoreTyped
  <2>2. Ticks(u) \subseteq S \cup {t} /\ IsFiniteSet(S \cup {t})
    BY <2>1, FS_AddElement
  <2>3. IsFiniteSet(Ticks(u))
    BY <2>2, FS_Subset
  <2> QED
    BY <2>1, <2>2, <2>3
<1>4. Amounts(Credit(st), Ticks(st)) /\ Amounts(Due(st), Ticks(st))
  BY <1>1, DueType
<1>5. /\ Value(st, t) \in Nat /\ rest \in Nat /\ due \in Nat
      /\ st.accruedTotal = Value(st, t) + rest /\ st.pending = due
      /\ t \in Ticks(st) => Promised(st, t) = Value(st, t)
  <2>0. Amounts(Credit(st), S) /\ Amounts(Due(st), S)
    BY <1>4 DEF Amounts
  <2>1. rest \in Nat /\ due \in Nat
    BY <1>3, <2>0, SumNat
  <2>a. /\ st.accruedTotal = SumOver(Credit(st), Ticks(st))
        /\ st.pending = SumOver(Due(st), Ticks(st))
    BY DEF StoreSound
  <2>2. CASE t \in Ticks(st)
    <3>1. Credit(st)[t] = Value(st, t) /\ Credit(st)[t] \in Nat /\ Due(st)[t] = 0
      BY <1>1, <1>4, <2>2, DueType DEF Credit, Value, Amounts
    <3>2. /\ SumOver(Credit(st), Ticks(st)) = Credit(st)[t] + rest
          /\ SumOver(Due(st), Ticks(st)) = Due(st)[t] + due
      BY <1>3, <1>4, <2>2, SumRemove
    <3>3. Promised(st, t) = Value(st, t) + 0
      BY <1>1, <2>2, <3>1, PromisedNat DEF Value
    <3> HIDE DEF rest, due
    <3> QED
      BY <2>1, <2>a, <3>1, <3>2, <3>3
  <2>3. CASE t \notin Ticks(st)
    <3>1. S = Ticks(st) /\ Value(st, t) = 0
      BY <2>3 DEF Value
    <3>2. rest = SumOver(Credit(st), Ticks(st)) /\ due = SumOver(Due(st), Ticks(st))
      BY <3>1
    <3> HIDE DEF rest, due
    <3> QED
      BY <2>1, <2>3, <2>a, <3>1, <3>2
  <2> QED
    BY <2>2, <2>3
<1> HIDE DEF rest, due
<1>6. Value(u, t) \in Nat
  BY DEF Value, Bucket
<1>7. u.accruedTotal = rest + Value(u, t) /\ u.accruedTotal \in Nat
  BY <1>5, <1>6
<1>8. StoreTyped(u)
  <2>1. \A x \in Ticks(u) : u.bucket[x] \in Bucket
    <3> SUFFICES ASSUME NEW x \in Ticks(u) PROVE u.bucket[x] \in Bucket
      OBVIOUS
    <3>1. CASE x = t
      BY <3>1
    <3>2. CASE x # t
      BY <1>1, <3>2 DEF StoreTyped
    <3> QED
      BY <3>1, <3>2
  <2>2. u.pending \in Nat /\ u.gcOffset \in Nat /\ u.dir \in Direction /\ u.ledger \in Seq(Entry)
    BY <1>1 DEF StoreTyped
  <2> QED
    BY <1>3, <1>7, <2>1, <2>2 DEF StoreTyped
<1>9. Within(u)
  <2> SUFFICES ASSUME NEW x \in Ticks(u)
               PROVE  u.bucket[x].lastApplied \in u.gcOffset .. NextEventIndex(u)
    BY DEF Within
  <2>1. CASE x = t
    <3>1. /\ NextEventIndex(u) \in Nat /\ u.gcOffset \in Nat /\ u.gcOffset <= NextEventIndex(u)
      BY <1>8, NextIndexNat DEF StoreTyped
    <3>2. u.bucket[x].lastApplied = NextEventIndex(u)
      BY <1>2, <2>1
    <3> QED
      BY <3>1, <3>2
  <2>2. CASE x # t
    BY <1>1, <1>2, <2>2 DEF Within
  <2> QED
    BY <2>1, <2>2
<1>10. Amounts(Credit(u), Ticks(u)) /\ Amounts(Due(u), Ticks(u))
  BY <1>8, <1>9, DueType
<1>11. \A x \in S : Credit(u)[x] = Credit(st)[x] /\ Due(u)[x] = Due(st)[x]
  <2> SUFFICES ASSUME NEW x \in S PROVE Credit(u)[x] = Credit(st)[x] /\ Due(u)[x] = Due(st)[x]
    OBVIOUS
  <2>1. x \in Ticks(u) /\ x \in Ticks(st) /\ u.bucket[x] = st.bucket[x]
    BY <1>1
  <2>2. Due(u)[x] = Due(st)[x]
    BY <2>1, SameLedgerSameDue
  <2> QED
    BY <2>1, <2>2 DEF Credit
<1>12. SumOver(Credit(u), S) = rest /\ SumOver(Due(u), S) = due
  <2>1. Amounts(Credit(st), S) /\ Amounts(Due(st), S)
    BY <1>4 DEF Amounts
  <2> HIDE DEF S
  <2> QED
    BY <1>3, <1>11, <2>1, SumSame DEF rest, due
<1>13. /\ u.accruedTotal = SumOver(Credit(u), Ticks(u))
       /\ u.pending = SumOver(Due(u), Ticks(u))
       /\ t \in Ticks(u) => Promised(u, t) = Value(u, t)
  <2>1. CASE t \in Ticks(u)
    <3>0. u.bucket[t].lastApplied = NextEventIndex(u)
      BY <1>2, <2>1
    <3>1. Credit(u)[t] = Value(u, t) /\ Due(u)[t] = 0
      BY <1>8, <1>9, <2>1, <3>0, DueType DEF Credit, Value
    <3>2. Ticks(u) \ {t} = S
      OBVIOUS
    <3>3. /\ SumOver(Credit(u), Ticks(u)) = Credit(u)[t] + SumOver(Credit(u), S)
          /\ SumOver(Due(u), Ticks(u)) = Due(u)[t] + SumOver(Due(u), S)
      BY <1>3, <1>10, <2>1, <3>2, SumRemove
    <3>4. Promised(u, t) = Value(u, t) + 0
      BY <1>8, <1>9, <2>1, <3>1, PromisedNat DEF Value
    <3>5. u.pending = 0 + due /\ u.accruedTotal = Value(u, t) + rest
      BY <1>5, <1>6, <1>7
    <3> QED
      BY <1>6, <1>12, <3>1, <3>3, <3>4, <3>5
  <2>2. CASE t \notin Ticks(u)
    <3>1. S = Ticks(u) /\ Value(u, t) = 0
      BY <2>2 DEF Value
    <3>2. SumOver(Credit(u), Ticks(u)) = rest /\ SumOver(Due(u), Ticks(u)) = due
      BY <1>12, <3>1
    <3>3. u.accruedTotal = rest + 0
      BY <1>7, <3>1
    <3> QED
      BY <1>5, <2>2, <3>2, <3>3
  <2> QED
    BY <2>1, <2>2
<1>14. StoreSound(u)
  BY <1>8, <1>9, <1>13 DEF StoreSound
<1>15. /\ StoreMoney(st) \in Nat /\ StoreMoney(u) \in Nat
       /\ StoreMoney(u) + Value(st, t) = StoreMoney(st) + Value(u, t)
  BY <1>5, <1>6, <1>7 DEF StoreMoney
<1>16. \A x \in S : x \in Ticks(u) /\ Promised(u, x) \in Nat /\ Promised(u, x) = Promised(st, x)
  <2> SUFFICES ASSUME NEW x \in S
               PROVE  x \in Ticks(u) /\ Promised(u, x) \in Nat /\ Promised(u, x) = Promised(st, x)
    OBVIOUS
  <2>1. x \in Ticks(u) /\ x \in Ticks(st) /\ u.bucket[x] = st.bucket[x] /\ Due(u)[x] = Due(st)[x]
    BY <1>1, <1>11
  <2>2. /\ Promised(u, x) \in Nat /\ Promised(u, x) = u.bucket[x].accrued + Due(u)[x]
        /\ Promised(st, x) = st.bucket[x].accrued + Due(st)[x]
    BY <1>1, <1>8, <1>9, <2>1, PromisedNat
  <2> QED
    BY <2>1, <2>2
<1> QED
  BY <1>5, <1>6, <1>13, <1>14, <1>15, <1>16

LEMMA NewStoreSound == ASSUME NEW d \in Direction PROVE StoreSound(NewStore(d))
<1> DEFINE st == NewStore(d)
<1>1. Ticks(st) = {} /\ IsFiniteSet({})
  BY FS_EmptySet DEF NewStore, Ticks
<1>2. StoreTyped(st)
  BY <1>1 DEF NewStore, Ticks, StoreTyped, StoreFields
<1>3. st.accruedTotal = 0 /\ st.pending = 0
  BY DEF NewStore
<1> HIDE DEF st
<1>4. SumOver(Credit(st), {}) = 0 /\ SumOver(Due(st), {}) = 0
  BY SumEmpty
<1>5. StoreSound(st)
  BY <1>1, <1>2, <1>3, <1>4 DEF StoreSound, Within
<1> QED
  BY <1>5 DEF st

(* What catching up, merging and redeeming have in common: every bucket    *)
(* that is not as it was has replayed the whole ledger.                    *)
Reworked(st, u) ==
  /\ u.ledger = st.ledger /\ u.gcOffset = st.gcOffset
  /\ \A t \in Ticks(u) : \/ t \in Ticks(st) /\ u.bucket[t] = st.bucket[t]
                         \/ u.bucket[t].lastApplied = NextEventIndex(u)

(* A series that is wiped out brings no money into the store and takes     *)
(* none: the bucket it joins is caught up first.                           *)
MergedInto(st, u) ==
  /\ StoreSound(u) /\ u.dir = st.dir /\ Reworked(st, u)
  /\ StoreMoney(u) = StoreMoney(st)
  /\ Keeps(st, u)

LEMMA InsertOrMergeSound ==
  ASSUME NEW st, StoreSound(st), NEW t \in Nat, NEW anchor \in Nat,
         NEW shares \in Nat, NEW notional \in Nat
  PROVE  MergedInto(st, InsertOrMerge(st, t, anchor, shares, notional))
<1> DEFINE u == InsertOrMerge(st, t, anchor, shares, notional)
<1>0. StoreTyped(st) /\ Within(st)
  BY DEF StoreSound
<1>1. CASE t \in Ticks(st)
  <2> DEFINE v == ApplyPending(st, {t})
             b == [v.bucket[t] EXCEPT !.shares = @ + shares, !.notional = @ + notional]
  <2>1. CaughtUpBy(st, {t}, v) /\ {t} \in SUBSET Ticks(st)
    BY <1>1, ApplyPendingSound
  <2>2. u = [v EXCEPT !.bucket[t].shares = @ + shares, !.bucket[t].notional = @ + notional]
    BY <1>1 DEF InsertOrMerge
  <2> HIDE DEF u, v
  <2>3. /\ v.bucket[t] \in Bucket
        /\ v.bucket[t].lastApplied = NextEventIndex(v)
        /\ \A x \in Ticks(st) : Promised(v, x) = Promised(st, x)
    BY <1>1, <2>1, CaughtUpBucket
  <2>4. /\ StoreSound(v) /\ StoreTyped(v) /\ Ticks(v) = Ticks(st) /\ v.dir = st.dir
        /\ StoreMoney(v) = StoreMoney(st)
    BY <2>1 DEF CaughtUpBy, StoreSound
  <2>5. /\ b \in Bucket /\ b.lastApplied = NextEventIndex(v)
        /\ b.accrued = v.bucket[t].accrued /\ b.accrued \in Nat
    <3>0. v.bucket[t].shares \in Nat /\ v.bucket[t].notional \in Nat
      BY <2>3 DEF Bucket
    <3>1. PICK n \in Nat : n = v.bucket[t].shares + shares
      BY <3>0
    <3>2. PICK m \in Nat : m = v.bucket[t].notional + notional
      BY <3>0
    <3>3. b = [v.bucket[t] EXCEPT !.shares = n, !.notional = m]
      BY <3>1, <3>2
    <3> QED
      BY <2>3, <3>3 DEF Bucket
  <2>6. /\ u = [f \in StoreFields |-> u[f]]
        /\ u.dir = v.dir /\ u.ledger = v.ledger /\ u.gcOffset = v.gcOffset
        /\ u.pending = v.pending /\ u.accruedTotal = v.accruedTotal
        /\ u.bucket = [x \in Ticks(v) |-> IF x = t THEN b ELSE v.bucket[x]]
    BY <1>1, <2>2, <2>4 DEF StoreTyped, StoreFields, Ticks
  <2> HIDE DEF b
  <2>7. /\ Ticks(u) = Ticks(v) /\ u.bucket = [x \in Ticks(u) |-> u.bucket[x]]
        /\ \A x \in Ticks(v) \ {t} : u.bucket[x] = v.bucket[x]
        /\ t \in Ticks(u) /\ u.bucket[t] = b
    BY <1>1, <2>4, <2>6 DEF Ticks
  <2>8. Value(u, t) = Value(v, t) /\ Value(v, t) \in Nat
    BY <2>5, <2>7 DEF Value
  <2>9. u.accruedTotal = (v.accruedTotal - Value(v, t)) + Value(u, t)
    BY <2>4, <2>6, <2>8 DEF StoreTyped
  <2>10. /\ StoreSound(u)
         /\ StoreMoney(u) \in Nat /\ StoreMoney(v) \in Nat
         /\ StoreMoney(u) + Value(v, t) = StoreMoney(v) + Value(u, t)
         /\ \A x \in Ticks(v) \ {t} : Promised(u, x) = Promised(v, x)
         /\ Promised(u, t) = Value(u, t) /\ Promised(v, t) = Value(v, t)
    BY <2>3, <2>4, <2>5, <2>6, <2>7, <2>9, OneBucket
  <2>11. StoreMoney(u) = StoreMoney(st)
    BY <2>4, <2>8, <2>10
  <2>12. Keeps(st, u)
    <3> SUFFICES ASSUME NEW x \in Ticks(st)
                 PROVE  /\ x \in Ticks(u)
                        /\ Promised(st, x) \in Nat /\ Promised(u, x) \in Nat
                        /\ Promised(st, x) <= Promised(u, x)
      BY DEF Keeps
    <3>1. Promised(u, x) = Promised(st, x)
      BY <2>3, <2>4, <2>8, <2>10
    <3>2. Promised(st, x) \in Nat
      BY <1>0, PromisedNat
    <3> QED
      BY <2>4, <2>7, <3>1, <3>2
  <2>13. Reworked(st, u)
    <3>1. v.ledger = st.ledger /\ v.gcOffset = st.gcOffset
          /\ \A x \in Ticks(st) \ {t} : v.bucket[x] = st.bucket[x]
      BY <2>1 DEF CaughtUpBy
    <3>2. NextEventIndex(u) = NextEventIndex(v)
      BY <2>6 DEF NextEventIndex
    <3> QED
      BY <2>4, <2>5, <2>6, <2>7, <3>1, <3>2 DEF Reworked
  <2> QED
    BY <2>4, <2>6, <2>10, <2>11, <2>12, <2>13 DEF u, MergedInto
<1>2. CASE t \notin Ticks(st)
  <2> DEFINE b == [anchor |-> anchor, shares |-> shares, notional |-> notional,
                   accrued |-> 0, lastApplied |-> NextEventIndex(st)]
  <2>1. u = [st EXCEPT !.bucket = [x \in Ticks(st) \cup {t} |-> IF x = t THEN b ELSE @[x]]]
    BY <1>2 DEF InsertOrMerge
  <2>2. b \in Bucket /\ b.lastApplied = NextEventIndex(st) /\ b.accrued = 0
    BY <1>0, NextIndexNat DEF Bucket
  <2> HIDE DEF u, b
  <2>3. /\ u = [f \in StoreFields |-> u[f]]
        /\ u.dir = st.dir /\ u.ledger = st.ledger /\ u.gcOffset = st.gcOffset
        /\ u.pending = st.pending /\ u.accruedTotal = st.accruedTotal
        /\ u.bucket = [x \in Ticks(st) \cup {t} |-> IF x = t THEN b ELSE st.bucket[x]]
    BY <1>0, <2>1 DEF StoreTyped, StoreFields
  <2>5. /\ Ticks(u) = {t} \cup Ticks(st) /\ u.bucket = [x \in Ticks(u) |-> u.bucket[x]]
        /\ u.bucket[t] = b
        /\ \A x \in Ticks(st) \ {t} : u.bucket[x] = st.bucket[x]
    BY <2>3 DEF Ticks
  <2>6. Value(u, t) = 0 /\ Value(st, t) = 0
    BY <1>2, <2>2, <2>5 DEF Value
  <2>7. u.accruedTotal = (st.accruedTotal - Value(st, t)) + Value(u, t)
    BY <1>0, <2>3, <2>6 DEF StoreTyped
  <2>8. Ticks(u) \ {t} = Ticks(st) \ {t}
    BY <2>5
  <2>9. u.bucket[t] \in Bucket /\ u.bucket[t].lastApplied = NextEventIndex(st)
    BY <2>2, <2>5
  <2>10. /\ StoreSound(u)
         /\ StoreMoney(u) \in Nat /\ StoreMoney(st) \in Nat
         /\ StoreMoney(u) + Value(st, t) = StoreMoney(st) + Value(u, t)
         /\ \A x \in Ticks(st) \ {t} :
               x \in Ticks(u) /\ Promised(u, x) \in Nat /\ Promised(u, x) = Promised(st, x)
    BY <1>2, <2>3, <2>5, <2>7, <2>8, <2>9, OneBucket
  <2>11. StoreMoney(u) = StoreMoney(st)
    BY <2>6, <2>10
  <2>12. Keeps(st, u)
    BY <1>2, <2>10 DEF Keeps
  <2>13. Reworked(st, u)
    BY <2>2, <2>3, <2>5 DEF Reworked, NextEventIndex
  <2> QED
    BY <2>3, <2>10, <2>11, <2>12, <2>13 DEF u, MergedInto
<1> QED
  BY <1>1, <1>2

(* Who redeems is paid out of what the bucket was credited with, and the   *)
(* other buckets notice nothing.                                           *)
Redeemed(st, t, u, out) ==
  /\ StoreSound(u) /\ u.dir = st.dir /\ Reworked(st, u)
  /\ out \in Nat
  /\ StoreMoney(u) + out = StoreMoney(st)
  /\ \A x \in Ticks(st) \ {t} : x \in Ticks(u) /\ Promised(u, x) = Promised(st, x)

LEMMA RedeemSound ==
  ASSUME NEW st, StoreSound(st), NEW t, NEW shares \in Nat, shares > 0,
         CanRedeem(st, t, shares)
  PROVE  Redeemed(st, t, Redeem(st, t, shares), Redeemable(st, t, shares))
<1> DEFINE u == Redeem(st, t, shares)
           out == Redeemable(st, t, shares)
           v == ApplyPending(st, {t})
           w == v.bucket[t]
           b == [w EXCEPT !.accrued = @ - out, !.shares = @ - shares,
                          !.notional = @ - MulDivFloor(@, shares, w.shares)]
<1>0. StoreTyped(st) /\ Within(st) /\ t \in Ticks(st) /\ t \in Nat
      /\ shares <= st.bucket[t].shares /\ st.bucket[t] \in Bucket
  BY DEF StoreSound, StoreTyped, CanRedeem
<1>1. CaughtUpBy(st, {t}, v) /\ {t} \in SUBSET Ticks(st)
  BY <1>0, ApplyPendingSound
<1>2. u = [v EXCEPT !.bucket = [x \in TicksKept(v, t, b) |-> IF x = t THEN b ELSE @[x]],
                    !.accruedTotal = @ - out]
  BY DEF Redeem
<1>3. out = MulDivFloor(w.accrued, shares, w.shares)
  BY DEF Redeemable
<1> HIDE DEF u, v, out
<1>4. /\ w \in Bucket
      /\ w.lastApplied = NextEventIndex(v)
      /\ w.shares = st.bucket[t].shares
      /\ \A x \in Ticks(st) : Promised(v, x) = Promised(st, x)
  BY <1>0, <1>1, CaughtUpBucket
<1>5. /\ StoreSound(v) /\ StoreTyped(v) /\ Ticks(v) = Ticks(st) /\ v.dir = st.dir
      /\ StoreMoney(v) = StoreMoney(st) /\ v.accruedTotal \in Nat
  BY <1>1 DEF CaughtUpBy, StoreSound, StoreTyped
<1> HIDE DEF w
<1>6. /\ w.accrued \in Nat /\ w.notional \in Nat /\ w.shares \in Nat \ {0}
      /\ shares <= w.shares
  BY <1>0, <1>4 DEF Bucket
<1>7. /\ out \in Nat /\ out <= w.accrued
      /\ MulDivFloor(w.notional, shares, w.shares) \in Nat
      /\ MulDivFloor(w.notional, shares, w.shares) <= w.notional
  BY <1>3, <1>6, FloorPart
<1>8. /\ b \in Bucket /\ b.lastApplied = NextEventIndex(v)
      /\ b.accrued \in Nat /\ b.accrued + out = w.accrued
  <2>1. PICK a, n, m \in Nat : /\ a = w.accrued - out /\ n = w.shares - shares
                               /\ m = w.notional - MulDivFloor(w.notional, shares, w.shares)
    BY <1>6, <1>7
  <2>2. b = [w EXCEPT !.accrued = a, !.shares = n, !.notional = m]
    BY <2>1
  <2>3. b \in Bucket /\ b.accrued = a /\ b.lastApplied = w.lastApplied
    BY <1>4, <2>2 DEF Bucket
  <2> QED
    BY <1>4, <1>6, <1>7, <2>1, <2>3
<1> HIDE DEF b
<1>9. /\ u = [f \in StoreFields |-> u[f]]
      /\ u.dir = v.dir /\ u.ledger = v.ledger /\ u.gcOffset = v.gcOffset
      /\ u.pending = v.pending /\ u.accruedTotal = v.accruedTotal - out
      /\ u.bucket = [x \in TicksKept(v, t, b) |-> IF x = t THEN b ELSE v.bucket[x]]
  BY <1>2, <1>5 DEF StoreTyped, StoreFields
<1>10. /\ Ticks(u) = TicksKept(v, t, b) /\ u.bucket = [x \in Ticks(u) |-> u.bucket[x]]
       /\ Ticks(u) = IF Spent(b) THEN Ticks(v) \ {t} ELSE Ticks(v)
  BY <1>9 DEF Ticks, TicksKept
<1>11. /\ Ticks(u) \ {t} = Ticks(v) \ {t}
       /\ \A x \in Ticks(v) \ {t} : u.bucket[x] = v.bucket[x]
       /\ t \in Ticks(u) => u.bucket[t] = b
       /\ t \notin Ticks(u) => b.accrued = 0
       /\ t \in Ticks(v)
  BY <1>0, <1>5, <1>9, <1>10 DEF Spent
<1>12. Value(u, t) = b.accrued /\ Value(v, t) = w.accrued
  BY <1>11 DEF Value, w
<1>13. u.accruedTotal = (v.accruedTotal - Value(v, t)) + Value(u, t)
  BY <1>5, <1>6, <1>7, <1>8, <1>9, <1>12
<1>14. v.bucket[t].lastApplied = NextEventIndex(v)
       /\ (t \in Ticks(u) => u.bucket[t] \in Bucket /\ u.bucket[t].lastApplied = NextEventIndex(v))
  BY <1>4, <1>8, <1>11 DEF w
<1>15. /\ StoreSound(u)
       /\ StoreMoney(u) \in Nat /\ StoreMoney(v) \in Nat
       /\ StoreMoney(u) + Value(v, t) = StoreMoney(v) + Value(u, t)
       /\ \A x \in Ticks(v) \ {t} :
             x \in Ticks(u) /\ Promised(u, x) \in Nat /\ Promised(u, x) = Promised(v, x)
  BY <1>0, <1>5, <1>9, <1>10, <1>11, <1>13, <1>14, OneBucket
<1>16. StoreMoney(u) + out = StoreMoney(st)
  BY <1>5, <1>6, <1>7, <1>8, <1>12, <1>15
<1>17. \A x \in Ticks(st) \ {t} : x \in Ticks(u) /\ Promised(u, x) = Promised(st, x)
  BY <1>4, <1>5, <1>15
<1>18. Reworked(st, u)
  <2>1. v.ledger = st.ledger /\ v.gcOffset = st.gcOffset
        /\ \A x \in Ticks(st) \ {t} : v.bucket[x] = st.bucket[x]
    BY <1>1 DEF CaughtUpBy
  <2>2. NextEventIndex(u) = NextEventIndex(v)
    BY <1>9 DEF NextEventIndex
  <2>3. \A x \in Ticks(u) \ {t} : x \in Ticks(st) /\ u.bucket[x] = st.bucket[x]
    BY <1>5, <1>11, <2>1
  <2>4. t \in Ticks(u) => u.bucket[t].lastApplied = NextEventIndex(u)
    BY <1>8, <1>11, <2>2
  <2> QED
    BY <1>9, <2>1, <2>3, <2>4 DEF Reworked
<1> QED
  BY <1>5, <1>7, <1>9, <1>15, <1>16, <1>17, <1>18 DEF u, out, Redeemed

(***************************************************************************)
(* Shares.  Only a merge brings shares into a bucket and only a redemption *)
(* takes them out.                                                         *)
(***************************************************************************)
HeldIn(st, k) == IF k \in Ticks(st) THEN st.bucket[k].shares ELSE 0

SameShares(st, u) ==
  /\ Ticks(u) = Ticks(st)
  /\ \A t \in Ticks(st) : u.bucket[t].shares = st.bucket[t].shares

LEMMA SameSharesHeld ==
  ASSUME NEW st, NEW u, SameShares(st, u), NEW k PROVE HeldIn(u, k) = HeldIn(st, k)
BY DEF SameShares, HeldIn

LEMMA ApplyPendingShares ==
  ASSUME NEW st, StoreSound(st), NEW T \in SUBSET Ticks(st)
  PROVE  SameShares(st, ApplyPending(st, T))
<1> DEFINE u == ApplyPending(st, T)
<1>1. CaughtUpBy(st, T, u)
  BY ApplyPendingSound
<1> HIDE DEF u
<1>2. Ticks(u) = Ticks(st)
  BY <1>1 DEF CaughtUpBy
<1>3. ASSUME NEW t \in Ticks(st) PROVE u.bucket[t].shares = st.bucket[t].shares
  BY ONLY StoreSound(st), T \in SUBSET Ticks(st), <1>1, <1>3, CaughtUpBucket
<1>4. SameShares(st, u)
  BY <1>2, <1>3 DEF SameShares
<1> QED
  BY <1>4 DEF u

LEMMA SplitShares ==
  ASSUME NEW st, StoreSound(st), NEW p \in Nat, NEW alloc \in Nat
  PROVE  SameShares(st, Split(st, p, alloc).ready)
<1> DEFINE room == WithRoom(st)
           T == ActivatedTicks(st, p)
<1>1. Split(st, p, alloc).ready = ApplyPending(room, T)
  BY DEF Split, CaughtUp
<1>2. Compacted(st, room) /\ StoreSound(room)
  BY WithRoomSound DEF Compacted
<1>3. Ticks(room) = Ticks(st) /\ room.bucket = st.bucket
  BY <1>2 DEF Compacted, Ticks
<1>4. T \in SUBSET Ticks(room)
  BY <1>3 DEF ActivatedTicks
<1> HIDE DEF room, T
<1>5. SameShares(room, ApplyPending(room, T))
  BY <1>2, <1>4, ApplyPendingShares
<1> QED
  BY <1>1, <1>3, <1>5 DEF SameShares

LEMMA DistributeShares ==
  ASSUME NEW st, StoreSound(st), NEW p \in Nat, NEW alloc \in Nat
  PROVE  /\ SameShares(st, DistributeLazy(st, p, alloc))
         /\ SameShares(st, DistributeEager(st, p, alloc))
<1> DEFINE s == Split(st, p, alloc)
           r == s.ready
           lazy == DistributeLazy(st, p, alloc)
           eager == DistributeEager(st, p, alloc)
<1>1. SameShares(st, r) /\ SplitFacts(st, p, alloc, s)
  BY SplitShares, SplitSound
<1>2. StoreTyped(r) /\ Ticks(r) = Ticks(st)
  BY <1>1 DEF SplitFacts, StoreSound
<1>3. lazy.bucket = r.bucket
  <2>1. lazy = IF s.total = 0 THEN r
               ELSE [r EXCEPT !.pending = @ + s.allocated,
                              !.ledger = Append(@, NewEntry(p, alloc, s))]
    BY DEF DistributeLazy
  <2> HIDE DEF s, r, lazy
  <2> QED
    BY <1>2, <2>1 DEF StoreTyped, StoreFields
<1>4. SameShares(st, lazy)
  <2> HIDE DEF lazy, r
  <2> QED
    BY <1>1, <1>3 DEF SameShares, Ticks
<1>5. SameShares(st, eager)
  <2>1. CASE s.total = 0
    BY <1>1, <2>1 DEF DistributeEager
  <2>2. CASE s.total # 0
    <3> DEFINE n == NextEventIndex(r) + 1
               B == [t \in Ticks(st) |->
                       IF t \in s.active THEN Credited(r.bucket[t], s.share[t], n)
                       ELSE r.bucket[t]]
    <3>1. eager = [r EXCEPT !.bucket = B, !.accruedTotal = @ + s.allocated,
                            !.ledger = Append(@, NewEntry(p, alloc, s))]
      BY <2>2 DEF DistributeEager
    <3> HIDE DEF s, r, eager, n
    <3>2. eager.bucket = B
      <4> HIDE DEF B
      <4> QED
        BY <1>2, <3>1 DEF StoreTyped, StoreFields
    <3>3. Ticks(eager) = Ticks(st) /\ \A t \in Ticks(st) : eager.bucket[t] = B[t]
      BY <3>2 DEF Ticks
    <3>4. ASSUME NEW t \in Ticks(st) PROVE B[t].shares = r.bucket[t].shares
      <4>1. r.bucket[t] \in Bucket
        BY <1>2 DEF StoreTyped
      <4>2. \A b \in Bucket : \A x, y : Credited(b, x, y).shares = b.shares
        BY DEF Credited, Bucket
      <4> QED
        BY <4>1, <4>2
    <3> QED
      BY <1>1, <3>3, <3>4 DEF SameShares
  <2> QED
    BY <2>1, <2>2
<1> QED
  BY <1>4, <1>5

LEMMA InsertShares ==
  ASSUME NEW st, StoreSound(st), NEW t, NEW anchor, NEW shares \in Nat, NEW notional, NEW k
  PROVE  HeldIn(InsertOrMerge(st, t, anchor, shares, notional), k)
           = HeldIn(st, k) + (IF k = t THEN shares ELSE 0)
<1> DEFINE u == InsertOrMerge(st, t, anchor, shares, notional)
<1>0. StoreTyped(st)
  BY DEF StoreSound
<1>1. HeldIn(st, k) \in Nat
  BY <1>0 DEF HeldIn, StoreTyped, Bucket
<1>2. CASE t \in Ticks(st)
  <2> DEFINE v == ApplyPending(st, {t})
             b == [v.bucket[t] EXCEPT !.shares = @ + shares, !.notional = @ + notional]
  <2>1. u = [v EXCEPT !.bucket[t].shares = @ + shares, !.bucket[t].notional = @ + notional]
    BY <1>2 DEF InsertOrMerge
  <2>2. {t} \in SUBSET Ticks(st)
    BY <1>2
  <2>3. SameShares(st, v) /\ CaughtUpBy(st, {t}, v)
    BY <2>2, ApplyPendingShares, ApplyPendingSound
  <2>4. StoreTyped(v) /\ Ticks(v) = Ticks(st)
    BY <2>3 DEF CaughtUpBy, StoreSound
  <2> HIDE DEF u, v
  <2>5. u.bucket = [v.bucket EXCEPT ![t] = b]
    BY <2>1, <2>4 DEF StoreTyped, StoreFields
  <2>6. Ticks(u) = Ticks(st) /\ u.bucket[t] = b /\ \A x \in Ticks(st) \ {t} : u.bucket[x] = v.bucket[x]
    <3> HIDE DEF b
    <3> QED
      BY <1>2, <2>4, <2>5 DEF Ticks, StoreTyped
  <2>7. b.shares = st.bucket[t].shares + shares
    <3>1. v.bucket[t] \in Bucket /\ v.bucket[t].shares = st.bucket[t].shares
      BY <1>2, <2>3, <2>4 DEF StoreTyped, SameShares
    <3> QED
      BY <3>1 DEF Bucket
  <2> HIDE DEF b
  <2> QED
    BY <1>1, <1>2, <2>3, <2>6, <2>7 DEF HeldIn, SameShares, u
<1>3. CASE t \notin Ticks(st)
  <2> DEFINE fresh == [anchor |-> anchor, shares |-> shares, notional |-> notional,
                       accrued |-> 0, lastApplied |-> NextEventIndex(st)]
             B == [x \in Ticks(st) \cup {t} |-> IF x = t THEN fresh ELSE st.bucket[x]]
  <2>1. u = [st EXCEPT !.bucket = B]
    BY <1>3 DEF InsertOrMerge
  <2> HIDE DEF u, fresh
  <2>2. u.bucket = B
    <3> HIDE DEF B
    <3> QED
      BY <1>0, <2>1 DEF StoreTyped, StoreFields
  <2>3. /\ Ticks(u) = Ticks(st) \cup {t} /\ u.bucket[t] = fresh
        /\ \A x \in Ticks(st) : u.bucket[x] = st.bucket[x]
    BY <1>3, <2>2 DEF Ticks
  <2>4. fresh.shares = shares
    BY DEF fresh
  <2> HIDE DEF B
  <2> QED
    BY <1>1, <1>3, <2>3, <2>4 DEF HeldIn, u
<1> QED
  BY <1>2, <1>3

LEMMA RedeemShares ==
  ASSUME NEW st, StoreSound(st), NEW t, NEW shares \in Nat, CanRedeem(st, t, shares), NEW k
  PROVE  /\ HeldIn(Redeem(st, t, shares), k) + (IF k = t THEN shares ELSE 0) = HeldIn(st, k)
         /\ HeldIn(Redeem(st, t, shares), k) \in Nat
         /\ Redeemable(st, t, shares)
              = MulDivFloor(Promised(st, t), shares, st.bucket[t].shares)
<1> DEFINE v == ApplyPending(st, {t})
           out == Redeemable(st, t, shares)
           w == v.bucket[t]
           b == [w EXCEPT !.accrued = @ - out, !.shares = @ - shares,
                          !.notional = @ - MulDivFloor(@, shares, w.shares)]
           B == [x \in TicksKept(v, t, b) |-> IF x = t THEN b ELSE v.bucket[x]]
           u == Redeem(st, t, shares)
<1>0. StoreTyped(st) /\ t \in Ticks(st) /\ shares <= st.bucket[t].shares /\ {t} \in SUBSET Ticks(st)
  BY DEF StoreSound, CanRedeem
<1>1. SameShares(st, v) /\ CaughtUpBy(st, {t}, v)
  BY <1>0, ApplyPendingShares, ApplyPendingSound
<1>2. u = [v EXCEPT !.bucket = B, !.accruedTotal = @ - out]
  BY DEF Redeem
<1>3. out = MulDivFloor(w.accrued, shares, w.shares)
  BY DEF Redeemable
<1> HIDE DEF v, out, u
<1>4. StoreTyped(v) /\ Ticks(v) = Ticks(st)
  BY <1>1 DEF CaughtUpBy, StoreSound
<1>5. w \in Bucket /\ w.shares = st.bucket[t].shares /\ w.accrued = Promised(st, t)
  <2>1. w \in Bucket /\ w.shares = st.bucket[t].shares
    BY <1>0, <1>1, <1>4 DEF StoreTyped, SameShares
  <2>2. st.bucket[t] \in Bucket
    BY <1>0 DEF StoreTyped
  <2>3. w = [st.bucket[t] EXCEPT !.accrued = Replayed(st, st.bucket[t]),
                                 !.lastApplied = NextEventIndex(st)]
    BY <1>1 DEF CaughtUpBy
  <2> HIDE DEF w
  <2>4. w.accrued = Replayed(st, st.bucket[t])
    BY <2>2, <2>3 DEF Bucket
  <2> QED
    BY <2>1, <2>4 DEF Promised
<1> HIDE DEF w
<1>6. b.shares = w.shares - shares
  BY <1>5 DEF Bucket
<1> HIDE DEF b
<1>7. u.bucket = B
  <2> HIDE DEF B
  <2> QED
    BY <1>2, <1>4 DEF StoreTyped, StoreFields
<1>8. /\ Ticks(u) = TicksKept(v, t, b)
      /\ \A x \in TicksKept(v, t, b) : u.bucket[x] = IF x = t THEN b ELSE v.bucket[x]
  BY <1>7 DEF Ticks
<1>9. /\ t \notin TicksKept(v, t, b) => b.shares = 0
      /\ \A x \in Ticks(st) \ {t} : x \in TicksKept(v, t, b)
      /\ TicksKept(v, t, b) \subseteq Ticks(st)
  BY <1>0, <1>4 DEF TicksKept, Spent
<1>10. HeldIn(u, k) + (IF k = t THEN shares ELSE 0) = HeldIn(st, k) /\ HeldIn(u, k) \in Nat
  <2>1. PICK n \in Nat : n = st.bucket[t].shares /\ shares <= n /\ b.shares = n - shares
    BY <1>0, <1>5, <1>6 DEF Bucket
  <2>2. CASE k = t
    <3>1. HeldIn(st, k) = n
      BY <1>0, <2>1, <2>2 DEF HeldIn
    <3>2. HeldIn(u, k) = n - shares
      <4>1. CASE t \in TicksKept(v, t, b)
        BY <1>8, <2>1, <2>2, <4>1 DEF HeldIn
      <4>2. CASE t \notin TicksKept(v, t, b)
        BY <1>8, <1>9, <2>1, <2>2, <4>2 DEF HeldIn
      <4> QED
        BY <4>1, <4>2
    <3> QED
      BY <2>1, <2>2, <3>1, <3>2
  <2>3. CASE k # t
    <3>1. HeldIn(u, k) = HeldIn(v, k)
      BY <1>4, <1>8, <1>9, <2>3 DEF HeldIn
    <3>2. HeldIn(v, k) = HeldIn(st, k)
      BY <1>1, SameSharesHeld
    <3>3. HeldIn(st, k) \in Nat
      BY <1>0 DEF HeldIn, StoreTyped, Bucket
    <3> QED
      BY <2>3, <3>1, <3>2, <3>3
  <2> QED
    BY <2>2, <2>3
<1> QED
  BY <1>3, <1>5, <1>10 DEF u, out

(* The shares a store holds, all together.                                 *)
LEMMA HeldSum ==
  ASSUME NEW st, StoreTyped(st), NEW T, IsFiniteSet(T), Ticks(st) \in SUBSET T,
         NEW f, \A k \in T : f[k] = HeldIn(st, k)
  PROVE  /\ TotalRecoveryShares(st) = SumOver(f, T) /\ Amounts(f, T)
         /\ TotalRecoveryShares(st) \in Nat
<1> DEFINE g == [t \in Ticks(st) |-> st.bucket[t].shares]
           R == Ticks(st)
<1>1. \A t \in R : st.bucket[t].shares \in Nat
  BY DEF StoreTyped, Bucket
<1>2. Amounts(g, R) /\ \A k \in T : f[k] = IF k \in R THEN g[k] ELSE 0
  BY <1>1 DEF Amounts, HeldIn
<1>3. TotalRecoveryShares(st) = SumOver(g, R)
  BY DEF TotalRecoveryShares
<1> HIDE DEF g, R
<1>4. Amounts(f, T) /\ SumOver(f, T) = SumOver(g, R) /\ SumOver(g, R) \in Nat
  BY <1>2, SumOfPart DEF R
<1> QED
  BY <1>3, <1>4

LEMMA RedeemTotal ==
  ASSUME NEW st, StoreSound(st), NEW t, NEW shares \in Nat, shares > 0,
         CanRedeem(st, t, shares)
  PROVE  /\ TotalRecoveryShares(Redeem(st, t, shares)) + shares = TotalRecoveryShares(st)
         /\ TotalRecoveryShares(Redeem(st, t, shares)) \in Nat
<1> DEFINE u == Redeem(st, t, shares)
           v == ApplyPending(st, {t})
           out == Redeemable(st, t, shares)
           b == [v.bucket[t] EXCEPT !.accrued = @ - out, !.shares = @ - shares,
                                    !.notional = @ - MulDivFloor(@, shares, v.bucket[t].shares)]
           B == [x \in TicksKept(v, t, b) |-> IF x = t THEN b ELSE v.bucket[x]]
           T == Ticks(st)
<1>0. /\ StoreTyped(st) /\ t \in T /\ {t} \in SUBSET T /\ IsFiniteSet(T)
  BY DEF StoreSound, StoreTyped, CanRedeem
<1>1. CaughtUpBy(st, {t}, v)
  BY <1>0, ApplyPendingSound
<1>3. u = [v EXCEPT !.bucket = B, !.accruedTotal = @ - out]
  BY DEF Redeem
<1>4. StoreSound(u)
  BY RedeemSound DEF Redeemed
<1> HIDE DEF u, v, out, b, B
<1>5. StoreTyped(v) /\ Ticks(v) = T
  BY <1>1 DEF CaughtUpBy, StoreSound, StoreTyped
<1>6. u.bucket = B
  BY <1>3, <1>5 DEF StoreTyped, StoreFields
<1>9. Ticks(u) \in SUBSET T /\ StoreTyped(u)
  <2>1. Ticks(u) = TicksKept(v, t, b)
    BY <1>6 DEF Ticks, B
  <2> QED
    BY <1>4, <1>5, <2>1 DEF TicksKept, StoreSound
<1> DEFINE f == [k \in T |-> HeldIn(st, k)]
           g == [k \in T |-> HeldIn(u, k)]
           h == [k \in T |-> IF k = t THEN shares ELSE 0]
           one == [k \in {t} |-> shares]
<1>10. /\ TotalRecoveryShares(st) = SumOver(f, T) /\ Amounts(f, T)
       /\ TotalRecoveryShares(st) \in Nat
  <2>1. \A k \in T : f[k] = HeldIn(st, k)
    OBVIOUS
  <2>2. Ticks(st) \in SUBSET T
    OBVIOUS
  <2> HIDE DEF f, T
  <2> QED
    BY <1>0, <2>1, <2>2, HeldSum
<1>11. /\ TotalRecoveryShares(u) = SumOver(g, T) /\ Amounts(g, T)
       /\ TotalRecoveryShares(u) \in Nat
  <2>1. \A k \in T : g[k] = HeldIn(u, k)
    OBVIOUS
  <2> HIDE DEF g, T
  <2> QED
    BY <1>0, <1>9, <2>1, HeldSum
<1>12. SumOver(h, T) = shares /\ Amounts(h, T)
  <2>1. Amounts(one, {t}) /\ one[t] = shares
    BY DEF Amounts
  <2>2. \A k \in T : h[k] = IF k \in {t} THEN one[k] ELSE 0
    OBVIOUS
  <2> HIDE DEF h, one, T
  <2>3. Amounts(h, T) /\ SumOver(h, T) = SumOver(one, {t})
    BY <1>0, <2>1, <2>2, SumOfPart
  <2>4. SumOver(one, {}) = 0 /\ IsFiniteSet({}) /\ {} \cup {t} = {t} /\ t \notin {}
    BY SumEmpty, FS_EmptySet
  <2>5. SumOver(one, {} \cup {t}) = one[t] + SumOver(one, {})
    BY <2>1, <2>4, SumAdd
  <2> QED
    BY <2>1, <2>3, <2>4, <2>5
<1>13. \A k \in T : f[k] = g[k] + h[k]
  <2> TAKE k \in T
  <2>1. HeldIn(u, k) + (IF k = t THEN shares ELSE 0) = HeldIn(st, k)
    BY RedeemShares DEF u
  <2> QED
    BY <2>1
<1> HIDE DEF f, g, h, T
<1>14. SumOver(f, T) = SumOver(g, T) + SumOver(h, T)
  BY <1>0, <1>11, <1>12, <1>13, SumPlus
<1> QED
  BY <1>10, <1>11, <1>12, <1>14 DEF u

(* A redeemer takes out of the bucket exactly what is paid.                *)
LEMMA RedeemPromise ==
  ASSUME NEW st, StoreSound(st), NEW t, NEW shares \in Nat, shares > 0,
         CanRedeem(st, t, shares), t \in Ticks(Redeem(st, t, shares))
  PROVE  /\ Promised(Redeem(st, t, shares), t) + Redeemable(st, t, shares) = Promised(st, t)
         /\ Promised(Redeem(st, t, shares), t) \in Nat
<1> DEFINE u == Redeem(st, t, shares)
           v == ApplyPending(st, {t})
           out == Redeemable(st, t, shares)
           w == v.bucket[t]
           b == [w EXCEPT !.accrued = @ - out, !.shares = @ - shares,
                          !.notional = @ - MulDivFloor(@, shares, w.shares)]
           B == [x \in TicksKept(v, t, b) |-> IF x = t THEN b ELSE v.bucket[x]]
<1>0. StoreTyped(st) /\ Within(st) /\ t \in Ticks(st) /\ {t} \in SUBSET Ticks(st)
  BY DEF StoreSound, CanRedeem
<1>1. CaughtUpBy(st, {t}, v)
  BY <1>0, ApplyPendingSound
<1>2. u = [v EXCEPT !.bucket = B, !.accruedTotal = @ - out]
  BY DEF Redeem
<1>3. StoreSound(u) /\ t \in Ticks(u)
  BY RedeemSound DEF Redeemed
<1> HIDE DEF u, v, out, B
<1>4. /\ w \in Bucket /\ w.lastApplied = NextEventIndex(v)
      /\ Promised(v, t) = Promised(st, t)
  BY <1>0, <1>1, CaughtUpBucket
<1>5. StoreTyped(v) /\ Within(v) /\ t \in Ticks(v)
  BY <1>0, <1>1 DEF CaughtUpBy, StoreSound
<1>6. Promised(v, t) = w.accrued + Due(v)[t] /\ Due(v)[t] = 0 /\ w.accrued \in Nat
  BY <1>4, <1>5, DueType DEF Promised, Bucket
<1>7. u.bucket = B /\ u.ledger = v.ledger /\ u.gcOffset = v.gcOffset
  BY <1>2, <1>5 DEF StoreTyped, StoreFields
<1>8. u.bucket[t] = b
  BY <1>3, <1>7 DEF Ticks, B
<1>9. b.accrued = w.accrued - out /\ b.lastApplied = w.lastApplied
  <2> HIDE DEF w
  <2> QED
    BY <1>4 DEF Bucket
<1> HIDE DEF b, w
<1>10. NextEventIndex(u) = NextEventIndex(v)
  BY <1>7 DEF NextEventIndex
<1>11. Promised(u, t) = b.accrued + Due(u)[t] /\ Due(u)[t] = 0 /\ Promised(u, t) \in Nat
  BY <1>3, <1>4, <1>8, <1>9, <1>10, DueType DEF Promised, StoreSound
<1>12. out \in Nat
  BY RedeemSound DEF Redeemed, out
<1>13. b.accrued \in Nat
  BY <1>3, <1>8 DEF StoreSound, StoreTyped, Bucket
<1> QED
  BY <1>4, <1>6, <1>9, <1>11, <1>12, <1>13 DEF u, out

(* Who stays has at least as much of what is left: the leaver's part was   *)
(* floored.                                                                *)
LEMMA FloorKept ==
  ASSUME NEW x \in Nat, NEW y \in Nat, NEW z \in Nat, NEW w \in Nat, NEW v \in Nat,
         z < y, v <= x, v * y <= x * z
  PROVE  /\ MulDivFloor(x, w, y) \in Nat /\ MulDivFloor(x - v, w, y - z) \in Nat
         /\ MulDivFloor(x, w, y) <= MulDivFloor(x - v, w, y - z)
<1> DEFINE q == MulDivFloor(x, w, y)
           r == MulDivFloor(x - v, w, y - z)
<1>1. PICK c \in Nat : c = y - z /\ c > 0 /\ y = c + z
  OBVIOUS
<1>2. PICK l \in Nat : l = x - v /\ x = l + v
  OBVIOUS
<1>3. y > 0
  BY <1>1
<1>4. q \in Nat /\ q * y <= x * w
  BY <1>3 DEF MulDivFloor
<1>5. r \in Nat /\ l * w < (r + 1) * c
  BY <1>1, <1>2 DEF MulDivFloor
<1> HIDE DEF q, r
<1>6. x * c <= l * y
  <2>1. x * y = l * y + v * y
    BY <1>2
  <2>2. x * y = x * c + x * z
    BY <1>1
  <2> QED
    BY <2>1, <2>2
<1>7. q * c <= l * w
  <2>1. (q * y) * c <= (x * w) * c
    BY <1>1, <1>4
  <2>2. (x * c) * w <= (l * y) * w
    BY <1>1, <1>6
  <2>3. (x * w) * c = (x * c) * w /\ (l * y) * w = (l * w) * y /\ (q * y) * c = (q * c) * y
    BY <1>4
  <2>4. PICK m, n \in Nat : m = q * c /\ n = l * w
    BY <1>4
  <2>5. m * y <= n * y
    BY <1>4, <2>1, <2>2, <2>3, <2>4
  <2>6. m <= n
    BY <1>3, <2>5
  <2> QED
    BY <2>4, <2>6
<1>8. q * c < (r + 1) * c
  BY <1>4, <1>5, <1>7
<1>9. q < r + 1
  BY <1>1, <1>4, <1>5, <1>8
<1> QED
  BY <1>4, <1>5, <1>9 DEF q, r

(* So a redemption never lowers what another holder would be paid.         *)
LEMMA RedeemKeepsOthers ==
  ASSUME NEW st, StoreSound(st), NEW t, NEW shares \in Nat, shares > 0, CanRedeem(st, t, shares),
         NEW k, NEW w \in Nat, w > 0, w + (IF k = t THEN shares ELSE 0) <= HeldIn(st, k)
  PROVE  /\ Redeemable(st, k, w) \in Nat /\ Redeemable(Redeem(st, t, shares), k, w) \in Nat
         /\ Redeemable(st, k, w) <= Redeemable(Redeem(st, t, shares), k, w)
<1> DEFINE u == Redeem(st, t, shares)
           out == Redeemable(st, t, shares)
<1>1. Redeemed(st, t, u, out)
  BY RedeemSound
<1>2. StoreTyped(st) /\ Within(st) /\ StoreSound(u) /\ StoreTyped(u) /\ Within(u)
  BY <1>1 DEF Redeemed, StoreSound
<1>3. HeldIn(u, k) + (IF k = t THEN shares ELSE 0) = HeldIn(st, k) /\ HeldIn(u, k) \in Nat
  BY RedeemShares
<1>4. out = MulDivFloor(Promised(st, t), shares, st.bucket[t].shares)
  BY RedeemShares
<1> HIDE DEF u, out
<1>5. HeldIn(st, k) \in Nat
  BY <1>2 DEF HeldIn, StoreTyped, Bucket
<1>6. PICK y, y1, e \in Nat :
        /\ y = HeldIn(st, k) /\ y1 = HeldIn(u, k) /\ e = IF k = t THEN shares ELSE 0
        /\ y1 + e = y /\ w <= y1 /\ y1 > 0 /\ y > 0
  BY <1>3, <1>5
<1>7. /\ k \in Ticks(st) /\ st.bucket[k].shares = y /\ CanRedeem(st, k, w)
      /\ k \in Ticks(u) /\ u.bucket[k].shares = y1 /\ CanRedeem(u, k, w)
  BY <1>6 DEF HeldIn, CanRedeem
<1>8. PICK x, x1 \in Nat : x = Promised(st, k) /\ x1 = Promised(u, k)
  BY <1>2, <1>7, PromisedNat
<1>9. Redeemable(st, k, w) = MulDivFloor(x, w, y) /\ Redeemable(u, k, w) = MulDivFloor(x1, w, y1)
  BY <1>2, <1>7, <1>8, RedeemShares
<1>10. MulDivFloor(x, w, y) \in Nat /\ MulDivFloor(x1, w, y1) \in Nat
  <2>1. y \in Nat \ {0} /\ y1 \in Nat \ {0}
    BY <1>6
  <2>2. w <= y
    BY <1>6
  <2> QED
    BY <1>6, <1>8, <2>1, <2>2, FloorPart
<1>11. CASE k # t
  <2>1. x1 = x /\ y1 = y
    BY <1>1, <1>6, <1>7, <1>8, <1>11 DEF Redeemed
  <2> QED
    BY <1>9, <1>10, <2>1 DEF u
<1>12. CASE k = t
  <2>1. x1 + out = x /\ out \in Nat
    BY <1>1, <1>7, <1>8, <1>12, RedeemPromise DEF u, out, Redeemed
  <2>2. out = MulDivFloor(x, shares, y) /\ out * y <= x * shares
    <3>1. y \in Nat \ {0} /\ shares <= y
      BY <1>6, <1>12
    <3>2. out = MulDivFloor(x, shares, y)
      BY <1>4, <1>7, <1>8, <1>12
    <3> QED
      BY <1>8, <3>1, <3>2, FloorPart
  <2>3. y1 = y - shares /\ x1 = x - out /\ shares < y /\ out <= x
    BY <1>6, <1>12, <2>1
  <2>4. MulDivFloor(x, w, y) <= MulDivFloor(x - out, w, y - shares)
    BY <1>6, <1>8, <2>1, <2>2, <2>3, FloorKept
  <2> QED
    BY <1>9, <1>10, <2>3, <2>4 DEF u
<1> QED
  BY <1>11, <1>12

-----------------------------------------------------------------------------
(***************************************************************************)
(* The ledger covers what it owes.  The store's own check compares what is *)
(* in flight with what the live entries gave, and a compaction drops       *)
(* entries: so the stronger fact is needed that after any event, what the  *)
(* later entries will still credit is no more than what they gave.         *)
(***************************************************************************)
Slice(st, from, to) == [i \in 1 .. (to - from) |-> st.ledger[(from - st.gcOffset) + i]]

(* A bucket's value once it has replayed everything up to event w.         *)
ReplayedTo(st, b, w) ==
  IF w <= b.lastApplied THEN b.accrued ELSE Replay(st.dir, b, Slice(st, b.lastApplied, w))

(* What the events after w will still credit to each bucket, and what they *)
(* gave when they were recorded.                                           *)
Later(st, w) == [t \in Ticks(st) |-> Promised(st, t) - ReplayedTo(st, st.bucket[t], w)]

Gave(st) == [k \in (st.gcOffset + 1) .. NextEventIndex(st) |-> st.ledger[k - st.gcOffset].observed]

After(st, w) == (w + 1) .. NextEventIndex(st)

Covered(st) ==
  \A w \in st.gcOffset .. NextEventIndex(st) :
    /\ Amounts(Later(st, w), Ticks(st))
    /\ SumOver(Later(st, w), Ticks(st)) <= SumOver(Gave(st), After(st, w))

LEMMA GaveNat ==
  ASSUME NEW st, StoreTyped(st), NEW w \in st.gcOffset .. NextEventIndex(st)
  PROVE  /\ Amounts(Gave(st), After(st, w)) /\ IsFiniteSet(After(st, w))
         /\ SumOver(Gave(st), After(st, w)) \in Nat
<1>1. /\ st.ledger \in Seq(Entry) /\ st.gcOffset \in Nat /\ Len(st.ledger) \in Nat
      /\ NextEventIndex(st) = st.gcOffset + Len(st.ledger)
  BY DEF StoreTyped, NextEventIndex
<1>2. PICK n \in Nat : n = NextEventIndex(st) /\ n = st.gcOffset + Len(st.ledger)
  BY <1>1
<1>3. \A k \in After(st, w) : Gave(st)[k] \in Nat
  <2> SUFFICES ASSUME NEW k \in After(st, w) PROVE Gave(st)[k] \in Nat
    OBVIOUS
  <2>1. k \in (st.gcOffset + 1) .. n /\ k - st.gcOffset \in 1 .. Len(st.ledger)
    BY <1>1, <1>2 DEF After
  <2>2. st.ledger[k - st.gcOffset] \in Entry
    BY <1>1, <2>1
  <2> QED
    BY <1>2, <2>1, <2>2 DEF Gave, Entry
<1>4. IsFiniteSet(After(st, w))
  <2>1. w + 1 \in Int /\ n \in Int
    BY <1>1, <1>2
  <2> QED
    BY <1>2, <2>1, FS_Interval DEF After
<1>5. Amounts(Gave(st), After(st, w))
  BY <1>3 DEF Amounts
<1> QED
  BY <1>4, <1>5, SumNat

(* A bucket that has replayed all of the ledger.                           *)
LEMMA NothingLater ==
  ASSUME NEW st, StoreTyped(st), Within(st), NEW t \in Ticks(st),
         st.bucket[t].lastApplied = NextEventIndex(st),
         NEW w \in st.gcOffset .. NextEventIndex(st)
  PROVE  Later(st, w)[t] = 0
<1>1. st.gcOffset \in Nat /\ NextEventIndex(st) \in Nat
  BY NextIndexNat DEF StoreTyped
<1>2. w <= st.bucket[t].lastApplied
  BY <1>1
<1>3. Promised(st, t) = st.bucket[t].accrued /\ st.bucket[t].accrued \in Nat
  <2>1. Due(st)[t] = 0 /\ Promised(st, t) = st.bucket[t].accrued + Due(st)[t]
    BY DueType, PromisedNat
  <2>2. st.bucket[t].accrued \in Nat
    BY DEF StoreTyped, Bucket
  <2> QED
    BY <2>1, <2>2
<1> QED
  BY <1>2, <1>3 DEF Later, ReplayedTo

LEMMA ReplayedToNat ==
  ASSUME NEW st, StoreTyped(st), Within(st), NEW t \in Ticks(st),
         NEW w \in st.gcOffset .. NextEventIndex(st)
  PROVE  ReplayedTo(st, st.bucket[t], w) \in Nat
<1>1. PICK b : b = st.bucket[t]
  OBVIOUS
<1>2. PICK from : from = b.lastApplied
  OBVIOUS
<1>3. /\ b \in Bucket /\ b.accrued \in Nat /\ from \in Nat
      /\ st.ledger \in Seq(Entry) /\ st.gcOffset \in Nat
      /\ from \in st.gcOffset .. NextEventIndex(st)
  BY <1>1, <1>2 DEF StoreTyped, Within, Bucket
<1>4. CASE w <= from
  BY <1>1, <1>2, <1>3, <1>4 DEF ReplayedTo
<1>5. CASE ~(w <= from)
  <2>1. PICK low, n \in Nat : low = st.gcOffset /\ n = Len(st.ledger)
    BY <1>3
  <2>2. NextEventIndex(st) = low + n
    BY <2>1 DEF NextEventIndex
  <2>3. ASSUME NEW i \in 1 .. (w - from)
        PROVE  st.ledger[(from - st.gcOffset) + i] \in Entry
    <3>1. (from - low) + i \in 1 .. n
      BY <1>3, <2>1, <2>2
    <3> QED
      BY <1>3, <2>1, <3>1
  <2>4. w - from \in Nat
    BY <1>3, <1>5, <2>1, <2>2
  <2>5. Slice(st, from, w) \in Seq(Entry)
    BY <2>3, <2>4, SeqDef DEF Slice
  <2>6. st.dir \in Direction
    BY DEF StoreTyped
  <2>7. Replay(st.dir, b, Slice(st, from, w)) \in Nat
    BY <1>3, <2>5, <2>6, ReplayGrows
  <2> QED
    BY <1>1, <1>2, <1>5, <2>7 DEF ReplayedTo
<1> QED
  BY <1>4, <1>5

LEMMA ReworkedCovered ==
  ASSUME NEW st, StoreSound(st), Covered(st), NEW u, StoreSound(u),
         u.dir = st.dir, Reworked(st, u)
  PROVE  Covered(u)
<1> DEFINE K == {t \in Ticks(u) : t \in Ticks(st) /\ u.bucket[t] = st.bucket[t]}
           S == Ticks(st)
           R == Ticks(u)
<1>1. /\ StoreTyped(st) /\ Within(st) /\ StoreTyped(u) /\ Within(u)
      /\ IsFiniteSet(S) /\ IsFiniteSet(R) /\ K \in SUBSET S /\ K \in SUBSET R
  BY DEF StoreSound, StoreTyped
<1>2. /\ NextEventIndex(u) = NextEventIndex(st) /\ Gave(u) = Gave(st)
      /\ \A w : After(u, w) = After(st, w)
      /\ u.ledger = st.ledger /\ u.gcOffset = st.gcOffset
  BY DEF Reworked, NextEventIndex, Gave, After
<1> SUFFICES ASSUME NEW w \in u.gcOffset .. NextEventIndex(u)
             PROVE  /\ Amounts(Later(u, w), R)
                    /\ SumOver(Later(u, w), R) <= SumOver(Gave(u), After(u, w))
  BY DEF Covered
<1> DEFINE f == Later(st, w)
           g == Later(u, w)
<1>3. /\ Amounts(f, S) /\ SumOver(f, S) <= SumOver(Gave(st), After(st, w))
      /\ SumOver(Gave(st), After(st, w)) \in Nat
  BY <1>1, <1>2, GaveNat DEF Covered
<1>4. \A t \in K : g[t] = f[t]
  <2> SUFFICES ASSUME NEW t \in K PROVE g[t] = f[t]
    OBVIOUS
  <2>1. t \in S /\ t \in R /\ u.bucket[t] = st.bucket[t]
    OBVIOUS
  <2>2. Promised(u, t) = Promised(st, t)
    BY <1>2, <2>1, ReplayedIsReplay DEF Promised, Unapplied
  <2>3. ReplayedTo(u, u.bucket[t], w) = ReplayedTo(st, st.bucket[t], w)
    BY <1>2, <2>1 DEF ReplayedTo, Slice
  <2> QED
    BY <2>1, <2>2, <2>3 DEF Later
<1>5. \A t \in R \ K : g[t] = 0
  BY <1>1, <1>2, NothingLater DEF Reworked
<1> HIDE DEF f, g, K, S, R
<1>6. Amounts(g, R) /\ Amounts(f, K)
  BY <1>1, <1>3, <1>4, <1>5 DEF Amounts
<1>7. /\ SumOver(g, R) = SumOver(g, K) + SumOver(g, R \ K)
      /\ SumOver(f, S) = SumOver(f, K) + SumOver(f, S \ K)
  BY <1>1, <1>3, <1>6, SumSplit
<1>8. /\ SumOver(g, R \ K) = 0 /\ SumOver(g, K) = SumOver(f, K)
      /\ SumOver(f, K) \in Nat /\ SumOver(f, S \ K) \in Nat
  <2>1. IsFiniteSet(K) /\ IsFiniteSet(R \ K) /\ IsFiniteSet(S \ K) /\ Amounts(f, S \ K)
    BY <1>1, <1>3, FS_Subset DEF Amounts
  <2> QED
    BY <1>4, <1>5, <1>6, <2>1, SumZero, SumSame, SumNat
<1>9. SumOver(g, R) <= SumOver(f, S) /\ SumOver(f, S) \in Nat /\ SumOver(g, R) \in Nat
  BY <1>7, <1>8
<1> QED
  BY <1>2, <1>3, <1>6, <1>9 DEF f, g, R

(* A compaction takes away entries, not what a later one will credit.      *)
LEMMA CompactCovered ==
  ASSUME NEW st, StoreSound(st), Covered(st) PROVE Covered(CompactLedger(st))
<1> DEFINE u == CompactLedger(st)
           drop == Monus(Watermark(st), st.gcOffset)
           n == Len(st.ledger)
<1>1. StoreTyped(st) /\ Within(st) /\ Compacted(st, u)
  BY CompactSound DEF StoreSound
<1>2. /\ st.gcOffset \in Nat /\ n \in Nat /\ st.ledger \in Seq(Entry)
      /\ NextEventIndex(st) = st.gcOffset + n
  BY <1>1 DEF StoreTyped, NextEventIndex
<1>3. /\ drop \in Nat /\ drop <= n /\ st.gcOffset + drop = Watermark(st)
      /\ \A t \in Ticks(st) : Watermark(st) <= st.bucket[t].lastApplied
  BY <1>1, <1>2, WatermarkBound DEF Monus
<1>4. u.ledger = SubSeq(st.ledger, drop + 1, n) /\ u.gcOffset = st.gcOffset + drop
  BY <1>1 DEF CompactLedger, StoreTyped, StoreFields
<1>5. /\ StoreTyped(u) /\ u.dir = st.dir /\ u.bucket = st.bucket
      /\ NextEventIndex(u) = NextEventIndex(st)
      /\ \A t \in Ticks(st) : Promised(u, t) = Promised(st, t)
  BY <1>1 DEF Compacted, StoreSound
<1> HIDE DEF u, drop, n
<1>6. \A i \in 1 .. n - drop : u.ledger[i] = st.ledger[drop + i]
  <2> DEFINE m == drop + 1
  <2>1. m \in Int /\ n \in Int /\ m <= n + 1 /\ \A i \in m .. n : st.ledger[i] \in Entry
    BY <1>2, <1>3 DEF n
  <2>2. n - m + 1 = n - drop /\ \A i \in 1 .. n - drop : m + i - 1 = drop + i
    BY <1>2, <1>3
  <2>3. u.ledger = SubSeq(st.ledger, m, n)
    BY <1>4
  <2> HIDE DEF m
  <2>4. \A i \in 1 .. n - m + 1 : u.ledger[i] = st.ledger[m + i - 1]
    BY <2>1, <2>3, SubSeqProperties
  <2> QED
    BY <2>2, <2>4
<1>7. PICK low, next \in Nat :
        /\ low = u.gcOffset /\ next = NextEventIndex(st) /\ low = st.gcOffset + drop
        /\ next = st.gcOffset + n /\ low <= next
  <2>1. u.gcOffset \in Nat /\ st.gcOffset + drop <= st.gcOffset + n
    BY <1>2, <1>3, <1>4
  <2>2. st.gcOffset + n \in Nat
    BY <1>2
  <2> QED
    BY <1>2, <1>4, <2>1, <2>2
<1>8. \A k \in low + 1 .. next : u.ledger[k - low] = st.ledger[k - st.gcOffset]
  <2> SUFFICES ASSUME NEW k \in low + 1 .. next
               PROVE  u.ledger[k - low] = st.ledger[k - st.gcOffset]
    OBVIOUS
  <2>1. k - low \in 1 .. n - drop /\ drop + (k - low) = k - st.gcOffset
    BY SMTT(30), <1>2, <1>3, <1>7, PlaceOfIndex
  <2> QED
    BY <1>6, <2>1
<1> SUFFICES ASSUME NEW w \in low .. next
             PROVE  /\ Amounts(Later(u, w), Ticks(u))
                    /\ SumOver(Later(u, w), Ticks(u)) <= SumOver(Gave(u), After(u, w))
  BY <1>5, <1>7 DEF Covered, u
<1>9. w \in st.gcOffset .. NextEventIndex(st) /\ w \in u.gcOffset .. NextEventIndex(u)
  BY <1>2, <1>3, <1>5, <1>7
<1>10. SumOver(Gave(u), After(u, w)) = SumOver(Gave(st), After(st, w))
  <2>1. After(u, w) = After(st, w)
    BY <1>5 DEF After
  <2>2. \A k \in After(st, w) : Gave(u)[k] = Gave(st)[k]
    <3> SUFFICES ASSUME NEW k \in After(st, w) PROVE Gave(u)[k] = Gave(st)[k]
      OBVIOUS
    <3>1. k \in low + 1 .. next /\ k \in (st.gcOffset + 1) .. next
      BY <1>2, <1>3, <1>7 DEF After
    <3> QED
      BY <1>5, <1>7, <1>8, <3>1 DEF Gave
  <2> QED
    BY <1>1, <1>9, <2>1, <2>2, GaveNat, SumSame
<1>11. Ticks(u) = Ticks(st)
  BY <1>5 DEF Ticks
<1>12. Later(u, w) = Later(st, w)
  <2>1. ASSUME NEW t \in Ticks(st)
        PROVE  ReplayedTo(u, u.bucket[t], w) = ReplayedTo(st, st.bucket[t], w)
    <3> DEFINE b == st.bucket[t]
               from == b.lastApplied
    <3>1. from \in Nat /\ low <= from
      BY <1>1, <1>3, <1>7 DEF StoreTyped, Bucket
    <3>2. CASE w <= from
      BY <1>5, <3>2 DEF ReplayedTo
    <3>3. CASE ~(w <= from)
      <4>1. Slice(u, from, w) = Slice(st, from, w)
        <5>1. ASSUME NEW i \in 1 .. (w - from)
              PROVE  u.ledger[(from - u.gcOffset) + i] = st.ledger[(from - st.gcOffset) + i]
          <6>1. from + i \in low + 1 .. next
            BY <1>7, <3>1
          <6>2. u.ledger[(from + i) - low] = st.ledger[(from + i) - st.gcOffset]
            BY <1>8, <6>1
          <6>3. (from + i) - low = (from - u.gcOffset) + i
                /\ (from + i) - st.gcOffset = (from - st.gcOffset) + i
            <7>1. u.gcOffset \in Int /\ st.gcOffset \in Int /\ from \in Int /\ low = u.gcOffset
              BY <1>2, <1>7, <3>1
            <7> HIDE DEF from
            <7> QED
              BY <7>1, PlaceMoved
          <6> QED
            BY <6>2, <6>3
        <5> HIDE DEF from
        <5> QED
          BY <5>1 DEF Slice
      <4> QED
        BY <1>5, <4>1 DEF ReplayedTo
    <3> QED
      BY <3>2, <3>3
  <2> QED
    BY <1>5, <1>11, <2>1 DEF Later
<1>13. /\ Amounts(Later(st, w), Ticks(st))
       /\ SumOver(Later(st, w), Ticks(st)) <= SumOver(Gave(st), After(st, w))
  BY <1>9 DEF Covered
<1> QED
  BY <1>10, <1>11, <1>12, <1>13

(* An entry that gives its own shares and nothing else.                    *)
LEMMA AppendCovered ==
  ASSUME NEW st, StoreSound(st), Covered(st), NEW u, StoreSound(u), NEW e \in Entry,
         u.dir = st.dir, u.gcOffset = st.gcOffset, u.ledger = Append(st.ledger, e),
         Ticks(u) = Ticks(st),
         NEW given, Amounts(given, Ticks(st)), SumOver(given, Ticks(st)) <= e.observed,
         \A t \in Ticks(st) : \/ /\ u.bucket[t] = st.bucket[t]
                                 /\ Promised(u, t) = Promised(st, t) + given[t]
                              \/ u.bucket[t].lastApplied = NextEventIndex(u)
  PROVE  Covered(u)
<1> DEFINE S == Ticks(st)
<1>1. /\ StoreTyped(st) /\ Within(st) /\ StoreTyped(u) /\ Within(u) /\ IsFiniteSet(S)
      /\ st.ledger \in Seq(Entry) /\ e.observed \in Nat
  BY DEF StoreSound, StoreTyped, Entry
<1>2. PICK low, next \in Nat :
        /\ low = st.gcOffset /\ next = NextEventIndex(st) /\ low <= next
        /\ next = low + Len(st.ledger)
        /\ NextEventIndex(u) = next + 1 /\ u.gcOffset = low
  <2>1. /\ st.gcOffset \in Nat /\ Len(st.ledger) \in Nat
        /\ NextEventIndex(st) = st.gcOffset + Len(st.ledger)
    BY <1>1 DEF StoreTyped, NextEventIndex
  <2>2. NextEventIndex(u) = st.gcOffset + Len(st.ledger) + 1
    <3>1. Len(u.ledger) = Len(st.ledger) + 1
      BY <1>1, AppendProperties
    <3> QED
      BY <2>1, <3>1 DEF NextEventIndex
  <2>3. /\ st.gcOffset + Len(st.ledger) \in Nat
        /\ st.gcOffset <= st.gcOffset + Len(st.ledger)
    BY <2>1
  <2> QED
    BY <2>1, <2>2, <2>3
<1>3. /\ \A i \in 1 .. next - low : u.ledger[i] = st.ledger[i]
      /\ u.ledger[(next - low) + 1] = e
  <2>1. next - low = Len(st.ledger)
    BY <1>1, <1>2
  <2> QED
    BY <1>1, <2>1, AppendProperties
<1> SUFFICES ASSUME NEW w \in low .. next + 1
             PROVE  /\ Amounts(Later(u, w), S)
                    /\ SumOver(Later(u, w), S) <= SumOver(Gave(u), After(u, w))
  BY <1>2 DEF Covered
<1>4. CASE w = next + 1
  <2>1. \A t \in S : Later(u, w)[t] = 0
    <3> SUFFICES ASSUME NEW t \in S PROVE Later(u, w)[t] = 0
      OBVIOUS
    <3> DEFINE b == u.bucket[t]
               from == b.lastApplied
               m == Len(u.ledger)
    <3>1. /\ from \in u.gcOffset .. NextEventIndex(u) /\ from \in Nat /\ b \in Bucket
          /\ Promised(u, t) \in Nat
      BY <1>1, PromisedNat DEF Within, StoreTyped, Bucket
    <3>2. CASE from = next + 1
      BY <1>1, <1>2, <1>4, <3>2, NothingLater
    <3>3. CASE from # next + 1
      <4>1. ~(w <= from)
        BY <1>2, <1>4, <3>1, <3>3
      <4>2. Unapplied(u, b) = Slice(u, from, w)
        <5> DEFINE k == w - from
        <5>1. /\ Unapplied(u, b) \in Seq(Entry) /\ Len(Unapplied(u, b)) = k
              /\ \A i \in 1 .. k : Unapplied(u, b)[i] = u.ledger[from - u.gcOffset + i]
          <6>1. NextEventIndex(u) - from = k
            BY <1>2, <1>4
          <6>2. /\ Unapplied(u, b) \in Seq(Entry)
                /\ Len(Unapplied(u, b)) = NextEventIndex(u) - from
                /\ \A i \in 1 .. NextEventIndex(u) - from :
                     Unapplied(u, b)[i] = u.ledger[from - u.gcOffset + i]
            BY <1>1, <3>1, UnappliedType
          <6> HIDE DEF k, from
          <6> QED
            BY <6>1, <6>2
        <5> HIDE DEF k, from
        <5>2. Unapplied(u, b) = [i \in 1 .. k |-> u.ledger[(from - u.gcOffset) + i]]
          <6>1. PICK q : q = Unapplied(u, b)
            OBVIOUS
          <6>2. q \in Seq(Entry) /\ Len(q) = k
            BY <5>1, <6>1
          <6>3. q = [i \in 1 .. k |-> q[i]]
            BY <6>2
          <6>4. \A i \in 1 .. k : q[i] = u.ledger[(from - u.gcOffset) + i]
            BY <5>1, <6>1
          <6> QED
            BY <6>1, <6>3, <6>4
        <5> QED
          BY <5>2 DEF Slice, k
      <4>3. ReplayedTo(u, b, w) = Promised(u, t)
        BY <4>1, <4>2, ReplayedIsReplay DEF ReplayedTo, Promised
      <4> QED
        BY <3>1, <4>3 DEF Later
    <3> QED
      BY <3>2, <3>3
  <2>2. SumOver(Later(u, w), S) = 0 /\ Amounts(Later(u, w), S)
    <3>1. Amounts(Later(u, w), S)
      BY <2>1 DEF Amounts
    <3> QED
      BY <1>1, <2>1, <3>1, SumZero
  <2>3. SumOver(Gave(u), After(u, w)) \in Nat
    BY <1>1, <1>2, GaveNat
  <2> QED
    BY <2>2, <2>3
<1>5. CASE w \in low .. next
  <2> DEFINE f == Later(st, w)
             g == Later(u, w)
             more == [t \in S |-> f[t] + given[t]]
  <2>1. /\ Amounts(f, S) /\ SumOver(f, S) <= SumOver(Gave(st), After(st, w))
        /\ SumOver(Gave(st), After(st, w)) \in Nat
        /\ Amounts(Gave(st), After(st, w)) /\ IsFiniteSet(After(st, w))
    BY <1>1, <1>2, <1>5, GaveNat DEF Covered
  <2>2. ASSUME NEW t \in S PROVE g[t] \in Nat /\ g[t] <= f[t] + given[t]
    <3>0. f[t] \in Nat /\ given[t] \in Nat /\ f[t] = Promised(st, t) - ReplayedTo(st, st.bucket[t], w)
      BY <2>1 DEF Amounts, Later
    <3>1. CASE u.bucket[t] = st.bucket[t] /\ Promised(u, t) = Promised(st, t) + given[t]
      <4> DEFINE from == st.bucket[t].lastApplied
      <4>1. from \in low .. next
        BY <1>1, <1>2 DEF Within
      <4>2. Slice(u, from, w) = Slice(st, from, w)
        <5>1. ASSUME NEW i \in 1 .. (w - from)
              PROVE  u.ledger[(from - u.gcOffset) + i] = st.ledger[(from - st.gcOffset) + i]
          <6>1. (from - low) + i \in 1 .. next - low
            BY <1>2, <1>5, <4>1
          <6> QED
            BY <1>2, <1>3, <6>1
        <5> HIDE DEF from
        <5> QED
          BY <5>1 DEF Slice
      <4>3. ReplayedTo(u, u.bucket[t], w) = ReplayedTo(st, st.bucket[t], w)
        BY <3>1, <4>2 DEF ReplayedTo
      <4>4. g[t] = Promised(u, t) - ReplayedTo(st, st.bucket[t], w)
        BY <4>3 DEF Later
      <4>5. Promised(st, t) \in Nat /\ ReplayedTo(st, st.bucket[t], w) \in Nat
        <5>1. Promised(st, t) \in Nat
          BY <1>1, PromisedNat
        <5>2. ReplayedTo(st, st.bucket[t], w) \in Nat
          BY <1>1, <1>2, <1>5, ReplayedToNat
        <5> QED
          BY <5>1, <5>2
      <4> QED
        BY <3>0, <3>1, <4>4, <4>5
    <3>2. CASE u.bucket[t].lastApplied = NextEventIndex(u)
      <4>1. g[t] = 0
        BY <1>1, <1>2, <3>2, NothingLater
      <4> QED
        BY <3>0, <4>1
    <3> QED
      BY <3>1, <3>2
  <2>3. \A t \in S : more[t] = f[t] + given[t]
    OBVIOUS
  <2>4. Amounts(more, S) /\ Amounts(g, S) /\ \A t \in S : g[t] <= more[t]
    BY <2>1, <2>2 DEF Amounts
  <2> HIDE DEF f, g, more, S
  <2>5. SumOver(g, S) <= SumOver(more, S) /\ SumOver(more, S) = SumOver(f, S) + SumOver(given, S)
    BY <1>1, <2>1, <2>3, <2>4, SumMonotone, SumPlus DEF S
  <2>6. SumOver(Gave(u), After(u, w)) = SumOver(Gave(st), After(st, w)) + e.observed
    <3> DEFINE A == After(st, w)
               x == next + 1
    <3>1. After(u, w) = A \cup {x} /\ x \notin A
      BY <1>2, <1>5 DEF After
    <3>2. \A k \in A : Gave(u)[k] = Gave(st)[k]
      <4> SUFFICES ASSUME NEW k \in A PROVE Gave(u)[k] = Gave(st)[k]
        OBVIOUS
      <4>1. k \in (low + 1) .. next /\ k - low \in 1 .. next - low
        BY <1>2, <1>5 DEF After
      <4>2. k \in (low + 1) .. next + 1
        BY <1>2, <4>1
      <4> QED
        BY <1>2, <1>3, <4>1, <4>2 DEF Gave
    <3>3. Gave(u)[x] = e.observed
      <4>1. x \in (low + 1) .. next + 1 /\ x - low = (next - low) + 1
        BY <1>2
      <4> QED
        BY <1>2, <1>3, <4>1 DEF Gave
    <3> HIDE DEF A, x
    <3>4. Amounts(Gave(u), A \cup {x}) /\ IsFiniteSet(A)
      BY <1>1, <2>1, <3>2, <3>3 DEF A, Amounts
    <3>5. SumOver(Gave(u), A \cup {x}) = Gave(u)[x] + SumOver(Gave(u), A)
      BY <3>1, <3>4, SumAdd
    <3>6. SumOver(Gave(u), A) = SumOver(Gave(st), A)
      BY <2>1, <3>2, <3>4, SumSame DEF A
    <3> QED
      BY <1>1, <2>1, <3>1, <3>3, <3>5, <3>6 DEF A
  <2>7. SumOver(f, S) \in Nat /\ SumOver(given, S) \in Nat /\ SumOver(g, S) \in Nat
    BY <1>1, <2>1, <2>4, SumNat DEF S
  <2> QED
    BY <1>1, <2>1, <2>4, <2>5, <2>6, <2>7 DEF g, S
<1>6. w = next + 1 \/ w \in low .. next
  BY <1>2
<1> QED
  BY <1>4, <1>5, <1>6
LEMMA ApplyPendingCovered ==
  ASSUME NEW st, StoreSound(st), Covered(st), NEW T \in SUBSET Ticks(st)
  PROVE  Covered(ApplyPending(st, T))
<1> DEFINE u == ApplyPending(st, T)
<1>1. CaughtUpBy(st, T, u)
  BY ApplyPendingSound
<1> HIDE DEF u
<1>2. StoreSound(u) /\ u.dir = st.dir /\ Ticks(u) = Ticks(st)
  BY <1>1 DEF CaughtUpBy
<1>3. ASSUME NEW t \in T PROVE u.bucket[t].lastApplied = NextEventIndex(u)
  <2>1. t \in Ticks(st)
    OBVIOUS
  <2> QED
    BY <1>1, <2>1, CaughtUpBucket
<1>4. Reworked(st, u)
  BY <1>1, <1>3 DEF Reworked, CaughtUpBy
<1>5. Covered(u)
  BY <1>2, <1>4, ReworkedCovered
<1> QED
  BY <1>5 DEF u

LEMMA ReadyCovered ==
  ASSUME NEW st, StoreSound(st), Covered(st), NEW p, NEW alloc
  PROVE  Covered(Split(st, p, alloc).ready)
<1> DEFINE room == WithRoom(st)
           T == ActivatedTicks(st, p)
<1>1. Split(st, p, alloc).ready = ApplyPending(room, T)
  BY DEF Split, CaughtUp
<1>2. Compacted(st, room) /\ StoreSound(room) /\ Covered(room)
  BY WithRoomSound, CompactCovered DEF Compacted, WithRoom
<1>3. T \in SUBSET Ticks(room)
  BY <1>2 DEF Compacted, Ticks, ActivatedTicks
<1> HIDE DEF room, T
<1> QED
  BY <1>1, <1>2, <1>3, ApplyPendingCovered

(* Both paths record the shares they computed, and nothing else is         *)
(* credited for the new entry.                                             *)
LEMMA RecordedCovered ==
  ASSUME NEW st, StoreSound(st), NEW p \in Nat, NEW alloc \in Nat,
         NEW s, SplitFacts(st, p, alloc, s), Covered(s.ready),
         NEW u, StoreSound(u), u.dir = s.ready.dir, u.gcOffset = s.ready.gcOffset,
         u.ledger = Append(s.ready.ledger, NewEntry(p, alloc, s)),
         Ticks(u) = Ticks(s.ready),
         \A t \in Ticks(u) : \/ u.bucket[t] = s.ready.bucket[t]
                             \/ u.bucket[t].lastApplied = NextEventIndex(u)
  PROVE  Covered(u)
<1> DEFINE r == s.ready
           S == Ticks(st)
           e == NewEntry(p, alloc, s)
           given == [t \in S |-> IF t \in s.active THEN s.share[t] ELSE 0]
<1>1. /\ StoreSound(r) /\ StoreTyped(r) /\ Within(r) /\ Ticks(r) = S /\ IsFiniteSet(S)
      /\ s.active \in SUBSET S /\ r.dir = st.dir
      /\ Amounts(s.share, s.active) /\ s.allocated = SumOver(s.share, s.active)
      /\ StoreTyped(u) /\ Within(u)
  BY DEF SplitFacts, StoreSound, StoreTyped
<1>2. \A t \in S : given[t] = IF t \in s.active THEN s.share[t] ELSE 0
  OBVIOUS
<1>3. e \in Entry /\ e.observed = s.allocated
  BY DEF SplitFacts, NewEntry, Entry
<1>4. \A t \in S : EntryShare(st.dir, r.bucket[t], Replayed(r, r.bucket[t]), e) = given[t]
  BY EntryGives
<1>5. /\ u.dir = r.dir /\ u.gcOffset = r.gcOffset /\ u.ledger = Append(r.ledger, e)
      /\ Ticks(u) = S /\ Covered(r)
      /\ \A t \in S : \/ u.bucket[t] = r.bucket[t]
                      \/ u.bucket[t].lastApplied = NextEventIndex(u)
  BY <1>1
<1> HIDE DEF given, e, S, r
<1>6. Amounts(given, S) /\ SumOver(given, S) = s.allocated
  BY <1>1, <1>2, SumOfPart
<1>7. SumOver(given, S) <= e.observed
  <2>1. e.observed \in Nat
    BY <1>3 DEF Entry
  <2> QED
    BY <1>3, <1>6, <2>1
<1>8. ASSUME NEW t \in S, u.bucket[t] = r.bucket[t]
      PROVE  Promised(u, t) = Promised(r, t) + given[t]
  <2>1. /\ t \in Ticks(r) /\ t \in Ticks(u)
        /\ r.bucket[t].lastApplied \in r.gcOffset .. NextEventIndex(r)
    BY <1>1, <1>5 DEF Within
  <2>2. Due(u)[t] = Due(r)[t] + EntryShare(r.dir, r.bucket[t], Replayed(r, r.bucket[t]), e)
    BY <1>1, <1>3, <1>5, <1>8, <2>1, AppendedDue
  <2>3. Due(u)[t] = Due(r)[t] + given[t]
    BY <1>1, <1>4, <2>2
  <2>4. /\ Promised(u, t) = u.bucket[t].accrued + Due(u)[t]
        /\ Promised(r, t) = r.bucket[t].accrued + Due(r)[t]
    BY <1>1, <2>1, PromisedNat
  <2>5. r.bucket[t].accrued \in Nat /\ Due(r)[t] \in Nat /\ given[t] \in Nat
    <3>1. r.bucket[t] \in Bucket
      BY <1>1, <2>1 DEF StoreTyped
    <3>2. Due(r)[t] \in Nat
      BY <1>1, <2>1, DueType DEF Amounts
    <3> QED
      BY <1>6, <3>1, <3>2 DEF Bucket, Amounts
  <2> QED
    BY <1>8, <2>3, <2>4, <2>5
<1>9. \A t \in Ticks(r) : \/ /\ u.bucket[t] = r.bucket[t]
                            /\ Promised(u, t) = Promised(r, t) + given[t]
                         \/ u.bucket[t].lastApplied = NextEventIndex(u)
  BY <1>1, <1>5, <1>8
<1>10. Amounts(given, Ticks(r)) /\ SumOver(given, Ticks(r)) <= e.observed /\ Ticks(u) = Ticks(r)
  BY <1>1, <1>5, <1>6, <1>7
<1> QED
  BY <1>1, <1>3, <1>5, <1>9, <1>10, AppendCovered

LEMMA DistributeCovered ==
  ASSUME NEW st, StoreSound(st), Covered(st), NEW p \in Nat, NEW alloc \in Nat
  PROVE  Covered(DistributeLazy(st, p, alloc)) /\ Covered(DistributeEager(st, p, alloc))
<1> DEFINE s == Split(st, p, alloc)
           r == s.ready
           e == NewEntry(p, alloc, s)
           lazy == DistributeLazy(st, p, alloc)
           eager == DistributeEager(st, p, alloc)
           n == NextEventIndex(r) + 1
           B == [t \in Ticks(st) |->
                   IF t \in s.active THEN Credited(r.bucket[t], s.share[t], n)
                   ELSE r.bucket[t]]
<1>1. SplitFacts(st, p, alloc, s) /\ Covered(r)
  BY SplitSound, ReadyCovered
<1>2. StoreSound(lazy) /\ StoreSound(eager)
  BY DistributeLazySound, DistributeEagerSound DEF Distributed
<1>3. CASE s.total = 0
  BY <1>1, <1>3 DEF DistributeLazy, DistributeEager
<1>4. CASE s.total # 0
  <2>1. /\ lazy = [r EXCEPT !.pending = @ + s.allocated, !.ledger = Append(@, e)]
        /\ eager = [r EXCEPT !.bucket = B, !.accruedTotal = @ + s.allocated,
                             !.ledger = Append(@, e)]
    BY <1>4 DEF DistributeLazy, DistributeEager
  <2>2. e \in Entry
    BY <1>1 DEF SplitFacts, NewEntry, Entry
  <2> HIDE DEF s, e, n, lazy, eager
  <2>3. StoreTyped(r) /\ Ticks(r) = Ticks(st)
    BY <1>1 DEF SplitFacts, StoreSound
  <2>4. /\ lazy.dir = r.dir /\ lazy.gcOffset = r.gcOffset
        /\ lazy.ledger = Append(r.ledger, e) /\ lazy.bucket = r.bucket
        /\ Ticks(lazy) = Ticks(r)
    BY <2>1, <2>3 DEF StoreTyped, StoreFields, Ticks
  <2>5. /\ eager.dir = r.dir /\ eager.gcOffset = r.gcOffset
        /\ eager.ledger = Append(r.ledger, e) /\ eager.bucket = B
    <3> HIDE DEF B
    <3> QED
      BY <2>1, <2>3 DEF StoreTyped, StoreFields
  <2>6. Ticks(eager) = Ticks(st) /\ \A t \in Ticks(st) : eager.bucket[t] = B[t]
    BY <2>5 DEF Ticks
  <2>7. NextEventIndex(eager) = n
    <3> HIDE DEF r, B
    <3> QED
      BY <2>2, <2>3, <2>5, EntryRecorded DEF n
  <2>8. ASSUME NEW t \in Ticks(st)
        PROVE  \/ eager.bucket[t] = r.bucket[t]
               \/ eager.bucket[t].lastApplied = NextEventIndex(eager)
    <3>1. r.bucket[t] \in Bucket
      BY <2>3 DEF StoreTyped
    <3>2. \A b \in Bucket : \A x, y : Credited(b, x, y).lastApplied = y
      BY DEF Credited, Bucket
    <3> QED
      BY <2>6, <2>7, <3>1, <3>2
  <2>9. Covered(lazy)
    <3> HIDE DEF r
    <3>1. \A t \in Ticks(lazy) : lazy.bucket[t] = r.bucket[t]
      BY <2>4
    <3> QED
      BY <1>1, <1>2, <2>4, <3>1, RecordedCovered DEF r, e
  <2>10. Covered(eager)
    <3> HIDE DEF B
    <3>1. Ticks(eager) = Ticks(r)
      BY <2>3, <2>6
    <3> QED
      BY <1>1, <1>2, <2>5, <2>6, <2>8, <3>1, RecordedCovered DEF r, e
  <2> QED
    BY <2>9, <2>10 DEF lazy, eager
<1> QED
  BY <1>3, <1>4

LEMMA NewStoreCovered ==
  ASSUME NEW d \in Direction PROVE Covered(NewStore(d))
<1> DEFINE st == NewStore(d)
<1>1. Ticks(st) = {} /\ StoreTyped(st)
  BY NewStoreSound DEF NewStore, Ticks, StoreSound
<1> HIDE DEF st
<1>2. ASSUME NEW w \in st.gcOffset .. NextEventIndex(st)
      PROVE  /\ Amounts(Later(st, w), {})
             /\ SumOver(Later(st, w), {}) <= SumOver(Gave(st), After(st, w))
  BY <1>1, SumEmpty, GaveNat DEF Amounts
<1>3. Covered(st)
  BY <1>1, <1>2 DEF Covered
<1> QED
  BY <1>3 DEF st

(* A sum over consecutive numbers does not depend on where they start.     *)
LEMMA SumShift ==
  ASSUME NEW n \in Nat, NEW c \in Nat, NEW f, NEW g, Amounts(f, 1 .. n),
         \A i \in 1 .. n : g[c + i] = f[i]
  PROVE  SumOver(g, (c + 1) .. (c + n)) = SumOver(f, 1 .. n)
<1> DEFINE G == {m \in Nat : m <= n =>
                   /\ Amounts(g, (c + 1) .. (c + m))
                   /\ SumOver(g, (c + 1) .. (c + m)) = SumOver(f, 1 .. m)}
<1>1. 0 \in G
  <2>1. (c + 1) .. (c + 0) = {} /\ 1 .. 0 = {}
    OBVIOUS
  <2>2. Amounts(g, {}) /\ SumOver(g, {}) = SumOver(f, {})
    BY SumEmpty DEF Amounts
  <2> QED
    BY <2>1, <2>2
<1>2. ASSUME NEW m \in Nat, m \in G PROVE m + 1 \in G
  <2> SUFFICES ASSUME m + 1 <= n
               PROVE  /\ Amounts(g, (c + 1) .. (c + (m + 1)))
                      /\ SumOver(g, (c + 1) .. (c + (m + 1))) = SumOver(f, 1 .. (m + 1))
    OBVIOUS
  <2> DEFINE A == (c + 1) .. (c + m)
             x == c + (m + 1)
  <2>1. /\ Amounts(g, A) /\ SumOver(g, A) = SumOver(f, 1 .. m) /\ m + 1 \in 1 .. n
    BY <1>2
  <2>2. /\ (c + 1) .. (c + (m + 1)) = A \cup {x} /\ x \notin A
        /\ 1 .. (m + 1) = (1 .. m) \cup {m + 1} /\ m + 1 \notin 1 .. m
    OBVIOUS
  <2>3. g[x] = f[m + 1] /\ f[m + 1] \in Nat
    BY <2>1 DEF Amounts
  <2>4. IsFiniteSet(A) /\ IsFiniteSet(1 .. m)
    <3>1. c + 1 \in Int /\ c + m \in Int
      OBVIOUS
    <3> QED
      BY <3>1, FS_Interval
  <2>5. Amounts(f, (1 .. m) \cup {m + 1})
    BY <2>1 DEF Amounts
  <2> HIDE DEF A, x
  <2>6. Amounts(g, A \cup {x})
    BY <2>1, <2>3 DEF Amounts
  <2>7. SumOver(g, A \cup {x}) = g[x] + SumOver(g, A)
    BY <2>2, <2>4, <2>6, SumAdd
  <2>8. SumOver(f, (1 .. m) \cup {m + 1}) = f[m + 1] + SumOver(f, 1 .. m)
    BY <2>2, <2>4, <2>5, SumAdd
  <2> QED
    BY <2>1, <2>2, <2>3, <2>6, <2>7, <2>8
<1> HIDE DEF G
<1>3. n \in G
  BY <1>1, <1>2, NaturalInduction
<1> QED
  BY <1>3 DEF G

(* So the check never refuses a store that is sound and covered.           *)
LEMMA CoveredChecks ==
  ASSUME NEW st, StoreSound(st), Covered(st) PROVE CheckStore(st)
<1> DEFINE f == [i \in DOMAIN st.ledger |-> st.ledger[i].observed]
           S == Ticks(st)
<1>1. /\ StoreTyped(st) /\ Within(st) /\ st.ledger \in Seq(Entry) /\ IsFiniteSet(S)
      /\ st.pending = SumOver(Due(st), S)
  BY DEF StoreSound, StoreTyped
<1>a. st.gcOffset \in Nat
  BY <1>1 DEF StoreTyped
<1>b. Len(st.ledger) \in Nat
  BY <1>1
<1>2. PICK c, n \in Nat : c = st.gcOffset /\ n = Len(st.ledger)
  BY <1>a, <1>b
<1>3. NextEventIndex(st) = c + n /\ c \in st.gcOffset .. NextEventIndex(st)
      /\ DOMAIN st.ledger = 1 .. n
  BY <1>1, <1>2 DEF NextEventIndex
<1>4. \A t \in S : Later(st, c)[t] = Due(st)[t]
  <2> TAKE t \in S
  <2>1. c <= st.bucket[t].lastApplied
    BY <1>1, <1>2 DEF Within
  <2>2. /\ Promised(st, t) = st.bucket[t].accrued + Due(st)[t]
        /\ st.bucket[t] \in Bucket /\ Due(st)[t] \in Nat
    BY <1>1, PromisedNat, DueType DEF StoreTyped, Amounts
  <2>3. Later(st, c)[t] = Promised(st, t) - st.bucket[t].accrued
    BY <2>1 DEF Later, ReplayedTo
  <2> QED
    BY <2>2, <2>3 DEF Bucket
<1>5. /\ Amounts(Later(st, c), S)
      /\ SumOver(Later(st, c), S) <= SumOver(Gave(st), After(st, c))
  BY <1>3 DEF Covered
<1>6. SumOver(Due(st), S) = SumOver(Later(st, c), S)
  BY <1>1, <1>4, <1>5, SumSame
<1>7. /\ Amounts(f, 1 .. n)
      /\ \A i \in 1 .. n : Gave(st)[c + i] = f[i]
  <2>1. ASSUME NEW i \in 1 .. n PROVE f[i] \in Nat /\ Gave(st)[c + i] = f[i]
    <3>1. st.ledger[i] \in Entry
      BY <1>1, <1>2
    <3>2. c + i \in (c + 1) .. (c + n) /\ (c + i) - c = i
      OBVIOUS
    <3> QED
      BY <1>2, <1>3, <3>1, <3>2 DEF Gave, Entry
  <2> QED
    BY <2>1 DEF Amounts
<1>8. After(st, c) = (c + 1) .. (c + n)
  BY <1>3 DEF After
<1> HIDE DEF f, S
<1>9. SumOver(Gave(st), After(st, c)) = SumOver(f, 1 .. n)
  BY <1>7, <1>8, SumShift
<1>10. st.pending <= SumOver(f, DOMAIN st.ledger)
  BY <1>1, <1>3, <1>5, <1>6, <1>9
<1> QED
  BY <1>10 DEF CheckStore, StoreSound, Within, Credit, f

-----------------------------------------------------------------------------
(* A distribution keeps their number, a rotation adds to it.               *)
LEMMA SameSharesTotal ==
  ASSUME NEW st, NEW u, SameShares(st, u)
  PROVE  TotalRecoveryShares(u) = TotalRecoveryShares(st)
<1>1. [t \in Ticks(u) |-> u.bucket[t].shares] = [t \in Ticks(st) |-> st.bucket[t].shares]
  BY DEF SameShares
<1>2. Ticks(u) = Ticks(st)
  BY DEF SameShares
<1> QED
  BY <1>1, <1>2 DEF TotalRecoveryShares

LEMMA InsertTotal ==
  ASSUME NEW st, StoreSound(st), NEW t \in Nat, NEW anchor \in Nat,
         NEW shares \in Nat, NEW notional \in Nat
  PROVE  /\ TotalRecoveryShares(st) \in Nat
         /\ TotalRecoveryShares(InsertOrMerge(st, t, anchor, shares, notional))
              = TotalRecoveryShares(st) + shares
<1> DEFINE u == InsertOrMerge(st, t, anchor, shares, notional)
           T == Ticks(st) \cup Ticks(u) \cup {t}
           f == [k \in T |-> HeldIn(st, k)]
           g == [k \in T |-> HeldIn(u, k)]
           h == [k \in T |-> IF k = t THEN shares ELSE 0]
           one == [k \in {t} |-> shares]
<1>1. StoreSound(u)
  BY InsertOrMergeSound DEF MergedInto
<1>2. StoreTyped(st) /\ StoreTyped(u) /\ IsFiniteSet(Ticks(st)) /\ IsFiniteSet(Ticks(u))
  BY <1>1 DEF StoreSound, StoreTyped
<1>3. \A k : HeldIn(u, k) = HeldIn(st, k) + (IF k = t THEN shares ELSE 0)
  BY InsertShares
<1> HIDE DEF u
<1>4. /\ IsFiniteSet(T) /\ Ticks(st) \in SUBSET T /\ Ticks(u) \in SUBSET T
      /\ {t} \in SUBSET T
  <2>1. IsFiniteSet(Ticks(st) \cup Ticks(u)) /\ IsFiniteSet({t})
    BY <1>2, FS_Union, FS_Singleton
  <2> QED
    BY <2>1, FS_Union
<1>5. /\ \A k \in T : /\ f[k] = HeldIn(st, k) /\ g[k] = HeldIn(u, k)
                      /\ h[k] = IF k \in {t} THEN one[k] ELSE 0
                      /\ g[k] = f[k] + h[k]
      /\ Amounts(one, {t}) /\ one[t] = shares
  BY <1>3 DEF Amounts
<1> HIDE DEF T, f, g, h, one
<1>6. /\ TotalRecoveryShares(st) = SumOver(f, T) /\ Amounts(f, T)
      /\ TotalRecoveryShares(st) \in Nat
  BY <1>2, <1>4, <1>5, HeldSum
<1>7. TotalRecoveryShares(u) = SumOver(g, T)
  BY <1>2, <1>4, <1>5, HeldSum
<1>8. SumOver(h, T) = shares /\ Amounts(h, T)
  <2>1. Amounts(h, T) /\ SumOver(h, T) = SumOver(one, {t})
    BY <1>4, <1>5, SumOfPart
  <2>2. SumOver(one, {}) = 0 /\ IsFiniteSet({}) /\ {} \cup {t} = {t} /\ t \notin {}
    BY SumEmpty, FS_EmptySet
  <2>a. Amounts(one, {} \cup {t})
    BY <1>5, <2>2
  <2>3. SumOver(one, {} \cup {t}) = one[t] + SumOver(one, {})
    BY <2>2, <2>a, SumAdd
  <2> QED
    BY <1>5, <2>1, <2>2, <2>3
<1>9. SumOver(g, T) = SumOver(f, T) + SumOver(h, T)
  BY <1>4, <1>5, <1>6, <1>8, SumPlus
<1> QED
  BY <1>6, <1>7, <1>8, <1>9 DEF u

(* A ledger stays full only behind a bucket that has yet to replay it all. *)
LEMMA FullBehindABucket ==
  ASSUME NEW st, StoreSound(st), LedgerFull(st)
  PROVE  \E t \in Ticks(st) : NextEventIndex(st) - st.bucket[t].lastApplied >= MaxLedger
<1> DEFINE u == CompactLedger(st)
           mark == Watermark(st)
           next == NextEventIndex(st)
           n == Len(st.ledger)
           drop == Monus(mark, st.gcOffset)
<1>1. StoreTyped(st) /\ Within(st)
  BY DEF StoreSound
<1>2. /\ st.gcOffset \in Nat /\ n \in Nat /\ next = st.gcOffset + n
      /\ st = [f \in StoreFields |-> st[f]]
  BY <1>1 DEF StoreTyped, NextEventIndex
<1>3. mark \in st.gcOffset .. next
  BY <1>1, WatermarkBound
<1>4. Compacted(st, u) /\ StoreSound(u)
  BY CompactSound DEF Compacted
<1>5. u.gcOffset = mark
  <2>1. u.gcOffset = st.gcOffset + drop
    BY <1>2 DEF CompactLedger, StoreFields
  <2>2. st.gcOffset + drop = mark
    BY <1>2, <1>3 DEF Monus
  <2> QED
    BY <2>1, <2>2
<1>6. MaxLedger \in Nat /\ MaxLedger > 0 /\ Len(u.ledger) >= MaxLedger
  <2>1. MaxLedger \in Nat \ {0}
    BY StoreLimits
  <2>2. n >= MaxLedger
    BY <1>2, <2>1 DEF LedgerFull, WithRoom
  <2> QED
    BY <2>1, <2>2 DEF LedgerFull, WithRoom
<1>7. Len(u.ledger) \in Nat /\ next = mark + Len(u.ledger)
  BY <1>4, <1>5 DEF Compacted, StoreSound, StoreTyped, NextEventIndex
<1> DEFINE S == {st.bucket[t].lastApplied : t \in Ticks(st)} \cup {next}
<1>8. mark \in S
  <2>1. mark = Min(S)
    BY DEF Watermark
  <2>2. /\ S \subseteq Nat /\ S # {}
    <3>1. \A t \in Ticks(st) : st.bucket[t].lastApplied \in st.gcOffset .. next
      BY <1>1 DEF Within
    <3>2. next \in Nat /\ \A i \in st.gcOffset .. next : i \in Nat
      BY <1>2
    <3> QED
      BY <3>1, <3>2
  <2> HIDE DEF S, mark
  <2>3. \E x \in S : \A y \in S : x <= y
    BY <2>2, LeastNatural
  <2> QED
    BY <2>1, <2>3 DEF Min
<1> HIDE DEF u, mark, next, n, drop
<1>9. PICK m, l \in Nat : m = mark /\ l = Len(u.ledger) /\ next = m + l /\ l >= MaxLedger
  <2>1. mark \in Nat
    BY <1>2, <1>3
  <2>2. Len(u.ledger) \in Nat /\ next = mark + Len(u.ledger) /\ Len(u.ledger) >= MaxLedger
    BY <1>6, <1>7
  <2> QED
    BY <2>1, <2>2
<1>10. mark # next
  BY <1>6, <1>9
<1>11. PICK t \in Ticks(st) : st.bucket[t].lastApplied = mark
  BY <1>8, <1>10
<1>12. next - st.bucket[t].lastApplied >= MaxLedger
  BY <1>6, <1>9, <1>11
<1> QED
  BY <1>11, <1>12 DEF next

SubPoolFields ==
  {"pool", "shares", "notional", "recovery", "dust", "gen", "rotateLog",
   "dormant", "lastPrice"}

PositionFields ==
  {"status", "dir", "shares", "notional", "recovery", "tick", "gen"}

IsSubPool(s) == s = [f \in SubPoolFields |-> s[f]]

IsPosition(q) == q = [f \in PositionFields |-> q[f]]

IsLog(log, n) ==
  /\ log \in Seq([gen : Nat, tick : Nat])
  /\ Len(log) = n
  /\ \A i \in 1 .. n : log[i].gen = i - 1

(* The generations of s are numbered without a gap.                        *)
Numbered(s) ==
  /\ IsSubPool(s)
  /\ s.gen \in [Direction -> Nat]
  /\ s.rotateLog = [d \in Direction |-> s.rotateLog[d]]
  /\ \A d \in Direction : IsLog(s.rotateLog[d], s.gen[d])

(* A position of a generation that is running or has ended.                *)
Placed(s, q) ==
  /\ IsPosition(q)
  /\ q.dir \in Direction
  /\ q.gen \in 0 .. s.gen[q.dir]

-----------------------------------------------------------------------------
(* Most operators do not touch the generations and their log.              *)
SameGens(s, t) == IsSubPool(t) /\ t.gen = s.gen /\ t.rotateLog = s.rotateLog

(* The others only ever end generations.                                   *)
ComesAfter(s, t) ==
  /\ Numbered(t)
  /\ \A d \in Direction : s.gen[d] <= t.gen[d]

LEMMA SameFollows ==
  ASSUME NEW s, NEW t, Numbered(s), SameGens(s, t)
  PROVE  ComesAfter(s, t)
  BY DEF Numbered, SameGens, ComesAfter

LEMMA FollowsTrans ==
  ASSUME NEW s, NEW t, NEW u, Numbered(s), ComesAfter(s, t), ComesAfter(t, u)
  PROVE  ComesAfter(s, u)
  BY DEF Numbered, ComesAfter

LEMMA FollowsSelf ==
  ASSUME NEW s, Numbered(s)
  PROVE  ComesAfter(s, s)
  BY DEF Numbered, ComesAfter

LEMMA CheckedSame ==
  ASSUME NEW s
  PROVE  Checked(s).sp = s
  BY DEF Checked, Ok, Fail

-----------------------------------------------------------------------------
LEMMA SettleSame ==
  ASSUME NEW s, NEW w \in Direction, NEW p, IsSubPool(s)
  PROVE  SameGens(s, Settle(s, w, p).sp)
  BY DEF Settle, SameGens, IsSubPool, SubPoolFields, Ok, Fail

LEMMA LogGrows ==
  ASSUME NEW log, NEW n \in Nat, NEW r \in [gen : Nat, tick : Nat],
         IsLog(log, n), r.gen = n
  PROVE  IsLog(Append(log, r), n + 1)
  <1> DEFINE S == [gen : Nat, tick : Nat]
  <1>1. log \in Seq(S) /\ Len(log) = n /\ r \in S
    BY DEF IsLog
  <1> HIDE DEF S
  <1>2. /\ Append(log, r) \in Seq(S)
        /\ Len(Append(log, r)) = n + 1
        /\ \A i \in 1 .. n : Append(log, r)[i] = log[i]
        /\ Append(log, r)[n + 1] = r
    BY <1>1
  <1>3. \A i \in 1 .. n + 1 : Append(log, r)[i].gen = i - 1
    <2>1. \A i \in 1 .. n : log[i].gen = i - 1
      BY DEF IsLog
    <2>2. (n + 1) - 1 = n
      OBVIOUS
    <2>3. \A i \in 1 .. n + 1 : i \in 1 .. n \/ i = n + 1
      OBVIOUS
    <2> QED
      BY <1>2, <2>1, <2>2, <2>3
  <1> QED
    BY <1>2, <1>3 DEF IsLog, S

(* A rotation writes the record of the generation it ends and starts the   *)
(* next one.                                                               *)
LEMMA RotateFollows ==
  ASSUME NEW s, NEW d \in Direction, NEW p \in Nat, Numbered(s)
  PROVE  ComesAfter(s, Rotate(s, d, p).sp)
  <1> DEFINE t == Rotate(s, d, p).sp
             r == RotateRecord(s, d, BucketTickOf(p))
  <1>1. CASE t = s
    BY <1>1, FollowsSelf
  <1>2. CASE t # s
    <2>1. /\ IsSubPool(t)
          /\ t.gen = [s.gen EXCEPT ![d] = @ + 1]
          /\ t.rotateLog = [s.rotateLog EXCEPT ![d] = Append(@, r)]
      BY ZenonT(30), <1>2 DEF Rotate, Numbered, IsSubPool, SubPoolFields, Ok, Fail
    <2>2. s.gen \in [Direction -> Nat]
      BY DEF Numbered
    <2>3. t.gen \in [Direction -> Nat] /\ \A e \in Direction : s.gen[e] <= t.gen[e]
      BY <2>1, <2>2
    <2>4. r \in [gen : Nat, tick : Nat] /\ r.gen = s.gen[d]
      BY <2>2, CoreParameters DEF RotateRecord, BucketTickOf
    <2>5. IsLog(Append(s.rotateLog[d], r), s.gen[d] + 1)
      <3>1. IsLog(s.rotateLog[d], s.gen[d])
        BY DEF Numbered
      <3> QED
        BY <3>1, <2>2, <2>4, LogGrows
    <2>6. s.rotateLog = [e \in Direction |-> s.rotateLog[e]]
      BY DEF Numbered
    <2>7. t.rotateLog = [e \in Direction |-> t.rotateLog[e]]
      BY <2>1, <2>6
    <2>8. ASSUME NEW e \in Direction PROVE IsLog(t.rotateLog[e], t.gen[e])
      <3>1. CASE e = d
        BY <3>1, <2>1, <2>2, <2>5, <2>6
      <3>2. CASE e # d
        <4>1. t.rotateLog[e] = s.rotateLog[e] /\ t.gen[e] = s.gen[e]
          BY <3>2, <2>1, <2>2, <2>6
        <4> QED
          BY <4>1 DEF Numbered
      <3> QED
        BY <3>1, <3>2
    <2> QED
      BY <2>1, <2>3, <2>7, <2>8 DEF ComesAfter, Numbered
  <1> QED
    BY <1>1, <1>2

LEMMA RotateBothFollows ==
  ASSUME NEW s, NEW p \in Nat, Numbered(s)
  PROVE  ComesAfter(s, RotateBoth(s, p).sp)
  <1> DEFINE long == Rotate(s, "Long", p).sp
  <1>1. "Long" \in Direction /\ "Short" \in Direction
    BY DEF Direction
  <1>2. ComesAfter(s, long)
    BY <1>1, RotateFollows
  <1>3. ComesAfter(long, Rotate(long, "Short", p).sp)
    BY <1>1, <1>2, RotateFollows DEF ComesAfter
  <1>4. ComesAfter(s, Rotate(long, "Short", p).sp)
    BY <1>2, <1>3, FollowsTrans
  <1> QED
    BY <1>2, <1>4 DEF RotateBoth

LEMMA SyncFollows ==
  ASSUME NEW s, NEW p \in Nat, Numbered(s)
  PROVE  ComesAfter(s, SyncPool(s, p).sp)
  <1> DEFINE w == Winner(s, p)
             settled == Settle(s, w, p)
             priced == [settled.sp EXCEPT !.lastPrice = p]
             rotated == RotateBoth(priced, p)
             renewed == [s EXCEPT !.lastPrice = p]
  <1>1. w \in Direction
    BY DEF Winner, Direction
  <1>2. SameGens(s, settled.sp)
    BY <1>1, SettleSame DEF Numbered
  <1>3. ComesAfter(s, settled.sp)
    BY <1>2, SameFollows
  <1>4. SameGens(s, priced)
    BY <1>2 DEF SameGens, IsSubPool, SubPoolFields
  <1>5. ComesAfter(s, priced)
    BY <1>4, SameFollows
  <1>6. ComesAfter(s, rotated.sp)
    <2>1. Numbered(priced)
      BY <1>5 DEF ComesAfter
    <2>2. ComesAfter(priced, rotated.sp)
      BY <2>1, RotateBothFollows
    <2> QED
      BY <1>5, <2>2, FollowsTrans
  <1>7. SameGens(s, renewed)
    BY DEF SameGens, Numbered, IsSubPool, SubPoolFields
  <1>8. ComesAfter(s, renewed)
    BY <1>7, SameFollows
  <1>9. SyncPool(s, p).sp \in {renewed, s, settled.sp, rotated.sp}
    BY CheckedSame DEF SyncPool, Fail
  <1> QED
    BY <1>3, <1>6, <1>8, <1>9, FollowsSelf

-----------------------------------------------------------------------------
(* Positions: what happens to the sub-pool leaves them placed, and so does *)
(* migration.                                                              *)
LEMMA PlacedFollows ==
  ASSUME NEW s, NEW t, NEW q, Numbered(s), ComesAfter(s, t), Placed(s, q)
  PROVE  Placed(t, q)
  <1>1. /\ q.dir \in Direction
        /\ s.gen \in [Direction -> Nat] /\ t.gen \in [Direction -> Nat]
        /\ s.gen[q.dir] <= t.gen[q.dir]
    BY DEF Placed, ComesAfter, Numbered
  <1> QED
    BY <1>1 DEF Placed

LEMMA ClosedPlaced ==
  ASSUME NEW s, NEW q, Placed(s, q)
  PROVE  /\ Placed(s, Closed(q))
         /\ Placed(s, WithoutRecovery(q))
         /\ Placed(s, WithoutShares(q))
  BY DEF Placed, IsPosition, PositionFields, Closed, WithoutShares, WithoutRecovery

LEMMA MigratedPlaced ==
  ASSUME NEW s, NEW q, Numbered(s), Placed(s, q)
  PROVE  Placed(s, Migrated(s, q))
  <1>1. s.gen[q.dir] \in 0 .. s.gen[q.dir]
    BY DEF Numbered, Placed
  <1>2. /\ IsPosition(Migrated(s, q))
        /\ Migrated(s, q).dir = q.dir
        /\ Migrated(s, q).gen = s.gen[q.dir]
    BY DEF Migrated, Placed, IsPosition, PositionFields
  <1> QED
    BY <1>1, <1>2 DEF Placed

LEMMA TouchFollows ==
  ASSUME NEW s, NEW p \in Nat, NEW q, Numbered(s), Placed(s, q)
  PROVE  /\ ComesAfter(s, Touch(s, p, q).sp)
         /\ Placed(Touch(s, p, q).sp, Touch(s, p, q).pos)
  <1> DEFINE t == SyncPool(s, p).sp
  <1>1. ComesAfter(s, t)
    BY SyncFollows
  <1>2. Placed(t, q)
    BY <1>1, PlacedFollows
  <1>3. Placed(t, Migrated(t, q))
    BY <1>1, <1>2, MigratedPlaced DEF ComesAfter
  <1>4. /\ Touch(s, p, q).sp = t
        /\ Touch(s, p, q).pos \in {q, Migrated(t, q)}
    BY DEF Touch
  <1> QED
    BY <1>1, <1>2, <1>3, <1>4

LEMMA LeaveSame ==
  ASSUME NEW s, NEW q, NEW v, IsSubPool(s)
  PROVE  SameGens(s, LeaveActive(s, q, v)) /\ SameGens(s, LeaveRecovery(s, q))
  BY DEF LeaveActive, LeaveRecovery, SameGens, IsSubPool, SubPoolFields

(* The outcome r of a call on s that leaves a position.                    *)
Good(s, r) == r.err = "Ok" => ComesAfter(s, r.sp) /\ Placed(r.sp, r.pos)

(* What the three ways of leaving share: after Touch the sub-pool's        *)
(* generations stay and the position's direction and generation stay.      *)
LEMMA LeavingGood ==
  ASSUME NEW s, NEW p \in Nat, NEW q, Numbered(s), Placed(s, q),
         NEW u, SameGens(Touch(s, p, q).sp, u),
         NEW x, Placed(Touch(s, p, q).sp, x)
  PROVE  ComesAfter(s, u) /\ Placed(u, x)
  <1> DEFINE t == Touch(s, p, q).sp
  <1>1. ComesAfter(s, t)
    BY TouchFollows
  <1>2. Numbered(t)
    BY <1>1 DEF ComesAfter
  <1>3. ComesAfter(t, u)
    BY <1>2, SameFollows
  <1> QED
    BY <1>1, <1>2, <1>3, FollowsTrans, PlacedFollows

LEMMA CloseGood ==
  ASSUME NEW s, NEW p \in Nat, NEW q, Numbered(s), Placed(s, q)
  PROVE  Good(s, ClosePosition(s, p, q))
  <1> DEFINE t == Touch(s, p, q)
             r == ClosePosition(s, p, q)
             active == LeaveActive(t.sp, t.pos, ActiveValue(t.sp, t.pos))
             middle == IF HasPool(t.sp, t.pos) THEN active ELSE t.sp
  <1> SUFFICES ASSUME r.err = "Ok" PROVE ComesAfter(s, r.sp) /\ Placed(r.sp, r.pos)
    BY DEF Good
  <1>1. /\ r.sp = LeaveRecovery(middle, t.pos)
        /\ r.pos \in {Closed(WithoutShares(t.pos)), Closed(WithoutRecovery(t.pos))}
    BY DEF ClosePosition, CloseTouched, Finished, Fail
  <1>2. IsSubPool(t.sp) /\ Placed(t.sp, t.pos)
    BY TouchFollows DEF ComesAfter, Numbered
  <1>3. SameGens(t.sp, middle)
    BY <1>2, LeaveSame DEF SameGens
  <1>4. SameGens(middle, LeaveRecovery(middle, t.pos))
    BY <1>3, LeaveSame DEF SameGens
  <1>5. SameGens(t.sp, r.sp)
    BY <1>1, <1>3, <1>4 DEF SameGens
  <1>6. Placed(t.sp, r.pos)
    BY <1>1, <1>2, ClosedPlaced
  <1> QED
    BY <1>5, <1>6, LeavingGood

LEMMA ForceCloseGood ==
  ASSUME NEW s, NEW p \in Nat, NEW q, Numbered(s), Placed(s, q)
  PROVE  Good(s, ForceClosePosition(s, p, q))
  <1> DEFINE t == Touch(s, p, q)
             r == ForceClosePosition(s, p, q)
             active == LeaveActive(t.sp, t.pos, 0)
             left == LeaveRecovery(IF t.pos.shares > 0 THEN active ELSE t.sp, t.pos)
  <1> SUFFICES ASSUME r.err = "Ok" PROVE ComesAfter(s, r.sp) /\ Placed(r.sp, r.pos)
    BY DEF Good
  <1>1. /\ r.sp = [left EXCEPT !.dust[t.pos.dir] = @ + RecoveryValue(t.sp, t.pos)]
        /\ r.pos = Closed(WithoutShares(t.pos))
    BY DEF ForceClosePosition, ForceCloseTouched, Finished, Fail
  <1>2. IsSubPool(t.sp) /\ Placed(t.sp, t.pos)
    BY TouchFollows DEF ComesAfter, Numbered
  <1>3. SameGens(t.sp, left)
    BY <1>2, LeaveSame DEF SameGens
  <1>4. SameGens(t.sp, r.sp)
    BY <1>1, <1>3 DEF SameGens, IsSubPool, SubPoolFields
  <1>5. Placed(t.sp, r.pos)
    BY <1>1, <1>2, ClosedPlaced
  <1> QED
    BY <1>4, <1>5, LeavingGood

LEMMA ClaimGood ==
  ASSUME NEW s, NEW p \in Nat, NEW q, Numbered(s), Placed(s, q)
  PROVE  Good(s, ClaimRecovery(s, p, q))
  <1> DEFINE t == Touch(s, p, q)
             r == ClaimRecovery(s, p, q)
  <1> SUFFICES ASSUME r.err = "Ok" PROVE ComesAfter(s, r.sp) /\ Placed(r.sp, r.pos)
    BY DEF Good
  <1>1. r.sp = LeaveRecovery(t.sp, t.pos) /\ r.pos = WithoutRecovery(t.pos)
    BY DEF ClaimRecovery, ClaimTouched, Finished, Fail
  <1>2. IsSubPool(t.sp) /\ Placed(t.sp, t.pos)
    BY TouchFollows DEF ComesAfter, Numbered
  <1>3. SameGens(t.sp, r.sp)
    BY <1>1, <1>2, LeaveSame
  <1>4. Placed(t.sp, r.pos)
    BY <1>1, <1>2, ClosedPlaced
  <1> QED
    BY <1>3, <1>4, LeavingGood

LEMMA OpenGood ==
  ASSUME NEW s, NEW p \in Nat, NEW d \in Direction, NEW g, Numbered(s)
  PROVE  Good(s, OpenPosition(s, p, d, g))
  <1> DEFINE t == SyncPool(s, p).sp
             r == OpenPosition(s, p, d, g)
  <1> SUFFICES ASSUME r.err = "Ok" PROVE ComesAfter(s, r.sp) /\ Placed(r.sp, r.pos)
    BY DEF Good
  <1>1. ComesAfter(s, t) /\ Numbered(t)
    BY SyncFollows DEF ComesAfter
  <1>2. SameGens(t, r.sp)
    BY ZenonT(30), <1>1 DEF OpenPosition, OpenSynced, Fail, SameGens, Numbered, IsSubPool, SubPoolFields
  <1>3. ComesAfter(t, r.sp)
    BY <1>1, <1>2, SameFollows
  <1>4. /\ IsPosition(r.pos)
        /\ r.pos.dir = d
        /\ r.pos.gen = t.gen[d]
    BY DEF OpenPosition, OpenSynced, Fail, NewPosition, IsPosition, PositionFields
  <1>5. Placed(r.sp, r.pos)
    <2>1. t.gen[d] \in 0 .. t.gen[d]
      BY <1>1 DEF Numbered
    <2> QED
      BY <1>2, <1>4, <2>1 DEF SameGens, Placed
  <1> QED
    BY <1>1, <1>3, <1>5, FollowsTrans

-----------------------------------------------------------------------------
(* The list of positions.                                                  *)
IsList(q) == q \in Seq({q[i] : i \in 1 .. Len(q)})

LEMMA ListGrows ==
  ASSUME NEW q, IsList(q), NEW x
  PROVE  /\ IsList(Append(q, x))
         /\ Len(Append(q, x)) = Len(q) + 1
         /\ Len(q) \in Nat
         /\ \A i \in 1 .. Len(q) : Append(q, x)[i] = q[i]
         /\ Append(q, x)[Len(q) + 1] = x
  BY DEF IsList

LEMMA FunctionIsSeq ==
  ASSUME NEW n \in Nat, NEW T, NEW f \in [1 .. n -> T]
  PROVE  f \in Seq(T)
  OBVIOUS

LEMMA FunctionIsList ==
  ASSUME NEW n \in Nat, NEW f, f = [i \in 1 .. n |-> f[i]]
  PROVE  IsList(f) /\ Len(f) = n
  <1> DEFINE T == {f[i] : i \in 1 .. n}
  <1>1. f \in [1 .. n -> T]
    OBVIOUS
  <1> HIDE DEF T
  <1>2. f \in Seq(T) /\ Len(f) = n
    BY <1>1, FunctionIsSeq, LenProperties
  <1> QED
    BY <1>2 DEF IsList, T

LEMMA OwnPlace ==
  ASSUME NEW log, NEW n \in Nat, DOMAIN log = 1 .. n, \A j \in 1 .. n : log[j].gen = j - 1,
         NEW g \in Nat, g + 1 \in DOMAIN log
  PROVE  {i \in DOMAIN log : log[i].gen = g} = {g + 1}
<1>1. log[g + 1].gen = g
  OBVIOUS
<1>2. ASSUME NEW i \in DOMAIN log, log[i].gen = g PROVE i = g + 1
  BY <1>2
<1> QED
  BY <1>1, <1>2

-----------------------------------------------------------------------------
(***************************************************************************)
(* Money.  A sub-pool is sound when its amounts are natural numbers and    *)
(* its stores are sound.  Recovery shares are not spoken of: the engine's  *)
(* own check, which every accepted call ends with, ties them to the store. *)
(***************************************************************************)
PoolSound(s) ==
  /\ IsSubPool(s)
  /\ s.pool \in [Direction -> Nat]
  /\ s.shares \in [Direction -> Nat]
  /\ s.notional \in [Direction -> Nat]
  /\ s.dust \in [Direction -> Nat]
  /\ s.recovery = [d \in Direction |-> s.recovery[d]]
  /\ s.dormant = [d \in Direction |-> s.dormant[d]]
  /\ \A d \in Direction : /\ StoreSound(s.dormant[d]) /\ Covered(s.dormant[d])
                          /\ s.dormant[d].dir = d
  /\ s.lastPrice \in Nat

KeepsAll(s, t) == \A d \in Direction : Keeps(s.dormant[d], t.dormant[d])

LEMMA Sides ==
  ASSUME NEW w \in Direction
  PROVE  /\ Opposite(w) \in Direction /\ Opposite(w) # w
         /\ \A d \in Direction : d = w \/ d = Opposite(w)
         /\ "Long" \in Direction /\ "Short" \in Direction
BY DEF Direction, Opposite

LEMMA FundsBySide ==
  ASSUME NEW s, PoolSound(s), NEW w \in Direction
  PROVE  /\ Funds(s) = SideFunds(s, w) + SideFunds(s, Opposite(w))
         /\ Funds(s) \in Nat
         /\ \A d \in Direction :
              /\ SideFunds(s, d) \in Nat
              /\ SideFunds(s, d) = s.pool[d] + s.dust[d] + StoreMoney(s.dormant[d])
              /\ s.pool[d] \in Nat /\ s.dust[d] \in Nat /\ StoreMoney(s.dormant[d]) \in Nat
<1>1. ASSUME NEW d \in Direction
      PROVE  /\ SideFunds(s, d) \in Nat
             /\ SideFunds(s, d) = s.pool[d] + s.dust[d] + StoreMoney(s.dormant[d])
             /\ s.pool[d] \in Nat /\ s.dust[d] \in Nat /\ StoreMoney(s.dormant[d]) \in Nat
  <2>1. s.pool[d] \in Nat /\ s.dust[d] \in Nat /\ StoreTyped(s.dormant[d])
    BY DEF PoolSound, StoreSound
  <2>2. s.dormant[d].accruedTotal \in Nat /\ s.dormant[d].pending \in Nat
    BY <2>1 DEF StoreTyped
  <2> QED
    BY <2>1, <2>2 DEF SideFunds, StoreMoney
<1>2. SideFunds(s, "Long") \in Nat /\ SideFunds(s, "Short") \in Nat
  BY <1>1 DEF Direction
<1>3. Funds(s) = SideFunds(s, w) + SideFunds(s, Opposite(w)) /\ Funds(s) \in Nat
  BY <1>2 DEF Funds, Opposite, Direction
<1> QED
  BY <1>1, <1>3

(* What sync_pool asks of the losing side.                                 *)
LEMMA DemandNat ==
  ASSUME NEW s, PoolSound(s), NEW w \in Direction, NEW p \in Nat, s.lastPrice # 0
  PROVE  /\ ActiveDemand(s, w, p) \in Nat /\ Demand(s, w, p) \in Nat
         /\ ActiveDemand(s, w, p) <= Demand(s, w, p)
         /\ Transfer(s, w, p) \in Nat
         /\ Transfer(s, w, p) <= Demand(s, w, p)
         /\ Transfer(s, w, p) <= s.pool[Opposite(w)]
<1>1. s.lastPrice \in Nat \ {0} /\ s.notional[w] \in Nat /\ s.pool[Opposite(w)] \in Nat
  BY Sides DEF PoolSound
<1>2. ActiveDemand(s, w, p) \in Nat
  <2>1. Distance(p, s.lastPrice) \in Nat
    BY <1>1 DEF Distance
  <2>2. PICK n \in Nat : n = MulDivFloor(s.notional[w], Distance(p, s.lastPrice), s.lastPrice)
    BY <1>1, <2>1, FloorPart
  <2>3. SignedPnlIncrement(Sign(w), s.notional[w], s.lastPrice, p) \in {n, -n}
    BY <2>2 DEF SignedPnlIncrement
  <2> QED
    BY <2>3 DEF ActiveDemand, Larger
<1>3. ASSUME NEW q \in Nat PROVE TotalOutstanding(s.dormant[w], q) \in Nat
  <2> DEFINE st == s.dormant[w]
             owed == [t \in Ticks(st) |-> OutstandingClaim(st.dir, st.bucket[t], q)]
             T == ActivatedTicks(st, q)
  <2>1. StoreTyped(st)
    BY DEF PoolSound, StoreSound
  <2>2. T \subseteq Ticks(st) /\ IsFiniteSet(T)
    BY <2>1, FS_Subset DEF ActivatedTicks, StoreTyped
  <2>3. \A t \in T : owed[t] \in Nat
    BY <2>1, <2>2, ClaimNat DEF StoreTyped
  <2>4. TotalOutstanding(st, q) = SumOver(owed, T)
    BY DEF TotalOutstanding
  <2> HIDE DEF owed, T
  <2>5. TotalOutstanding(st, q) \in Nat
    BY <2>2, <2>3, <2>4, SumNat DEF Amounts
  <2> QED
    BY <2>5
<1>4. DormantDemand(s, w, p) \in Nat
  BY <1>1, <1>3 DEF DormantDemand, Monus
<1>5. Demand(s, w, p) \in Nat /\ ActiveDemand(s, w, p) <= Demand(s, w, p)
  BY <1>2, <1>4 DEF Demand
<1> QED
  BY <1>1, <1>2, <1>5 DEF Transfer, Smaller

LEMMA DistributeSound ==
  ASSUME NEW st, StoreSound(st), NEW p \in Nat, NEW alloc \in Nat
  PROVE  Distributed(st, p, alloc, Distribute(st, p, alloc))
BY DistributeEagerSound, DistributeLazySound DEF Distribute

LEMMA DistributeCovers ==
  ASSUME NEW st, StoreSound(st), Covered(st), NEW p \in Nat, NEW alloc \in Nat
  PROVE  Covered(Distribute(st, p, alloc))
BY DistributeCovered DEF Distribute

(* The calls that leave the funds of the sub-pool as they are.             *)
Clears(s, t) == PoolSound(t) /\ Funds(t) = Funds(s) /\ KeepsAll(s, t)

LEMMA KeepsSelf == ASSUME NEW st, StoreSound(st) PROVE Keeps(st, st)
<1>1. StoreTyped(st) /\ Within(st)
  BY DEF StoreSound
<1>2. \A t \in Ticks(st) : Promised(st, t) \in Nat
  BY <1>1, PromisedNat
<1> QED
  BY <1>2 DEF Keeps

LEMMA KeepsTrans ==
  ASSUME NEW st, NEW u, NEW v, Keeps(st, u), Keeps(u, v) PROVE Keeps(st, v)
<1> SUFFICES ASSUME NEW t \in Ticks(st)
             PROVE  /\ t \in Ticks(v)
                    /\ Promised(st, t) \in Nat /\ Promised(v, t) \in Nat
                    /\ Promised(st, t) <= Promised(v, t)
  BY DEF Keeps
<1>1. /\ t \in Ticks(u) /\ Promised(st, t) \in Nat /\ Promised(u, t) \in Nat
      /\ Promised(st, t) <= Promised(u, t)
  BY DEF Keeps
<1>2. t \in Ticks(v) /\ Promised(v, t) \in Nat /\ Promised(u, t) <= Promised(v, t)
  BY <1>1 DEF Keeps
<1> QED
  BY <1>1, <1>2

LEMMA ClearsSelf == ASSUME NEW s, PoolSound(s) PROVE Clears(s, s)
BY KeepsSelf DEF Clears, KeepsAll, PoolSound

LEMMA ClearsTrans ==
  ASSUME NEW s, NEW t, NEW u, Clears(s, t), Clears(t, u) PROVE Clears(s, u)
<1>1. KeepsAll(s, u)
  BY KeepsTrans DEF Clears, KeepsAll
<1> QED
  BY <1>1 DEF Clears

(* The winning side is paid out of the losing one's pool; what goes to     *)
(* neither its pool nor its buckets goes to its dust.                      *)
LEMMA SettleClears ==
  ASSUME NEW s, PoolSound(s), NEW w \in Direction, NEW p \in Nat, s.lastPrice # 0,
         Settle(s, w, p).err = "Ok"
  PROVE  Clears(s, Settle(s, w, p).sp) /\ Settle(s, w, p).sp.lastPrice = s.lastPrice
<1> DEFINE o == Opposite(w)
           transfer == Transfer(s, w, p)
           toActive == MulDivFloor(transfer, ActiveDemand(s, w, p), Demand(s, w, p))
           toRecovery == transfer - toActive
           st == s.dormant[w]
           paid == [s EXCEPT !.pool[w] = @ + toActive, !.pool[o] = @ - transfer]
           placed == [paid EXCEPT !.dormant[w] = Distribute(@, p, toRecovery),
                                  !.dust[w] = @ + Residual(st, p, toRecovery)]
           t == Settle(s, w, p).sp
<1>1. /\ transfer = 0 => t = s
      /\ transfer # 0 /\ toRecovery = 0 => t = paid
      /\ transfer # 0 /\ toRecovery # 0 => t = placed
  <2>1. transfer = 0 => t = s
    BY DEF Settle, Ok
  <2>2. transfer # 0 /\ toRecovery = 0 => t = paid
    BY DEF Settle, Ok
  <2>3. transfer # 0 /\ toRecovery # 0 => t = placed
    BY DEF Settle, Ok, Fail
  <2> QED
    BY <2>1, <2>2, <2>3
<1>2. /\ o \in Direction /\ o # w
      /\ \A d \in Direction : d = w \/ d = o
  BY Sides
<1>3. CASE transfer = 0
  BY <1>1, <1>3, ClearsSelf
<1>4. CASE transfer # 0
  <2>1. /\ transfer \in Nat /\ transfer <= s.pool[o]
        /\ ActiveDemand(s, w, p) \in Nat /\ Demand(s, w, p) \in Nat \ {0}
        /\ ActiveDemand(s, w, p) <= Demand(s, w, p)
    BY <1>4, DemandNat
  <2>2. toActive \in Nat /\ toActive <= transfer
    BY <2>1, FloorPart
  <2>3. toRecovery \in Nat /\ toActive + toRecovery = transfer
    BY <2>1, <2>2
  <2> HIDE DEF transfer, toActive, toRecovery, o, t
  <2>4. /\ s.pool[w] \in Nat /\ s.pool[o] \in Nat /\ s.dust[w] \in Nat
        /\ StoreSound(st) /\ Covered(st) /\ st.dir = w
    BY <1>2 DEF PoolSound
  <2>5. PICK a \in Nat : a = s.pool[w] + toActive
    BY <2>2, <2>4
  <2>6. PICK b \in Nat : b = s.pool[o] - transfer
    BY <2>1, <2>4
  <2>7. /\ IsSubPool(paid)
        /\ paid.pool = [s.pool EXCEPT ![w] = a, ![o] = b]
        /\ paid.shares = s.shares /\ paid.notional = s.notional /\ paid.dust = s.dust
        /\ paid.recovery = s.recovery /\ paid.dormant = s.dormant
        /\ paid.lastPrice = s.lastPrice
    BY <1>2, <2>5, <2>6 DEF PoolSound, IsSubPool, SubPoolFields
  <2>8. /\ paid.pool \in [Direction -> Nat] /\ paid.pool[w] = a /\ paid.pool[o] = b
    BY <1>2, <2>7 DEF PoolSound
  <2>9. PoolSound(paid)
    BY <2>7, <2>8 DEF PoolSound
  <2>10. /\ Funds(s) = SideFunds(s, w) + SideFunds(s, o)
         /\ SideFunds(s, w) = s.pool[w] + s.dust[w] + StoreMoney(st)
         /\ SideFunds(s, o) = s.pool[o] + s.dust[o] + StoreMoney(s.dormant[o])
         /\ s.dust[o] \in Nat /\ StoreMoney(st) \in Nat /\ StoreMoney(s.dormant[o]) \in Nat
    BY <1>2, FundsBySide DEF o
  <2>11. CASE toRecovery = 0
    <3>1. t = paid
      BY <1>1, <1>4, <2>11
    <3> HIDE DEF paid
    <3>2. /\ Funds(paid) = SideFunds(paid, w) + SideFunds(paid, o)
          /\ SideFunds(paid, w) = a + s.dust[w] + StoreMoney(st)
          /\ SideFunds(paid, o) = b + s.dust[o] + StoreMoney(s.dormant[o])
      BY <1>2, <2>7, <2>8, <2>9, FundsBySide DEF o
    <3>3. toActive = transfer
      BY <2>1, <2>2, <2>3, <2>11
    <3>4. Funds(paid) = Funds(s)
      <4> DEFINE n == StoreMoney(st)
                 m == StoreMoney(s.dormant[o])
      <4>1. n \in Nat /\ m \in Nat /\ s.dust[o] \in Nat /\ s.dust[w] \in Nat
        BY <2>4, <2>10
      <4>2. /\ Funds(paid) = (a + s.dust[w] + n) + (b + s.dust[o] + m)
            /\ Funds(s) = (s.pool[w] + s.dust[w] + n) + (s.pool[o] + s.dust[o] + m)
        BY <2>10, <3>2
      <4> HIDE DEF n, m
      <4> QED
        <5>1. PICK x, y, e, f \in Nat : /\ x = s.pool[w] /\ y = s.pool[o]
                                        /\ e = s.dust[w] /\ f = s.dust[o]
          BY <2>4, <4>1
        <5>2. /\ Funds(paid) = (a + e + n) + (b + f + m)
              /\ Funds(s) = (x + e + n) + (y + f + m)
              /\ a = x + transfer /\ b = y - transfer
          BY <2>5, <2>6, <3>3, <4>2, <5>1
        <5>3. transfer \in Nat
          BY <2>1
        <5>4. a + e + n = (x + e + n) + transfer /\ b + f + m = (y + f + m) - transfer
          BY <4>1, <5>1, <5>2, <5>3
        <5>5. x + e + n \in Nat /\ y + f + m \in Nat
          BY <4>1, <5>1
        <5> QED
          BY <5>2, <5>3, <5>4, <5>5
    <3>5. KeepsAll(s, paid)
      BY <2>7, KeepsSelf DEF KeepsAll, PoolSound
    <3> QED
      BY <2>7, <2>9, <3>1, <3>4, <3>5 DEF Clears, t
  <2>12. CASE toRecovery # 0
    <3> DEFINE u == Distribute(st, p, toRecovery)
               left == Residual(st, p, toRecovery)
    <3>1. t = placed
      BY <1>1, <1>4, <2>12
    <3>2. Distributed(st, p, toRecovery, u)
      BY <2>3, <2>4, DistributeSound
    <3>3. /\ StoreSound(u) /\ u.dir = w /\ left \in Nat /\ Keeps(st, u)
          /\ StoreMoney(u) + left = StoreMoney(st) + toRecovery
          /\ StoreMoney(u) \in Nat
      BY <2>4, <3>2, MoneyNat DEF Distributed, StoreSound
    <3>c. Covered(u)
      BY <2>3, <2>4, DistributeCovers
    <3> HIDE DEF u, left
    <3>4. PICK c \in Nat : c = s.dust[w] + left
      BY <2>4, <3>3
    <3>5. /\ IsSubPool(placed)
          /\ placed.pool = paid.pool
          /\ placed.shares = s.shares /\ placed.notional = s.notional
          /\ placed.dust = [s.dust EXCEPT ![w] = c]
          /\ placed.recovery = s.recovery
          /\ placed.dormant = [s.dormant EXCEPT ![w] = u]
          /\ placed.lastPrice = s.lastPrice
      <4>1. placed = [paid EXCEPT !.dormant[w] = u, !.dust[w] = c]
        BY <2>7, <3>4 DEF u, left
      <4> HIDE DEF paid, placed
      <4> QED
        BY <2>7, <4>1 DEF IsSubPool, SubPoolFields
    <3> HIDE DEF placed, paid
    <3>6. /\ placed.dust \in [Direction -> Nat] /\ placed.dust[w] = c /\ placed.dust[o] = s.dust[o]
          /\ placed.dormant = [d \in Direction |-> placed.dormant[d]]
          /\ placed.dormant[w] = u /\ placed.dormant[o] = s.dormant[o]
      BY <1>2, <3>5 DEF PoolSound
    <3>7. PoolSound(placed)
      <4>1. \A d \in Direction : /\ StoreSound(placed.dormant[d]) /\ Covered(placed.dormant[d])
                                 /\ placed.dormant[d].dir = d
        BY <1>2, <3>3, <3>c, <3>6 DEF PoolSound
      <4> QED
        BY <2>9, <2>8, <3>5, <3>6, <4>1 DEF PoolSound
    <3>8. /\ Funds(placed) = SideFunds(placed, w) + SideFunds(placed, o)
          /\ SideFunds(placed, w) = a + c + StoreMoney(u)
          /\ SideFunds(placed, o) = b + s.dust[o] + StoreMoney(s.dormant[o])
      BY <1>2, <2>8, <3>5, <3>6, <3>7, FundsBySide DEF o
    <3>9. Funds(placed) = Funds(s)
      <4> DEFINE n == StoreMoney(st)
                 m == StoreMoney(s.dormant[o])
                 k == StoreMoney(u)
      <4>1. /\ n \in Nat /\ m \in Nat /\ k \in Nat /\ left \in Nat
            /\ s.dust[o] \in Nat /\ s.dust[w] \in Nat
            /\ k + left = n + toRecovery
        BY <2>4, <2>10, <3>3
      <4>2. /\ Funds(placed) = (a + c + k) + (b + s.dust[o] + m)
            /\ Funds(s) = (s.pool[w] + s.dust[w] + n) + (s.pool[o] + s.dust[o] + m)
        BY <2>10, <3>8
      <4> HIDE DEF n, m, k
      <4> QED
        <5>1. PICK x, y, e, f \in Nat : /\ x = s.pool[w] /\ y = s.pool[o]
                                        /\ e = s.dust[w] /\ f = s.dust[o]
          BY <2>4, <4>1
        <5>2. /\ Funds(placed) = (a + c + k) + (b + f + m)
              /\ Funds(s) = (x + e + n) + (y + f + m)
              /\ a = x + toActive /\ b = y - transfer /\ c = e + left
          BY <2>5, <2>6, <3>4, <4>2, <5>1
        <5>a. n \in Nat /\ m \in Nat /\ k \in Nat /\ left \in Nat
          BY <4>1
        <5>b. a = x + toActive /\ c = e + left /\ k + left = n + toRecovery
          BY <4>1, <5>2
        <5>c. b = y - transfer
          BY <5>2
        <5>3. transfer \in Nat /\ toActive \in Nat /\ toRecovery \in Nat
          BY <2>1, <2>2, <2>3
        <5>4. a + c + k = (x + e + n) + transfer
          BY <2>3, <5>a, <5>b, <5>3
        <5>5. b + f + m = (y + f + m) - transfer
          BY <5>a, <5>c, <5>3
        <5>6. x + e + n \in Nat /\ y + f + m \in Nat
          BY <5>a
        <5> QED
          BY <5>2, <5>3, <5>4, <5>5, <5>6
    <3>10. KeepsAll(s, placed)
      BY <1>2, <3>3, <3>6, KeepsSelf DEF KeepsAll, PoolSound
    <3> QED
      BY <3>1, <3>5, <3>7, <3>9, <3>10 DEF Clears, t
  <2> QED
    BY <2>11, <2>12
<1> QED
  BY <1>3, <1>4

(* Joining a bucket moves no money.                                        *)
LEMMA RotateClears ==
  ASSUME NEW s, PoolSound(s), NEW d \in Direction, NEW p \in Nat,
         Rotate(s, d, p).err = "Ok"
  PROVE  Clears(s, Rotate(s, d, p).sp) /\ Rotate(s, d, p).sp.lastPrice = s.lastPrice
<1> DEFINE o == Opposite(d)
           tick == BucketTickOf(p)
           st == s.dormant[d]
           u == InsertOrMerge(st, tick, p, s.shares[d], s.notional[d])
           t == Rotate(s, d, p).sp
           record == RotateRecord(s, d, tick)
           moved == [s EXCEPT !.dormant[d] = u, !.recovery[d] = @ + s.shares[d],
                              !.shares[d] = 0, !.notional[d] = 0,
                              !.rotateLog[d] = Append(@, record), !.gen[d] = @ + 1]
<1>1. t = s \/ t = moved
  BY DEF Rotate, Ok, Fail
<1>2. o \in Direction /\ o # d /\ \A e \in Direction : e = d \/ e = o
  BY Sides
<1>3. CASE t = s
  BY <1>3, ClearsSelf
<1>4. CASE t = moved
  <2>1. /\ StoreSound(st) /\ Covered(st) /\ st.dir = d
        /\ s.shares[d] \in Nat /\ s.notional[d] \in Nat /\ tick \in Nat
    <3>1. StoreSound(st) /\ Covered(st) /\ st.dir = d
      BY DEF PoolSound
    <3>2. s.shares[d] \in Nat /\ s.notional[d] \in Nat
      BY DEF PoolSound
    <3>3. tick \in Nat
      BY CoreParameters DEF BucketTickOf
    <3> QED
      BY <3>1, <3>2, <3>3
  <2> HIDE DEF tick
  <2>2. /\ StoreSound(u) /\ u.dir = d /\ StoreMoney(u) = StoreMoney(st) /\ Keeps(st, u)
        /\ Covered(u)
    <3>1. MergedInto(st, u)
      BY <2>1, InsertOrMergeSound
    <3>2. StoreSound(u) /\ u.dir = st.dir /\ Reworked(st, u)
      BY <3>1 DEF MergedInto
    <3>3. Covered(u)
      BY <2>1, <3>2, ReworkedCovered
    <3> QED
      BY <2>1, <3>1, <3>3 DEF MergedInto
  <2> HIDE DEF u, t, record, o
  <2>3. /\ IsSubPool(t)
        /\ t.pool = s.pool /\ t.dust = s.dust /\ t.lastPrice = s.lastPrice
        /\ t.shares = [s.shares EXCEPT ![d] = 0]
        /\ t.notional = [s.notional EXCEPT ![d] = 0]
        /\ t.recovery = [s.recovery EXCEPT ![d] = @ + s.shares[d]]
        /\ t.dormant = [s.dormant EXCEPT ![d] = u]
    BY <1>4 DEF PoolSound, IsSubPool, SubPoolFields
  <2>4. /\ t.shares \in [Direction -> Nat] /\ t.notional \in [Direction -> Nat]
        /\ t.recovery = [e \in Direction |-> t.recovery[e]]
        /\ t.dormant = [e \in Direction |-> t.dormant[e]]
        /\ t.dormant[d] = u /\ t.dormant[o] = s.dormant[o]
    <3>1. t.shares \in [Direction -> Nat] /\ t.notional \in [Direction -> Nat]
      BY <2>3 DEF PoolSound
    <3>2. t.recovery = [e \in Direction |-> t.recovery[e]]
      BY <2>3 DEF PoolSound
    <3>3. /\ t.dormant = [e \in Direction |-> t.dormant[e]]
          /\ t.dormant[d] = u /\ t.dormant[o] = s.dormant[o]
      BY <1>2, <2>3 DEF PoolSound
    <3> QED
      BY <3>1, <3>2, <3>3
  <2>5. PoolSound(t)
    <3>1. \A e \in Direction : /\ StoreSound(t.dormant[e]) /\ Covered(t.dormant[e])
                               /\ t.dormant[e].dir = e
      BY <1>2, <2>2, <2>4 DEF PoolSound
    <3> QED
      BY <2>3, <2>4, <3>1 DEF PoolSound
  <2>6. Funds(t) = Funds(s)
    <3>1. SideFunds(t, d) = SideFunds(s, d) /\ SideFunds(t, o) = SideFunds(s, o)
      BY <1>2, <2>2, <2>3, <2>4, <2>5, FundsBySide
    <3> QED
      BY <2>5, <3>1, FundsBySide DEF o
  <2>7. KeepsAll(s, t)
    BY <1>2, <2>2, <2>4, KeepsSelf DEF KeepsAll, PoolSound
  <2> QED
    BY <2>3, <2>5, <2>6, <2>7 DEF Clears, t
<1> QED
  BY <1>1, <1>3, <1>4

LEMMA RotateBothClears ==
  ASSUME NEW s, PoolSound(s), NEW p \in Nat, RotateBoth(s, p).err = "Ok"
  PROVE  Clears(s, RotateBoth(s, p).sp) /\ RotateBoth(s, p).sp.lastPrice = s.lastPrice
<1> DEFINE long == Rotate(s, "Long", p)
           both == Rotate(long.sp, "Short", p)
<1>1. "Long" \in Direction /\ "Short" \in Direction
  BY DEF Direction
<1>2. RotateBoth(s, p) = both /\ long.err = "Ok" /\ both.err = "Ok"
  BY DEF RotateBoth
<1> HIDE DEF both, long
<1>3. Clears(s, long.sp) /\ long.sp.lastPrice = s.lastPrice /\ PoolSound(long.sp)
  BY <1>1, <1>2, RotateClears DEF Clears, long
<1>4. Clears(long.sp, both.sp) /\ both.sp.lastPrice = s.lastPrice
  BY <1>1, <1>2, <1>3, RotateClears DEF both
<1> QED
  BY <1>2, <1>3, <1>4, ClearsTrans

LEMMA Repriced ==
  ASSUME NEW s, PoolSound(s), NEW p \in Nat
  PROVE  Clears(s, [s EXCEPT !.lastPrice = p]) /\ [s EXCEPT !.lastPrice = p].lastPrice = p
<1> DEFINE t == [s EXCEPT !.lastPrice = p]
<1>1. /\ IsSubPool(t) /\ t.lastPrice = p
      /\ t.pool = s.pool /\ t.shares = s.shares /\ t.notional = s.notional
      /\ t.dust = s.dust /\ t.recovery = s.recovery /\ t.dormant = s.dormant
  BY DEF PoolSound, IsSubPool, SubPoolFields
<1> HIDE DEF t
<1>2. PoolSound(t)
  BY <1>1 DEF PoolSound
<1>3. Funds(t) = Funds(s)
  BY <1>1 DEF Funds, SideFunds
<1>4. KeepsAll(s, t)
  BY <1>1, KeepsSelf DEF KeepsAll, PoolSound
<1>5. Clears(s, t) /\ t.lastPrice = p
  BY <1>1, <1>2, <1>3, <1>4 DEF Clears
<1> QED
  BY <1>5 DEF t

LEMMA CheckedOk ==
  ASSUME NEW s, Checked(s).err = "Ok" PROVE Checked(s).sp = s /\ SubPoolSound(s)
BY DEF Checked, Ok, Fail

(* A sync moves money only among those it is owed to.                      *)
LEMMA SyncClears ==
  ASSUME NEW s, PoolSound(s), NEW p \in Nat, SyncPool(s, p).err = "Ok"
  PROVE  /\ Clears(s, SyncPool(s, p).sp) /\ SyncPool(s, p).sp.lastPrice = p
         /\ SubPoolSound(SyncPool(s, p).sp)
<1> DEFINE settled == Settle(s, Winner(s, p), p)
           priced == [settled.sp EXCEPT !.lastPrice = p]
           rotated == RotateBoth(priced, p)
           renewed == [s EXCEPT !.lastPrice = p]
<1>1. CASE s.lastPrice \in {0, p}
  <2>1. SyncPool(s, p) = Checked(renewed)
    BY <1>1 DEF SyncPool
  <2> HIDE DEF renewed
  <2>2. SyncPool(s, p).sp = renewed /\ SubPoolSound(renewed)
    BY <2>1, CheckedOk
  <2>3. Clears(s, renewed) /\ renewed.lastPrice = p
    BY Repriced DEF renewed
  <2> QED
    BY <2>2, <2>3
<1>2. CASE s.lastPrice \notin {0, p}
  <2>1. /\ SyncPool(s, p) = Checked(rotated.sp)
        /\ settled.err = "Ok" /\ rotated.err = "Ok"
    BY <1>2 DEF SyncPool, Fail
  <2>2. Winner(s, p) \in Direction
    BY DEF Winner, Direction
  <2>3. Clears(s, settled.sp) /\ PoolSound(settled.sp)
    BY <1>2, <2>1, <2>2, SettleClears DEF Clears
  <2> HIDE DEF settled
  <2>4. Clears(settled.sp, priced) /\ priced.lastPrice = p /\ PoolSound(priced)
    BY <2>3, Repriced DEF Clears
  <2> HIDE DEF priced
  <2>5. Clears(priced, rotated.sp) /\ rotated.sp.lastPrice = p
    BY <2>1, <2>4, RotateBothClears
  <2> HIDE DEF rotated
  <2>6. Clears(s, rotated.sp)
    BY <2>3, <2>4, <2>5, ClearsTrans
  <2>7. SyncPool(s, p).sp = rotated.sp /\ SubPoolSound(rotated.sp)
    BY <2>1, CheckedOk
  <2> QED
    BY <2>5, <2>6, <2>7
<1> QED
  BY <1>1, <1>2

-----------------------------------------------------------------------------
(* The calls that bring money in or take it out, on one side.              *)
OneSided(s, t, d) ==
  /\ IsSubPool(t)
  /\ t.pool \in [Direction -> Nat] /\ t.shares \in [Direction -> Nat]
  /\ t.notional \in [Direction -> Nat] /\ t.dust \in [Direction -> Nat]
  /\ t.recovery = [e \in Direction |-> t.recovery[e]]
  /\ t.dormant = [e \in Direction |-> t.dormant[e]]
  /\ t.lastPrice = s.lastPrice
  /\ StoreSound(t.dormant[d]) /\ Covered(t.dormant[d]) /\ t.dormant[d].dir = d
  /\ \A e \in Direction \ {d} : /\ t.pool[e] = s.pool[e] /\ t.dust[e] = s.dust[e]
                                 /\ t.dormant[e] = s.dormant[e]

LEMMA OneSide ==
  ASSUME NEW s, PoolSound(s), NEW d \in Direction, NEW t, OneSided(s, t, d)
  PROVE  /\ PoolSound(t)
         /\ SideFunds(t, d) \in Nat /\ SideFunds(s, d) \in Nat
         /\ Funds(t) \in Nat /\ Funds(s) \in Nat
         /\ Funds(t) + SideFunds(s, d) = Funds(s) + SideFunds(t, d)
         /\ SideFunds(t, d) = t.pool[d] + t.dust[d] + StoreMoney(t.dormant[d])
         /\ SideFunds(s, d) = s.pool[d] + s.dust[d] + StoreMoney(s.dormant[d])
         /\ s.pool[d] \in Nat /\ s.dust[d] \in Nat /\ StoreMoney(s.dormant[d]) \in Nat
         /\ StoreMoney(t.dormant[d]) \in Nat
<1> DEFINE o == Opposite(d)
<1>1. o \in Direction \ {d} /\ \A e \in Direction : e = d \/ e = o
  BY Sides
<1>2. \A e \in Direction : /\ StoreSound(t.dormant[e]) /\ Covered(t.dormant[e])
                           /\ t.dormant[e].dir = e
  BY DEF PoolSound, OneSided
<1>3. PoolSound(t)
  BY <1>2 DEF PoolSound, OneSided
<1>4. SideFunds(t, o) = SideFunds(s, o)
  BY <1>1 DEF SideFunds, OneSided
<1>5. /\ Funds(t) = SideFunds(t, d) + SideFunds(t, o)
      /\ SideFunds(t, d) \in Nat /\ Funds(t) \in Nat /\ StoreMoney(t.dormant[d]) \in Nat
      /\ SideFunds(t, d) = t.pool[d] + t.dust[d] + StoreMoney(t.dormant[d])
  BY <1>3, FundsBySide
<1>6. /\ Funds(s) = SideFunds(s, d) + SideFunds(s, o)
      /\ SideFunds(s, d) \in Nat /\ SideFunds(s, o) \in Nat /\ Funds(s) \in Nat
      /\ SideFunds(s, d) = s.pool[d] + s.dust[d] + StoreMoney(s.dormant[d])
      /\ s.pool[d] \in Nat /\ s.dust[d] \in Nat /\ StoreMoney(s.dormant[d]) \in Nat
  BY <1>1, FundsBySide
<1>7. Funds(t) + SideFunds(s, d) = Funds(s) + SideFunds(t, d)
  <2>1. PICK x, y, z \in Nat : x = SideFunds(t, d) /\ y = SideFunds(s, d) /\ z = SideFunds(s, o)
    BY <1>5, <1>6
  <2>2. Funds(t) = x + z /\ Funds(s) = y + z
    BY <1>4, <1>5, <1>6, <2>1
  <2> QED
    BY <2>1, <2>2
<1> QED
  BY <1>3, <1>5, <1>6, <1>7

LEMMA DustAdded ==
  ASSUME NEW s, PoolSound(s), NEW d \in Direction, NEW v \in Nat
  PROVE  /\ PoolSound([s EXCEPT !.dust[d] = @ + v])
         /\ Funds([s EXCEPT !.dust[d] = @ + v]) = Funds(s) + v
         /\ Funds(s) \in Nat
<1> DEFINE t == [s EXCEPT !.dust[d] = @ + v]
<1>1. PICK c \in Nat : c = s.dust[d] + v
  BY DEF PoolSound
<1>2. /\ IsSubPool(t) /\ t.lastPrice = s.lastPrice
      /\ t.pool = s.pool /\ t.shares = s.shares /\ t.notional = s.notional
      /\ t.dust = [s.dust EXCEPT ![d] = c] /\ t.recovery = s.recovery /\ t.dormant = s.dormant
  BY <1>1 DEF PoolSound, IsSubPool, SubPoolFields
<1> HIDE DEF t
<1>3. t.dust \in [Direction -> Nat] /\ t.dust[d] = c /\ \A e \in Direction \ {d} : t.dust[e] = s.dust[e]
  BY <1>2 DEF PoolSound
<1>a. OneSided(s, t, d)
  BY <1>2, <1>3 DEF PoolSound, OneSided
<1>4. /\ PoolSound(t) /\ Funds(t) \in Nat /\ Funds(s) \in Nat
      /\ Funds(t) + SideFunds(s, d) = Funds(s) + SideFunds(t, d)
      /\ SideFunds(t, d) = s.pool[d] + c + StoreMoney(s.dormant[d])
      /\ SideFunds(s, d) = s.pool[d] + s.dust[d] + StoreMoney(s.dormant[d])
      /\ s.pool[d] \in Nat /\ s.dust[d] \in Nat /\ StoreMoney(s.dormant[d]) \in Nat
  BY <1>2, <1>3, <1>a, OneSide
<1>5. SideFunds(t, d) = SideFunds(s, d) + v /\ SideFunds(s, d) \in Nat
  <2>1. PICK x, y, z \in Nat : x = s.pool[d] /\ y = s.dust[d] /\ z = StoreMoney(s.dormant[d])
    BY <1>4
  <2>2. SideFunds(t, d) = x + (y + v) + z /\ SideFunds(s, d) = x + y + z
    BY <1>1, <1>4, <2>1
  <2> QED
    BY <2>1, <2>2
<1>6. Funds(t) = Funds(s) + v
  <2>1. PICK x, y, z \in Nat : x = SideFunds(s, d) /\ y = Funds(s) /\ z = Funds(t)
    BY <1>4, <1>5
  <2>2. z + x = y + (x + v)
    BY <1>4, <1>5, <2>1
  <2> QED
    BY <2>1, <2>2
<1> QED
  BY <1>4, <1>6 DEF t

LEMMA LeaveActiveSound ==
  ASSUME NEW s, PoolSound(s), NEW q, q.dir \in Direction, q.shares \in Nat, q.notional \in Nat,
         CanLeaveActive(s, q), NEW v \in Nat, v <= s.pool[q.dir]
  PROVE  /\ PoolSound(LeaveActive(s, q, v))
         /\ Funds(LeaveActive(s, q, v)) + v = Funds(s)
         /\ LeaveActive(s, q, v).dormant = s.dormant
<1> DEFINE t == LeaveActive(s, q, v)
           d == q.dir
<1>0. d \in Direction /\ s.pool[d] \in Nat /\ s.shares[d] \in Nat /\ s.notional[d] \in Nat
  BY DEF PoolSound
<1>1. PICK a, b, c \in Nat : /\ a = s.pool[d] - v /\ b = s.shares[d] - q.shares
                             /\ c = s.notional[d] - q.notional
  BY <1>0 DEF CanLeaveActive
<1>2. t = [s EXCEPT !.pool[d] = a, !.shares[d] = b, !.notional[d] = c]
  BY <1>1 DEF LeaveActive
<1> HIDE DEF t, d
<1>3. /\ IsSubPool(t) /\ t.lastPrice = s.lastPrice
      /\ t.pool = [s.pool EXCEPT ![d] = a] /\ t.shares = [s.shares EXCEPT ![d] = b]
      /\ t.notional = [s.notional EXCEPT ![d] = c]
      /\ t.dust = s.dust /\ t.recovery = s.recovery /\ t.dormant = s.dormant
  BY <1>2 DEF PoolSound, IsSubPool, SubPoolFields
<1>4. /\ t.pool \in [Direction -> Nat] /\ t.pool[d] = a
      /\ \A e \in Direction \ {d} : t.pool[e] = s.pool[e]
  BY <1>0, <1>3 DEF PoolSound
<1>5. t.shares \in [Direction -> Nat] /\ t.notional \in [Direction -> Nat]
  BY <1>0, <1>3 DEF PoolSound
<1>a. OneSided(s, t, d)
  BY <1>0, <1>3, <1>4, <1>5 DEF PoolSound, OneSided
<1>6. /\ PoolSound(t) /\ Funds(t) \in Nat /\ Funds(s) \in Nat
      /\ Funds(t) + SideFunds(s, d) = Funds(s) + SideFunds(t, d)
      /\ SideFunds(t, d) = a + s.dust[d] + StoreMoney(s.dormant[d])
      /\ SideFunds(s, d) = s.pool[d] + s.dust[d] + StoreMoney(s.dormant[d])
      /\ s.dust[d] \in Nat /\ StoreMoney(s.dormant[d]) \in Nat
  BY <1>0, <1>3, <1>4, <1>a, OneSide
<1>7. SideFunds(s, d) = SideFunds(t, d) + v /\ SideFunds(t, d) \in Nat
  <2>1. PICK x, y, z \in Nat : x = s.pool[d] /\ y = s.dust[d] /\ z = StoreMoney(s.dormant[d])
    BY <1>0, <1>6
  <2>2. SideFunds(t, d) = a + y + z /\ SideFunds(s, d) = x + y + z
    BY <1>6, <2>1
  <2>3. x = a + v
    BY <1>1, <2>1
  <2> QED
    BY <2>1, <2>2, <2>3
<1>8. Funds(t) + v = Funds(s)
  <2>1. PICK x, y, z \in Nat : x = SideFunds(t, d) /\ y = Funds(s) /\ z = Funds(t)
    BY <1>6, <1>7
  <2>2. z + (x + v) = y + x
    BY <1>6, <1>7, <2>1
  <2> QED
    BY <2>1, <2>2
<1> QED
  BY <1>3, <1>6, <1>8 DEF t

LEMMA LeaveRecoverySound ==
  ASSUME NEW s, PoolSound(s), NEW q, q.dir \in Direction, q.recovery \in Nat,
         CanLeaveRecovery(s, q)
  PROVE  /\ PoolSound(LeaveRecovery(s, q))
         /\ RecoveryValue(s, q) \in Nat
         /\ Funds(LeaveRecovery(s, q)) + RecoveryValue(s, q) = Funds(s)
         /\ Funds(s) \in Nat
<1> DEFINE t == LeaveRecovery(s, q)
           v == RecoveryValue(s, q)
           d == q.dir
           st == s.dormant[d]
           u == Redeem(st, q.tick, q.recovery)
<1>0. /\ d \in Direction /\ StoreSound(st) /\ Covered(st) /\ st.dir = d
      /\ Funds(s) \in Nat
  BY FundsBySide DEF PoolSound
<1>1. CASE q.recovery = 0
  <2>1. t = s /\ v = 0
    BY <1>1 DEF LeaveRecovery, RecoveryValue
  <2>2. Funds(s) + 0 = Funds(s)
    BY <1>0
  <2> QED
    BY <1>0, <2>1, <2>2
<1>2. CASE q.recovery # 0
  <2>1. Redeemed(st, q.tick, u, v)
    <3>1. q.recovery > 0 /\ CanRedeem(st, q.tick, q.recovery)
      BY <1>2 DEF CanLeaveRecovery
    <3>2. v = Redeemable(st, q.tick, q.recovery)
      BY <1>2 DEF RecoveryValue
    <3> QED
      BY <1>0, <3>1, <3>2, RedeemSound
  <2>2. t = [s EXCEPT !.dormant[d] = u, !.recovery[d] = @ - q.recovery]
    BY <1>2 DEF LeaveRecovery
  <2> HIDE DEF t, u, v, d
  <2>3. /\ IsSubPool(t) /\ t.lastPrice = s.lastPrice
        /\ t.pool = s.pool /\ t.shares = s.shares /\ t.notional = s.notional
        /\ t.dust = s.dust /\ t.recovery = [s.recovery EXCEPT ![d] = @ - q.recovery]
        /\ t.dormant = [s.dormant EXCEPT ![d] = u]
    BY <2>2 DEF PoolSound, IsSubPool, SubPoolFields
  <2>4. /\ t.recovery = [e \in Direction |-> t.recovery[e]]
    BY <2>3 DEF PoolSound
  <2>5. /\ t.dormant = [e \in Direction |-> t.dormant[e]]
        /\ t.dormant[d] = u /\ \A e \in Direction \ {d} : t.dormant[e] = s.dormant[e]
    BY <1>0, <2>3 DEF PoolSound
  <2>6. StoreSound(u) /\ u.dir = d /\ v \in Nat /\ StoreMoney(u) + v = StoreMoney(st)
    BY <1>0, <2>1 DEF Redeemed
  <2>b. Covered(u)
    <3>1. Reworked(st, u) /\ u.dir = st.dir
      BY <1>0, <2>1 DEF Redeemed
    <3> QED
      BY <1>0, <2>6, <3>1, ReworkedCovered
  <2>a. OneSided(s, t, d)
    BY <1>0, <2>3, <2>4, <2>5, <2>6, <2>b DEF PoolSound, OneSided
  <2>7. /\ PoolSound(t) /\ Funds(t) \in Nat /\ Funds(s) \in Nat
        /\ Funds(t) + SideFunds(s, d) = Funds(s) + SideFunds(t, d)
        /\ SideFunds(t, d) = s.pool[d] + s.dust[d] + StoreMoney(u)
        /\ SideFunds(s, d) = s.pool[d] + s.dust[d] + StoreMoney(st)
        /\ s.pool[d] \in Nat /\ s.dust[d] \in Nat /\ StoreMoney(st) \in Nat
        /\ StoreMoney(u) \in Nat
    BY <1>0, <2>3, <2>5, <2>a, OneSide
  <2>8. SideFunds(s, d) = SideFunds(t, d) + v /\ SideFunds(t, d) \in Nat
    <3>1. PICK x, y, z \in Nat : x = s.pool[d] /\ y = s.dust[d] /\ z = StoreMoney(u)
      BY <2>7
    <3>2. SideFunds(t, d) = x + y + z /\ SideFunds(s, d) = x + y + (z + v)
      BY <2>6, <2>7, <3>1
    <3> QED
      BY <2>6, <3>1, <3>2
  <2>9. Funds(t) + v = Funds(s)
    <3>1. PICK x, y, z \in Nat : x = SideFunds(t, d) /\ y = Funds(s) /\ z = Funds(t)
      BY <2>7, <2>8
    <3>2. z + (x + v) = y + x
      BY <2>7, <2>8, <3>1
    <3>3. v \in Nat
      BY <2>6
    <3>4. z + v = y
      BY <3>2, <3>3
    <3> QED
      BY <3>1, <3>4
  <2> QED
    BY <2>6, <2>7, <2>9 DEF t, v
<1> QED
  BY <1>1, <1>2

-----------------------------------------------------------------------------
(* What a position holds.                                                  *)
Holding(q) ==
  /\ IsPosition(q)
  /\ q.status \in {"Open", "Dormant", "Closed"}
  /\ q.dir \in Direction
  /\ q.shares \in Nat /\ q.notional \in Nat /\ q.recovery \in Nat
  /\ q.tick \in Nat \cup {NoTick}

(* What a successful open does with a deposit of g.                        *)
Deposited(s, p, g, r) ==
  /\ PoolSound(r.sp) /\ SubPoolSound(r.sp)
  /\ r.sp.lastPrice = p
  /\ r.fee \in Nat /\ r.principal \in Nat /\ r.fee + r.principal = g
  /\ Funds(r.sp) = Funds(s) + r.principal
  /\ KeepsAll(s, r.sp)
  /\ Holding(r.pos)

(* The two floors of an open, from a sub-pool whose pool and shares are    *)
(* empty together: what goes into the pool is at most the principal.       *)
LEMMA MintedNat ==
  ASSUME NEW s, PoolSound(s), SubPoolSound(s), NEW d \in Direction, NEW principal \in Nat
  PROVE  /\ SharesMinted(s, d, principal) \in Nat
         /\ PrincipalIntoPool(s, d, principal) \in Nat
         /\ PrincipalIntoPool(s, d, principal) <= principal
<1> DEFINE minted == SharesMinted(s, d, principal)
           placed == PrincipalIntoPool(s, d, principal)
<1>1. PICK m \in Nat, n \in Nat : m = s.pool[d] /\ n = s.shares[d]
  BY DEF PoolSound
<1>2. CASE m = 0
  BY <1>1, <1>2 DEF SharesMinted, PrincipalIntoPool
<1>3. CASE m # 0
  <2>1. n # 0
    BY <1>1, <1>3 DEF SubPoolSound
  <2>2. minted = MulDivFloor(principal, n, m) /\ placed = MulDivFloor(minted, m, n)
    BY <1>1, <1>3 DEF SharesMinted, PrincipalIntoPool
  <2> HIDE DEF minted, placed
  <2>3. minted \in Nat /\ minted * m <= principal * n
    BY <1>3, <2>2, FloorPart
  <2>4. placed \in Nat /\ placed * n <= minted * m
    BY <2>1, <2>2, <2>3, FloorPart
  <2>5. placed * n <= principal * n
    <3>1. PICK x, y, z \in Nat : x = placed * n /\ y = minted * m /\ z = principal * n
      BY <2>3, <2>4
    <3> QED
      BY <2>3, <2>4, <3>1
  <2>6. placed <= principal
    <3>1. SUFFICES ASSUME principal + 1 <= placed PROVE FALSE
      BY <2>4
    <3>2. (principal + 1) * n <= placed * n
      BY <2>4, <3>1
    <3>3. (principal + 1) * n = principal * n + n
      OBVIOUS
    <3>4. PICK x, z \in Nat : x = placed * n /\ z = principal * n
      BY <2>4
    <3> QED
      BY <2>1, <2>5, <3>2, <3>3, <3>4
  <2> QED
    BY <2>3, <2>4, <2>6 DEF minted, placed
<1> QED
  BY <1>1, <1>2, <1>3

LEMMA FeeNat ==
  ASSUME NEW g \in Nat
  PROVE  OpenFee(g) \in Nat
<1>1. PICK n \in Nat : n = g * OpenFeeBps + BpsScale - 1
  BY CoreParameters DEF BpsScale
<1>2. OpenFee(g) = n \div 10000
  BY <1>1 DEF OpenFee, MulDivCeil, BpsScale
<1> QED
  BY <1>2

(* Pool, shares, notional and dust of one side grow.                       *)
SideGrown(s, d, a, b, c, e) ==
  [s EXCEPT !.pool[d] = @ + a, !.shares[d] = @ + b, !.notional[d] = @ + c, !.dust[d] = @ + e]

LEMMA SideGrows ==
  ASSUME NEW s, PoolSound(s), NEW d \in Direction, NEW a \in Nat, NEW b \in Nat,
         NEW c \in Nat, NEW e \in Nat
  PROVE  /\ PoolSound(SideGrown(s, d, a, b, c, e))
         /\ Funds(SideGrown(s, d, a, b, c, e)) = Funds(s) + (a + e)
         /\ KeepsAll(s, SideGrown(s, d, a, b, c, e))
         /\ SideGrown(s, d, a, b, c, e).lastPrice = s.lastPrice
<1> DEFINE t == SideGrown(s, d, a, b, c, e)
<1>1. PICK x, y, z, w \in Nat : /\ x = s.pool[d] /\ y = s.shares[d]
                                /\ z = s.notional[d] /\ w = s.dust[d]
  BY DEF PoolSound
<1>2. PICK xa, yb, zc, we \in Nat : /\ xa = x + a /\ yb = y + b /\ zc = z + c /\ we = w + e
  OBVIOUS
<1>3. t = [s EXCEPT !.pool[d] = xa, !.shares[d] = yb, !.notional[d] = zc, !.dust[d] = we]
  BY <1>1, <1>2 DEF SideGrown
<1> HIDE DEF t
<1>4. /\ IsSubPool(t) /\ t.lastPrice = s.lastPrice
      /\ t.pool = [s.pool EXCEPT ![d] = xa] /\ t.shares = [s.shares EXCEPT ![d] = yb]
      /\ t.notional = [s.notional EXCEPT ![d] = zc] /\ t.dust = [s.dust EXCEPT ![d] = we]
      /\ t.recovery = s.recovery /\ t.dormant = s.dormant
  BY <1>3 DEF PoolSound, IsSubPool, SubPoolFields
<1>5. /\ t.pool \in [Direction -> Nat] /\ t.pool[d] = xa
      /\ \A f \in Direction \ {d} : t.pool[f] = s.pool[f]
  BY <1>4 DEF PoolSound
<1>6. /\ t.dust \in [Direction -> Nat] /\ t.dust[d] = we
      /\ \A f \in Direction \ {d} : t.dust[f] = s.dust[f]
  BY <1>4 DEF PoolSound
<1>7. t.shares \in [Direction -> Nat] /\ t.notional \in [Direction -> Nat]
  BY <1>4 DEF PoolSound
<1>8. OneSided(s, t, d)
  BY <1>4, <1>5, <1>6, <1>7 DEF PoolSound, OneSided
<1>9. /\ PoolSound(t) /\ Funds(t) \in Nat /\ Funds(s) \in Nat
      /\ Funds(t) + SideFunds(s, d) = Funds(s) + SideFunds(t, d)
      /\ SideFunds(t, d) = xa + we + StoreMoney(s.dormant[d])
      /\ SideFunds(s, d) = x + w + StoreMoney(s.dormant[d])
      /\ StoreMoney(s.dormant[d]) \in Nat
  <2>1. /\ PoolSound(t) /\ Funds(t) \in Nat /\ Funds(s) \in Nat
        /\ Funds(t) + SideFunds(s, d) = Funds(s) + SideFunds(t, d)
        /\ SideFunds(t, d) = t.pool[d] + t.dust[d] + StoreMoney(t.dormant[d])
        /\ SideFunds(s, d) = s.pool[d] + s.dust[d] + StoreMoney(s.dormant[d])
        /\ StoreMoney(s.dormant[d]) \in Nat
    BY <1>8, OneSide
  <2> QED
    BY <1>1, <1>4, <1>5, <1>6, <2>1
<1>10. Funds(t) = Funds(s) + (a + e)
  <2>1. PICK m, f, h \in Nat : m = StoreMoney(s.dormant[d]) /\ f = Funds(s) /\ h = Funds(t)
    BY <1>9
  <2>2. h + (x + w + m) = f + (x + a + (w + e) + m)
    BY <1>2, <1>9, <2>1
  <2> QED
    BY <2>1, <2>2
<1>11. KeepsAll(s, t)
  BY <1>4, KeepsSelf DEF KeepsAll, PoolSound
<1> QED
  BY <1>4, <1>9, <1>10, <1>11 DEF t

LEMMA OpenSyncedSound ==
  ASSUME NEW s, PoolSound(s), SubPoolSound(s), NEW d \in Direction, NEW g \in Nat,
         OpenSynced(s, d, g).err = "Ok", IsPosition(OpenSynced(s, d, g).pos)
  PROVE  Deposited(s, s.lastPrice, g, OpenSynced(s, d, g))
<1> DEFINE r == OpenSynced(s, d, g)
           fee == OpenFee(g)
           principal == g - fee
           minted == SharesMinted(s, d, principal)
           placed == PrincipalIntoPool(s, d, principal)
           notional == MulDivFloor(principal, LeverageBps, BpsScale)
           grown == [s EXCEPT !.pool[d] = @ + placed, !.shares[d] = @ + minted,
                              !.notional[d] = @ + notional,
                              !.dust[d] = @ + (principal - placed)]
<1>1. /\ ~(g = 0 \/ principal < MinMargin)
      /\ r.sp = grown /\ Checked(grown).err = "Ok"
      /\ r.fee = fee /\ r.principal = principal
      /\ r.pos = NewPosition(d, minted, notional, s.gen[d])
  BY DEF OpenSynced, Fail
<1> HIDE DEF r, minted, placed, notional, grown
<1>2. fee \in Nat
  BY FeeNat
<1> HIDE DEF fee
<1>3. principal \in Nat /\ fee + principal = g
  <2>1. MinMargin \in Nat
    BY CoreParameters
  <2> QED
    BY <1>1, <1>2, <2>1
<1> HIDE DEF principal
<1>4. minted \in Nat /\ placed \in Nat /\ placed <= principal
  BY <1>3, MintedNat DEF minted, placed
<1>5. notional \in Nat
  BY <1>3, FloorPart, CoreParameters DEF notional, BpsScale
<1>6. PICK e \in Nat : e = principal - placed /\ placed + e = principal
  BY <1>3, <1>4
<1>7. /\ PoolSound(grown) /\ Funds(grown) = Funds(s) + (placed + e)
      /\ KeepsAll(s, grown) /\ grown.lastPrice = s.lastPrice
  <2>1. grown = SideGrown(s, d, placed, minted, notional, e)
    BY <1>6 DEF grown, SideGrown
  <2> QED
    <3> DEFINE u == SideGrown(s, d, placed, minted, notional, e)
    <3>1. /\ PoolSound(u) /\ Funds(u) = Funds(s) + (placed + e)
          /\ KeepsAll(s, u) /\ u.lastPrice = s.lastPrice
      <4>1. placed \in Nat /\ minted \in Nat /\ notional \in Nat /\ e \in Nat
        BY <1>4, <1>5, <1>6
      <4> QED
        BY ONLY PoolSound(s), d \in Direction, <4>1, SideGrows
    <3> QED
      BY <2>1, <3>1
<1>8. SubPoolSound(grown)
  BY <1>1, CheckedOk
<1>9. Holding(r.pos)
  BY <1>1, <1>4, <1>5 DEF Holding, NewPosition, r
<1> QED
  BY <1>1, <1>2, <1>3, <1>6, <1>7, <1>8, <1>9 DEF Deposited, r

(* Open takes the deposit apart and loses none of it.                      *)
LEMMA OpenSound ==
  ASSUME NEW s, PoolSound(s), NEW p \in Nat, NEW d \in Direction, NEW g \in Nat, Numbered(s),
         OpenPosition(s, p, d, g).err = "Ok"
  PROVE  Deposited(s, p, g, OpenPosition(s, p, d, g))
<1> DEFINE t == SyncPool(s, p)
           r == OpenPosition(s, p, d, g)
<1>1. t.err = "Ok" /\ r = OpenSynced(t.sp, d, g)
  BY DEF OpenPosition
<1>2. IsPosition(r.pos)
  BY OpenGood DEF Good, Placed
<1> HIDE DEF r
<1>3. /\ PoolSound(t.sp) /\ Funds(t.sp) = Funds(s) /\ KeepsAll(s, t.sp)
      /\ t.sp.lastPrice = p /\ SubPoolSound(t.sp)
  BY <1>1, SyncClears DEF Clears
<1> HIDE DEF t
<1>4. Deposited(t.sp, p, g, r)
  BY <1>1, <1>2, <1>3, OpenSyncedSound DEF r
<1>5. KeepsAll(s, r.sp)
  BY <1>3, <1>4, KeepsTrans DEF KeepsAll, Deposited
<1> QED
  BY <1>3, <1>4, <1>5 DEF Deposited, r

-----------------------------------------------------------------------------
(* What close, force-close and claim start from.                           *)
LEMMA MigratedHolding ==
  ASSUME NEW s, NEW q, Numbered(s), Holding(q), CanMigrate(s, q)
  PROVE  Holding(Migrated(s, q)) /\ Migrated(s, q).dir = q.dir
<1> DEFINE R == RotateRecords(s, q)
           m == Min(R)
           log == s.rotateLog[q.dir]
<1>1. CASE ~NeedsMigration(s, q)
  BY <1>1 DEF Migrated, Holding, IsPosition, PositionFields
<1>2. CASE NeedsMigration(s, q)
  <2>1. IsLog(log, s.gen[q.dir]) /\ s.gen[q.dir] \in Nat
    BY DEF Numbered, Holding
  <2>2. log \in Seq([gen : Nat, tick : Nat]) /\ R \subseteq DOMAIN log
    BY <2>1 DEF IsLog, RotateRecords
  <2>3. R # {} /\ R \subseteq Nat
    BY <1>2, <2>2 DEF CanMigrate
  <2> HIDE DEF R
  <2>4. m \in R
    <3>1. PICK x \in R : \A y \in R : x <= y
      BY <2>3, LeastNatural
    <3> QED
      BY <3>1 DEF Min
  <2> HIDE DEF m
  <2>5. PICK k \in Nat : k = log[m].tick
    <3> DEFINE S == [gen : Nat, tick : Nat]
    <3>1. log \in Seq(S) /\ m \in DOMAIN log
      BY <2>2, <2>4
    <3> HIDE DEF S, log
    <3>2. log[m] \in S
      BY <3>1
    <3> QED
      BY <3>2 DEF S
  <2>6. PICK n \in Nat : n = q.recovery + q.shares
    BY DEF Holding
  <2>7. Migrated(s, q) = [q EXCEPT !.recovery = n, !.tick = k,
                                   !.shares = 0, !.notional = 0, !.status = "Dormant",
                                   !.gen = s.gen[q.dir]]
    BY <1>2, <2>5, <2>6 DEF Migrated, m, R
  <2> HIDE DEF log
  <2> QED
    <3>1. IsPosition(Migrated(s, q))
      BY <2>7 DEF Holding, IsPosition, PositionFields
    <3>2. /\ Migrated(s, q).status = "Dormant" /\ Migrated(s, q).dir = q.dir
          /\ Migrated(s, q).shares = 0 /\ Migrated(s, q).notional = 0
          /\ Migrated(s, q).recovery = n /\ Migrated(s, q).tick = k
      BY <2>7 DEF Holding, IsPosition, PositionFields
    <3> QED
      BY <2>5, <2>6, <3>1, <3>2 DEF Holding
<1> QED
  BY <1>1, <1>2

Touched(s, p, q, t) ==
  /\ PoolSound(t.sp) /\ SubPoolSound(t.sp)
  /\ Funds(t.sp) = Funds(s)
  /\ t.sp.lastPrice = p
  /\ Holding(t.pos) /\ t.pos.dir = q.dir
  /\ CanLeaveRecovery(t.sp, t.pos)
  /\ t.pos = Migrated(t.sp, q)

LEMMA TouchSound ==
  ASSUME NEW s, PoolSound(s), NEW p \in Nat, NEW q, Numbered(s), Holding(q),
         Touch(s, p, q).err = "Ok"
  PROVE  Touched(s, p, q, Touch(s, p, q))
<1> DEFINE r == SyncPool(s, p)
           t == Touch(s, p, q)
<1>1. /\ r.err = "Ok" /\ CanMigrate(r.sp, q)
      /\ t.sp = r.sp /\ t.pos = Migrated(r.sp, q) /\ CanLeaveRecovery(t.sp, t.pos)
  BY DEF Touch
<1>2. Numbered(r.sp)
  BY SyncFollows DEF ComesAfter
<1> HIDE DEF t
<1>3. /\ PoolSound(r.sp) /\ Funds(r.sp) = Funds(s)
      /\ r.sp.lastPrice = p /\ SubPoolSound(r.sp)
  BY <1>1, SyncClears DEF Clears
<1> HIDE DEF r
<1>4. Holding(t.pos) /\ t.pos.dir = q.dir
  BY <1>1, <1>2, MigratedHolding
<1> QED
  BY <1>1, <1>3, <1>4 DEF Touched, t

(* An outcome that pays r.paid out of the sub-pool's funds.                *)
PaidOut(s, p, r) ==
  /\ PoolSound(r.sp) /\ SubPoolSound(r.sp)
  /\ r.sp.lastPrice = p
  /\ r.paid \in Nat
  /\ Funds(r.sp) + r.paid = Funds(s)
  /\ Holding(r.pos)

LEMMA ClosedHolding ==
  ASSUME NEW q, Holding(q)
  PROVE  /\ Holding(WithoutRecovery(q)) /\ Holding(WithoutShares(q))
         /\ Holding(Closed(WithoutRecovery(q))) /\ Holding(Closed(WithoutShares(q)))
<1>1. Holding(WithoutRecovery(q)) /\ Holding(WithoutShares(q))
  BY DEF Holding, IsPosition, PositionFields, WithoutRecovery, WithoutShares
<1>2. \A x : Holding(x) => Holding(Closed(x))
  BY DEF Holding, IsPosition, PositionFields, Closed
<1> QED
  BY <1>1, <1>2

(* A position's floored part of the pool is no more than the pool.         *)
LEMMA ActiveValueNat ==
  ASSUME NEW s, PoolSound(s), SubPoolSound(s), NEW q, Holding(q)
  PROVE  /\ ActiveValue(s, q) \in Nat
         /\ CanLeaveActive(s, q) => ActiveValue(s, q) <= s.pool[q.dir]
         /\ ~HasPool(s, q) => ActiveValue(s, q) = 0
<1>1. PICK x, y, z \in Nat : x = s.pool[q.dir] /\ y = s.shares[q.dir] /\ z = q.shares
  BY DEF PoolSound, Holding
<1>2. CASE z = 0 \/ y = 0
  BY <1>1, <1>2 DEF ActiveValue
<1>3. CASE z # 0 /\ y # 0
  <2>1. ActiveValue(s, q) = MulDivFloor(x, z, y)
    BY <1>1, <1>3 DEF ActiveValue
  <2>2. x # 0
    BY <1>1, <1>3 DEF SubPoolSound, Holding
  <2>3. HasPool(s, q)
    BY <1>1, <1>3, <2>2 DEF HasPool
  <2>4. MulDivFloor(x, z, y) \in Nat /\ (z <= y => MulDivFloor(x, z, y) <= x)
    BY <1>3, FloorPart
  <2> QED
    BY <1>1, <2>1, <2>3, <2>4 DEF CanLeaveActive
<1> QED
  BY <1>2, <1>3

LEMMA CloseSound ==
  ASSUME NEW s, PoolSound(s), NEW p \in Nat, NEW q, Numbered(s), Holding(q),
         ClosePosition(s, p, q).err = "Ok"
  PROVE  /\ PaidOut(s, p, ClosePosition(s, p, q))
         /\ q.status # "Closed" /\ ClosePosition(s, p, q).pos.status = "Closed"
<1> DEFINE t == Touch(s, p, q)
           r == ClosePosition(s, p, q)
           value == ActiveValue(t.sp, t.pos)
           active == LeaveActive(t.sp, t.pos, value)
           middle == IF HasPool(t.sp, t.pos) THEN active ELSE t.sp
           left == LeaveRecovery(middle, t.pos)
           back == RecoveryValue(t.sp, t.pos)
<1>1. /\ t.err = "Ok" /\ q.status \in {"Open", "Dormant"}
      /\ HasPool(t.sp, t.pos) => CanLeaveActive(t.sp, t.pos)
      /\ r.sp = left /\ Checked(left).err = "Ok" /\ r.paid = value + back
      /\ r.pos \in {Closed(WithoutShares(t.pos)), Closed(WithoutRecovery(t.pos))}
  BY DEF ClosePosition, CloseTouched, Finished, Fail
<1> HIDE DEF r
<1>2. Touched(s, p, q, t)
  BY <1>1, TouchSound
<1> HIDE DEF t
<1>3. /\ PoolSound(t.sp) /\ SubPoolSound(t.sp) /\ Funds(t.sp) = Funds(s)
      /\ t.sp.lastPrice = p /\ Holding(t.pos) /\ CanLeaveRecovery(t.sp, t.pos)
      /\ t.pos.dir \in Direction /\ t.pos.shares \in Nat /\ t.pos.notional \in Nat
      /\ t.pos.recovery \in Nat
  BY <1>2 DEF Touched, Holding
<1>4. /\ value \in Nat
      /\ CanLeaveActive(t.sp, t.pos) => value <= t.sp.pool[t.pos.dir]
      /\ ~HasPool(t.sp, t.pos) => value = 0
  BY <1>3, ActiveValueNat
<1> HIDE DEF value
<1>5. /\ PoolSound(middle) /\ Funds(middle) + value = Funds(t.sp)
      /\ middle.dormant = t.sp.dormant /\ middle.lastPrice = p
  <2>1. CASE HasPool(t.sp, t.pos)
    <3>1. /\ PoolSound(active) /\ Funds(active) + value = Funds(t.sp)
          /\ active.dormant = t.sp.dormant
      BY <1>1, <1>3, <1>4, <2>1, LeaveActiveSound
    <3>2. active.lastPrice = t.sp.lastPrice
      BY <1>3 DEF LeaveActive, PoolSound, IsSubPool, SubPoolFields
    <3> QED
      BY <1>3, <2>1, <3>1, <3>2
  <2>2. CASE ~HasPool(t.sp, t.pos)
    <3>1. Funds(t.sp) + 0 = Funds(t.sp)
      BY <1>3, FundsBySide DEF Direction
    <3> QED
      BY <1>3, <1>4, <2>2, <3>1
  <2> QED
    BY <2>1, <2>2
<1> HIDE DEF middle
<1>6. CanLeaveRecovery(middle, t.pos) /\ RecoveryValue(middle, t.pos) = back
  BY <1>3, <1>5 DEF CanLeaveRecovery, RecoveryValue
<1>7. /\ PoolSound(left) /\ back \in Nat /\ Funds(left) + back = Funds(middle)
      /\ Funds(middle) \in Nat
  BY <1>3, <1>5, <1>6, LeaveRecoverySound
<1>8. left.lastPrice = p
  BY <1>5 DEF LeaveRecovery, PoolSound, IsSubPool, SubPoolFields
<1> HIDE DEF left, back
<1>9. r.paid \in Nat /\ Funds(left) + r.paid = Funds(s)
  <2>1. Funds(left) \in Nat
    BY <1>7, FundsBySide DEF Direction
  <2>2. PICK x, y, z \in Nat : x = Funds(left) /\ y = back /\ z = value
    BY <1>4, <1>7, <2>1
  <2>3. r.paid = z + y /\ Funds(s) = (x + y) + z
    BY <1>1, <1>3, <1>5, <1>7, <2>2
  <2> QED
    BY <2>2, <2>3
<1>10. SubPoolSound(left)
  BY <1>1, CheckedOk
<1>11. Holding(r.pos) /\ r.pos.status = "Closed" /\ q.status # "Closed"
  <2>1. Holding(r.pos)
    BY <1>1, <1>3, ClosedHolding
  <2>2. \A x : Holding(x) => Closed(x).status = "Closed"
    BY DEF Closed, Holding, IsPosition, PositionFields
  <2>3. Holding(WithoutShares(t.pos)) /\ Holding(WithoutRecovery(t.pos))
    BY <1>3, ClosedHolding
  <2> QED
    BY <1>1, <2>1, <2>2, <2>3
<1> QED
  BY <1>1, <1>7, <1>8, <1>9, <1>10, <1>11 DEF PaidOut, r

LEMMA ForceCloseSound ==
  ASSUME NEW s, PoolSound(s), NEW p \in Nat, NEW q, Numbered(s), Holding(q),
         ForceClosePosition(s, p, q).err = "Ok"
  PROVE  /\ PaidOut(s, p, ForceClosePosition(s, p, q))
         /\ q.status # "Closed" /\ ForceClosePosition(s, p, q).pos.status = "Closed"
<1> DEFINE t == Touch(s, p, q)
           r == ForceClosePosition(s, p, q)
           active == LeaveActive(t.sp, t.pos, 0)
           middle == IF t.pos.shares > 0 THEN active ELSE t.sp
           left == LeaveRecovery(middle, t.pos)
           back == RecoveryValue(t.sp, t.pos)
           forfeit == [left EXCEPT !.dust[t.pos.dir] = @ + back]
<1>1. /\ t.err = "Ok" /\ q.status # "Closed"
      /\ t.pos.shares > 0 => CanLeaveActive(t.sp, t.pos)
      /\ r.sp = forfeit /\ Checked(forfeit).err = "Ok" /\ r.paid = 0
      /\ r.pos = Closed(WithoutShares(t.pos))
  BY DEF ForceClosePosition, ForceCloseTouched, Finished, Fail
<1> HIDE DEF r
<1>2. Touched(s, p, q, t)
  BY <1>1, TouchSound
<1> HIDE DEF t
<1>3. /\ PoolSound(t.sp) /\ SubPoolSound(t.sp) /\ Funds(t.sp) = Funds(s)
      /\ t.sp.lastPrice = p /\ Holding(t.pos) /\ CanLeaveRecovery(t.sp, t.pos)
      /\ t.pos.dir \in Direction /\ t.pos.shares \in Nat /\ t.pos.notional \in Nat
      /\ t.pos.recovery \in Nat
  BY <1>2 DEF Touched, Holding
<1>4. /\ PoolSound(middle) /\ Funds(middle) = Funds(t.sp)
      /\ middle.dormant = t.sp.dormant /\ middle.lastPrice = p
  <2>1. CASE t.pos.shares > 0
    <3>1. 0 \in Nat /\ 0 <= t.sp.pool[t.pos.dir]
      BY <1>3 DEF PoolSound
    <3>2. /\ PoolSound(active) /\ Funds(active) + 0 = Funds(t.sp)
          /\ active.dormant = t.sp.dormant
      BY <1>1, <1>3, <2>1, <3>1, LeaveActiveSound
    <3>3. active.lastPrice = t.sp.lastPrice
      BY <1>3 DEF LeaveActive, PoolSound, IsSubPool, SubPoolFields
    <3>4. Funds(active) \in Nat
      BY <3>2, FundsBySide DEF Direction
    <3> QED
      BY <1>3, <2>1, <3>2, <3>3, <3>4
  <2>2. CASE ~(t.pos.shares > 0)
    BY <1>3, <2>2
  <2> QED
    BY <2>1, <2>2
<1> HIDE DEF middle
<1>5. CanLeaveRecovery(middle, t.pos) /\ RecoveryValue(middle, t.pos) = back
  BY <1>3, <1>4 DEF CanLeaveRecovery, RecoveryValue
<1>6. PoolSound(left) /\ back \in Nat /\ Funds(left) + back = Funds(middle)
  BY <1>3, <1>4, <1>5, LeaveRecoverySound
<1>7. left.lastPrice = p
  BY <1>4 DEF LeaveRecovery, PoolSound, IsSubPool, SubPoolFields
<1> HIDE DEF left, back
<1>8. PoolSound(forfeit) /\ Funds(forfeit) = Funds(left) + back
  BY <1>3, <1>6, DustAdded
<1>9. forfeit.lastPrice = p
  BY <1>6, <1>7 DEF PoolSound, IsSubPool, SubPoolFields
<1> HIDE DEF forfeit
<1>10. Funds(forfeit) + 0 = Funds(s)
  <2>1. Funds(forfeit) \in Nat
    BY <1>8, FundsBySide DEF Direction
  <2> QED
    BY <1>3, <1>4, <1>6, <1>8, <2>1
<1>11. SubPoolSound(forfeit)
  BY <1>1, CheckedOk
<1>12. Holding(r.pos) /\ r.pos.status = "Closed"
  <2>1. Holding(WithoutShares(t.pos)) /\ Holding(r.pos)
    BY <1>1, <1>3, ClosedHolding
  <2>2. \A x : Holding(x) => Closed(x).status = "Closed"
    BY DEF Closed, Holding, IsPosition, PositionFields
  <2> QED
    BY <1>1, <2>1, <2>2
<1> QED
  BY <1>1, <1>8, <1>9, <1>10, <1>11, <1>12 DEF PaidOut, r

LEMMA ClaimSound ==
  ASSUME NEW s, PoolSound(s), NEW p \in Nat, NEW q, Numbered(s), Holding(q),
         ClaimRecovery(s, p, q).err = "Ok"
  PROVE  PaidOut(s, p, ClaimRecovery(s, p, q)) /\ ClaimRecovery(s, p, q).pos # q
<1> DEFINE t == Touch(s, p, q)
           r == ClaimRecovery(s, p, q)
           left == LeaveRecovery(t.sp, t.pos)
           back == RecoveryValue(t.sp, t.pos)
<1>1. /\ t.err = "Ok" /\ t.pos.recovery # 0
      /\ r.sp = left /\ Checked(left).err = "Ok" /\ r.paid = back
      /\ r.pos = WithoutRecovery(t.pos)
  BY DEF ClaimRecovery, ClaimTouched, Finished, Fail
<1> HIDE DEF r
<1>2. Touched(s, p, q, t)
  BY <1>1, TouchSound
<1> HIDE DEF t
<1>3. /\ PoolSound(t.sp) /\ Funds(t.sp) = Funds(s)
      /\ t.sp.lastPrice = p /\ Holding(t.pos) /\ CanLeaveRecovery(t.sp, t.pos)
      /\ t.pos.dir \in Direction /\ t.pos.recovery \in Nat
      /\ t.pos = Migrated(t.sp, q)
  BY <1>2 DEF Touched, Holding
<1>4. PoolSound(left) /\ back \in Nat /\ Funds(left) + back = Funds(t.sp)
  BY <1>3, LeaveRecoverySound
<1>5. left.lastPrice = p
  BY <1>3 DEF LeaveRecovery, PoolSound, IsSubPool, SubPoolFields
<1> HIDE DEF left, back
<1>6. SubPoolSound(left)
  BY <1>1, CheckedOk
<1>7. Holding(r.pos)
  BY <1>1, <1>3, ClosedHolding
<1>8. r.pos # q
  <2>1. r.pos.recovery = 0 /\ r.pos.shares = t.pos.shares
    BY <1>1, <1>3 DEF WithoutRecovery, Holding, IsPosition, PositionFields
  <2>2. CASE q.recovery # 0
    BY <2>1, <2>2
  <2>3. CASE q.recovery = 0
    <3>1. NeedsMigration(t.sp, q)
      <4>1. ~NeedsMigration(t.sp, q) => t.pos.recovery = q.recovery
        BY <1>3 DEF Migrated, Holding, IsPosition, PositionFields
      <4> QED
        BY <1>1, <2>3, <4>1
    <3>2. q.shares > 0
      BY <3>1 DEF NeedsMigration
    <3>3. t.pos.shares = 0
      BY <1>3, <3>1 DEF Migrated, Holding, IsPosition, PositionFields
    <3> QED
      BY <2>1, <3>2, <3>3
  <2> QED
    BY <2>2, <2>3
<1> QED
  BY <1>1, <1>3, <1>4, <1>5, <1>6, <1>7, <1>8 DEF PaidOut, r

-----------------------------------------------------------------------------
LEMMA PreSyncClears ==
  ASSUME NEW s, PoolSound(s), NEW d \in Direction, NEW t, PreSyncBucket(s, d, t).err = "Ok"
  PROVE  /\ Clears(s, PreSyncBucket(s, d, t).sp) /\ SubPoolSound(PreSyncBucket(s, d, t).sp)
         /\ PreSyncBucket(s, d, t).sp.lastPrice = s.lastPrice
<1> DEFINE st == s.dormant[d]
           u == ApplyPending(st, {t})
           r == PreSyncBucket(s, d, t)
           n == [s EXCEPT !.dormant[d] = u]
<1>1. t \in Ticks(st) /\ r = Checked(n)
  BY DEF PreSyncBucket, Fail
<1> HIDE DEF r
<1>2. StoreSound(st) /\ Covered(st) /\ st.dir = d
  BY DEF PoolSound
<1>a. {t} \in SUBSET Ticks(st)
  BY <1>1
<1>b. Covered(u)
  BY <1>2, <1>a, ApplyPendingCovered
<1>3. CaughtUpBy(st, {t}, u) /\ {t} \in SUBSET Ticks(st)
  BY <1>1, <1>2, ApplyPendingSound
<1> HIDE DEF u
<1>4. /\ StoreSound(u) /\ u.dir = d /\ StoreMoney(u) = StoreMoney(st)
      /\ Ticks(u) = Ticks(st)
  BY <1>2, <1>3 DEF CaughtUpBy
<1>5. Keeps(st, u)
  <2>1. ASSUME NEW x \in Ticks(st)
        PROVE  /\ x \in Ticks(u) /\ Promised(st, x) \in Nat
               /\ Promised(u, x) = Promised(st, x)
    <3>1. Promised(st, x) \in Nat
      BY <1>2, PromisedNat DEF StoreSound
    <3>2. Promised(u, x) = Promised(st, x)
      BY <1>2, <1>3, CaughtUpBucket
    <3> QED
      BY <1>4, <3>1, <3>2
  <2> QED
    BY <2>1 DEF Keeps
<1> HIDE DEF st
<1>6. /\ IsSubPool(n) /\ n.lastPrice = s.lastPrice
      /\ n.pool = s.pool /\ n.shares = s.shares /\ n.notional = s.notional
      /\ n.dust = s.dust /\ n.recovery = s.recovery
      /\ n.dormant = [s.dormant EXCEPT ![d] = u]
  BY DEF PoolSound, IsSubPool, SubPoolFields
<1> HIDE DEF n
<1>7. /\ n.dormant = [e \in Direction |-> n.dormant[e]]
      /\ n.dormant[d] = u /\ \A e \in Direction \ {d} : n.dormant[e] = s.dormant[e]
  BY <1>6 DEF PoolSound
<1>8. OneSided(s, n, d)
  BY <1>4, <1>b, <1>6, <1>7 DEF PoolSound, OneSided
<1>9. PoolSound(n) /\ Funds(n) = Funds(s)
  <2>1. /\ PoolSound(n) /\ Funds(n) \in Nat /\ Funds(s) \in Nat
        /\ Funds(n) + SideFunds(s, d) = Funds(s) + SideFunds(n, d)
        /\ SideFunds(n, d) = n.pool[d] + n.dust[d] + StoreMoney(n.dormant[d])
        /\ SideFunds(s, d) = s.pool[d] + s.dust[d] + StoreMoney(s.dormant[d])
        /\ SideFunds(s, d) \in Nat
    BY <1>8, OneSide
  <2>2. SideFunds(n, d) = SideFunds(s, d)
    BY <1>4, <1>6, <1>7, <2>1 DEF st
  <2> QED
    BY <2>1, <2>2
<1>10. KeepsAll(s, n)
  <2>1. \A e \in Direction \ {d} : Keeps(s.dormant[e], n.dormant[e])
    BY <1>7, KeepsSelf DEF PoolSound
  <2> QED
    BY <1>5, <1>7, <2>1 DEF KeepsAll, st
<1>11. r.sp = n /\ SubPoolSound(n)
  <2>1. Checked(n).err = "Ok"
    BY <1>1 DEF r
  <2> QED
    BY <1>1, <2>1, CheckedOk
<1> QED
  BY <1>6, <1>9, <1>10, <1>11 DEF Clears, r

LEMMA HarvestSound ==
  ASSUME NEW s, PoolSound(s), NEW d \in Direction, HarvestDust(s, d).err = "Ok"
  PROVE  /\ PoolSound(HarvestDust(s, d).sp) /\ SubPoolSound(HarvestDust(s, d).sp)
         /\ s.dust[d] \in Nat
         /\ Funds(HarvestDust(s, d).sp) + s.dust[d] = Funds(s)
         /\ KeepsAll(s, HarvestDust(s, d).sp)
         /\ HarvestDust(s, d).sp.lastPrice = s.lastPrice
<1> DEFINE r == HarvestDust(s, d)
           n == [s EXCEPT !.dust[d] = 0]
<1>1. r = Checked(n)
  BY DEF HarvestDust
<1>2. r.sp = n /\ SubPoolSound(n)
  BY <1>1, CheckedOk
<1>3. /\ IsSubPool(n) /\ n.lastPrice = s.lastPrice
      /\ n.pool = s.pool /\ n.shares = s.shares /\ n.notional = s.notional
      /\ n.dust = [s.dust EXCEPT ![d] = 0] /\ n.recovery = s.recovery
      /\ n.dormant = s.dormant
  BY DEF PoolSound, IsSubPool, SubPoolFields
<1> HIDE DEF r, n
<1>4. /\ n.dust \in [Direction -> Nat] /\ n.dust[d] = 0
      /\ \A e \in Direction \ {d} : n.dust[e] = s.dust[e]
  BY <1>3 DEF PoolSound
<1>5. OneSided(s, n, d)
  BY <1>3, <1>4 DEF PoolSound, OneSided
<1>6. /\ PoolSound(n) /\ Funds(n) \in Nat /\ Funds(s) \in Nat
      /\ Funds(n) + SideFunds(s, d) = Funds(s) + SideFunds(n, d)
      /\ SideFunds(n, d) = n.pool[d] + n.dust[d] + StoreMoney(n.dormant[d])
      /\ SideFunds(s, d) = s.pool[d] + s.dust[d] + StoreMoney(s.dormant[d])
      /\ s.pool[d] \in Nat /\ s.dust[d] \in Nat /\ StoreMoney(s.dormant[d]) \in Nat
  BY <1>5, OneSide
<1>7. Funds(n) + s.dust[d] = Funds(s)
  <2>1. PICK x, y, z, f, h \in Nat : /\ x = s.pool[d] /\ y = s.dust[d]
                                     /\ z = StoreMoney(s.dormant[d])
                                     /\ f = Funds(s) /\ h = Funds(n)
    BY <1>6
  <2>2. h + (x + y + z) = f + (x + 0 + z)
    BY <1>3, <1>4, <1>6, <2>1
  <2> QED
    BY <2>1, <2>2
<1>8. KeepsAll(s, n)
  BY <1>3, KeepsSelf DEF KeepsAll, PoolSound
<1> QED
  BY <1>2, <1>3, <1>6, <1>7, <1>8 DEF r

LEMMA NewSubPoolSound == PoolSound(NewSubPool) /\ SubPoolSound(NewSubPool) /\ Funds(NewSubPool) = 0
<1> DEFINE s == NewSubPool
<1>1. /\ IsSubPool(s) /\ s.pool = Both(0) /\ s.shares = Both(0) /\ s.notional = Both(0)
      /\ s.dust = Both(0) /\ s.recovery = Both(0) /\ s.lastPrice = 0
      /\ s.dormant = [d \in Direction |-> NewStore(d)]
  BY DEF NewSubPool, IsSubPool, SubPoolFields
<1> HIDE DEF s
<1>2. Both(0) \in [Direction -> Nat] /\ \A d \in Direction : Both(0)[d] = 0
  BY DEF Both
<1>3. \A d \in Direction : s.dormant[d] = NewStore(d)
  BY <1>1
<1>4. ASSUME NEW d \in Direction
      PROVE  /\ NewStore(d).dir = d /\ Ticks(NewStore(d)) = {} /\ NewStore(d).ledger = <<>>
             /\ NewStore(d).accruedTotal = 0 /\ NewStore(d).pending = 0
  BY DEF NewStore, Ticks
<1>5. PoolSound(s)
  <2>1. \A d \in Direction : /\ StoreSound(s.dormant[d]) /\ Covered(s.dormant[d])
                             /\ s.dormant[d].dir = d
    BY <1>3, <1>4, NewStoreSound, NewStoreCovered
  <2>2. s.recovery = [d \in Direction |-> s.recovery[d]]
    BY <1>1 DEF Both
  <2> QED
    BY <1>1, <1>2, <2>1, <2>2 DEF PoolSound
<1>6. SubPoolSound(s)
  <2> SUFFICES ASSUME NEW d \in Direction
               PROVE  /\ (s.pool[d] = 0) = (s.shares[d] = 0)
                      /\ TotalRecoveryShares(s.dormant[d]) = s.recovery[d]
                      /\ CheckStore(s.dormant[d])
    BY DEF SubPoolSound
  <2> DEFINE st == NewStore(d)
  <2>1. TotalRecoveryShares(st) = 0
    BY <1>4, SumEmpty DEF TotalRecoveryShares
  <2>2. CheckStore(st)
    <3>1. DOMAIN st.ledger = {}
      BY <1>4
    <3>2. /\ SumOver([t \in Ticks(st) |-> st.bucket[t].accrued], Ticks(st)) = 0
          /\ SumOver([i \in DOMAIN st.ledger |-> st.ledger[i].observed], DOMAIN st.ledger) = 0
      BY <1>4, <3>1, SumEmpty
    <3> QED
      BY <1>4, <3>2 DEF CheckStore
  <2> QED
    BY <1>1, <1>2, <1>3, <2>1, <2>2
<1>7. Funds(s) = 0
  <2>1. "Long" \in Direction /\ "Short" \in Direction
    BY DEF Direction
  <2>2. SideFunds(s, "Long") = 0 /\ SideFunds(s, "Short") = 0
    BY <1>1, <1>2, <1>3, <1>4, <2>1 DEF SideFunds
  <2> QED
    BY <2>2 DEF Funds
<1> QED
  BY <1>5, <1>6, <1>7 DEF s

-----------------------------------------------------------------------------
(***************************************************************************)
(* Shares.  The books of a sub-pool are its accounts: the shares and the   *)
(* notional of each running series, and the shares of each bucket.  Each   *)
(* is the sum, over all positions, of what the position has in it.         *)
(***************************************************************************)
BookAccounts ==
  [kind : {"shares", "notional", "bucket"}, dir : Direction, tick : Nat \cup {NoTick}]

OnBooks(s, a) ==
  IF a.kind = "shares" THEN s.shares[a.dir]
  ELSE IF a.kind = "notional" THEN s.notional[a.dir]
  ELSE HeldIn(s.dormant[a.dir], a.tick)

(* What position q has in account a, migrated or not.                      *)
Weight(s, q, a) ==
  IF q.dir # a.dir THEN 0
  ELSE IF a.kind = "bucket"
  THEN IF Migrated(s, q).tick = a.tick THEN Migrated(s, q).recovery ELSE 0
  ELSE IF q.shares = 0 \/ NeedsMigration(s, q) THEN 0
  ELSE IF a.kind = "shares" THEN q.shares ELSE q.notional

Weights(s, P, a) == [i \in 1 .. Len(P) |-> Weight(s, P[i], a)]

Backed(s, P) ==
  \A a \in BookAccounts : OnBooks(s, a) = SumOver(Weights(s, P, a), 1 .. Len(P))

(* A position has shares in the active pool or in a bucket, never in both. *)
OneSeries(q) == q.shares > 0 => q.recovery = 0

Listed(s, P) ==
  /\ Numbered(s) /\ PoolSound(s)
  /\ IsList(P)
  /\ \A i \in 1 .. Len(P) : Placed(s, P[i]) /\ Holding(P[i]) /\ OneSeries(P[i])

(* What lazy migration makes of a position, stale or not.                  *)
LEMMA MigratedFields ==
  ASSUME NEW s, NEW q, Numbered(s), Placed(s, q), Holding(q)
  PROVE  /\ ~NeedsMigration(s, q) =>
              /\ Migrated(s, q).shares = q.shares /\ Migrated(s, q).notional = q.notional
              /\ Migrated(s, q).recovery = q.recovery /\ Migrated(s, q).tick = q.tick
         /\ NeedsMigration(s, q) =>
              /\ q.gen + 1 \in DOMAIN s.rotateLog[q.dir]
              /\ Migrated(s, q).shares = 0 /\ Migrated(s, q).notional = 0
              /\ Migrated(s, q).recovery = q.recovery + q.shares
              /\ Migrated(s, q).tick = s.rotateLog[q.dir][q.gen + 1].tick
<1>1. CASE ~NeedsMigration(s, q)
  BY <1>1 DEF Migrated, Holding, IsPosition, PositionFields
<1>2. CASE NeedsMigration(s, q)
  <2> DEFINE d == q.dir
             log == s.rotateLog[d]
  <2>1. d \in Direction /\ s.gen[d] \in Nat /\ q.gen \in Nat /\ q.gen < s.gen[d]
    BY <1>2 DEF Placed, Numbered, NeedsMigration
  <2>2. DOMAIN log = 1 .. s.gen[d] /\ \A j \in 1 .. s.gen[d] : log[j].gen = j - 1
    BY <2>1 DEF Numbered, IsLog
  <2>3. q.gen + 1 \in DOMAIN log
    BY <2>1, <2>2
  <2>4. RotateRecords(s, q) = {q.gen + 1}
    BY <2>1, <2>2, <2>3, OwnPlace DEF RotateRecords
  <2>5. PICK k \in Nat : k = q.gen + 1
    BY <2>1
  <2>6. Min({k}) = k
    BY <2>5 DEF Min
  <2>7. Migrated(s, q) =
          [q EXCEPT !.recovery = @ + q.shares, !.tick = log[k].tick,
                    !.shares = 0, !.notional = 0, !.status = "Dormant", !.gen = s.gen[d]]
    BY <1>2, <2>4, <2>5, <2>6 DEF Migrated
  <2> HIDE DEF log, d
  <2>8. /\ Migrated(s, q).shares = 0 /\ Migrated(s, q).notional = 0
        /\ Migrated(s, q).recovery = q.recovery + q.shares
        /\ Migrated(s, q).tick = log[k].tick
    BY <2>7 DEF Holding, IsPosition, PositionFields
  <2> QED
    BY <1>2, <2>3, <2>5, <2>8 DEF log, d
<1> QED
  BY <1>1, <1>2

LEMMA WeightNat ==
  ASSUME NEW s, NEW q, Numbered(s), Placed(s, q), Holding(q), NEW a
  PROVE  Weight(s, q, a) \in Nat
<1>1. q.shares \in Nat /\ q.notional \in Nat /\ q.recovery \in Nat
  BY DEF Holding
<1>2. Migrated(s, q).recovery \in Nat
  BY <1>1, MigratedFields
<1> QED
  BY <1>1, <1>2 DEF Weight

(* A call that ends no generation changes no position's weight.            *)
LEMMA SameGensWeight ==
  ASSUME NEW s, NEW t, SameGens(s, t), NEW q, NEW a
  PROVE  Weight(t, q, a) = Weight(s, q, a)
BY DEF SameGens, Weight, Migrated, NeedsMigration, RotateRecords

SameBooks(s, t) == \A a \in BookAccounts : OnBooks(t, a) = OnBooks(s, a)

LEMMA SameWeights ==
  ASSUME NEW s, NEW t, SameGens(s, t), NEW P, NEW a
  PROVE  Weights(t, P, a) = Weights(s, P, a)
BY SameGensWeight DEF Weights

LEMMA SameBacked ==
  ASSUME NEW s, NEW t, SameGens(s, t), SameBooks(s, t), NEW P, Backed(s, P)
  PROVE  Backed(t, P)
BY SameWeights DEF Backed, SameBooks

LEMMA SideAccounts ==
  ASSUME NEW s, NEW t, t.shares = s.shares, t.notional = s.notional,
         \A d \in Direction : SameShares(s.dormant[d], t.dormant[d])
  PROVE  SameBooks(s, t)
<1> SUFFICES ASSUME NEW a \in BookAccounts PROVE OnBooks(t, a) = OnBooks(s, a)
  BY DEF SameBooks
<1>1. a.dir \in Direction
  BY DEF BookAccounts
<1>2. HeldIn(t.dormant[a.dir], a.tick) = HeldIn(s.dormant[a.dir], a.tick)
  BY <1>1, SameSharesHeld
<1> QED
  BY <1>2 DEF OnBooks

(* A rotation moves the running series of its side, whole, into a bucket;  *)
(* a position that was in it has from then on what it had, in the bucket.  *)
RotatedAt(s, t, d, tick) ==
  /\ Numbered(s) /\ Numbered(t) /\ tick \in Nat
  /\ t.gen = [s.gen EXCEPT ![d] = @ + 1]
  /\ t.rotateLog = [s.rotateLog EXCEPT ![d] = Append(@, [gen |-> s.gen[d], tick |-> tick])]

(* The account of the shares of the running series of side d.              *)
Running(d) == [kind |-> "shares", dir |-> d, tick |-> NoTick]

(* Position q goes along with the series that was running.                 *)
GoesAlong(s, t, d, tick, q, a) ==
  /\ a.dir # d => Weight(t, q, a) = Weight(s, q, a)
  /\ a.dir = d /\ a.kind # "bucket" => Weight(t, q, a) = 0
  /\ a.dir = d /\ a.kind = "bucket" =>
       Weight(t, q, a)
         = Weight(s, q, a) + (IF a.tick = tick THEN Weight(s, q, Running(d)) ELSE 0)

LEMMA RotatedWeight ==
  ASSUME NEW s, NEW t, NEW d \in Direction, NEW tick, RotatedAt(s, t, d, tick),
         NEW q, Placed(s, q), Placed(t, q), Holding(q), OneSeries(q), NEW a \in BookAccounts
  PROVE  GoesAlong(s, t, d, tick, q, a)
<1> DEFINE c == Running(d)
<1> SUFFICES
      /\ a.dir # d => Weight(t, q, a) = Weight(s, q, a)
      /\ a.dir = d /\ a.kind # "bucket" => Weight(t, q, a) = 0
      /\ a.dir = d /\ a.kind = "bucket" =>
           Weight(t, q, a) = Weight(s, q, a) + (IF a.tick = tick THEN Weight(s, q, c) ELSE 0)
  BY DEF GoesAlong
<1>c. c.kind = "shares" /\ c.dir = d
  BY DEF Running
<1> HIDE DEF c
<1>0. Numbered(s) /\ Numbered(t) /\ tick \in Nat
  BY DEF RotatedAt
<1>b. /\ t.gen = [s.gen EXCEPT ![d] = @ + 1]
      /\ t.rotateLog = [s.rotateLog EXCEPT ![d] = Append(@, [gen |-> s.gen[d], tick |-> tick])]
  BY DEF RotatedAt
<1>1. /\ s.gen \in [Direction -> Nat] /\ a.dir \in Direction
      /\ q.dir \in Direction /\ q.gen \in 0 .. s.gen[q.dir]
      /\ q.shares \in Nat /\ q.recovery \in Nat
      /\ Weight(s, q, a) \in Nat
  BY <1>0, WeightNat DEF Numbered, Placed, Holding, BookAccounts
<1>a. \A x : q.dir # x.dir => Weight(s, q, x) = 0 /\ Weight(t, q, x) = 0
  BY DEF Weight
<1>2. CASE q.dir # a.dir
  BY <1>c, <1>2, <1>a
<1>3. CASE q.dir = a.dir /\ a.dir # d
  <2>1. t.gen[q.dir] = s.gen[q.dir] /\ t.rotateLog[q.dir] = s.rotateLog[q.dir]
    BY <1>0, <1>b, <1>1, <1>3 DEF Numbered
  <2>2. NeedsMigration(t, q) <=> NeedsMigration(s, q)
    BY <2>1 DEF NeedsMigration
  <2>3. Migrated(t, q) = Migrated(s, q)
    <3>1. RotateRecords(t, q) = RotateRecords(s, q)
      BY <2>1 DEF RotateRecords
    <3> QED
      BY <2>1, <2>2, <3>1 DEF Migrated
  <2>4. Weight(t, q, a) = Weight(s, q, a)
    BY <2>2, <2>3 DEF Weight
  <2> QED
    BY <1>3, <2>4
<1>4. CASE q.dir = d /\ a.dir = d
  <2>1. t.gen[d] = s.gen[d] + 1 /\ s.gen[d] \in Nat /\ q.gen \in 0 .. s.gen[d]
    BY <1>0, <1>b, <1>1, <1>4
  <2>2. NeedsMigration(t, q) <=> q.shares > 0
    BY <1>1, <1>4, <2>1 DEF NeedsMigration
  <2>3. CASE a.kind # "bucket"
    BY <1>1, <1>4, <2>2, <2>3 DEF Weight
  <2>4. CASE a.kind = "bucket"
    <3>1. CASE q.shares = 0
      <4>1. ~NeedsMigration(s, q) /\ ~NeedsMigration(t, q)
        BY <3>1, <2>2 DEF NeedsMigration
      <4>2. /\ Migrated(t, q).recovery = Migrated(s, q).recovery
            /\ Migrated(t, q).tick = Migrated(s, q).tick
        BY <1>0, <4>1, MigratedFields
      <4>3. Weight(t, q, a) = Weight(s, q, a) /\ Weight(s, q, c) = 0
        BY <1>c, <3>1, <4>2, <1>4, <2>4 DEF Weight
      <4> QED
        BY <1>1, <2>4, <4>3
    <3>2. CASE q.shares > 0
      <4> DEFINE log == s.rotateLog[d]
                 new == t.rotateLog[d]
                 rec == [gen |-> s.gen[d], tick |-> tick]
      <4>1. log \in Seq([gen : Nat, tick : Nat]) /\ Len(log) = s.gen[d] /\ new = Append(log, rec)
        BY <1>0, <1>b, <2>1 DEF Numbered, IsLog
      <4>2. /\ \A j \in 1 .. s.gen[d] : new[j] = log[j]
            /\ new[s.gen[d] + 1] = rec
        <5> DEFINE S == [gen : Nat, tick : Nat]
        <5>1. log \in Seq(S) /\ rec \in S
          BY <1>0, <4>1, <2>1
        <5> HIDE DEF S, log, new, rec
        <5> QED
          BY <4>1, <5>1, <2>1
      <4>3. q.recovery = 0
        BY <3>2 DEF OneSeries
      <4>4. /\ Migrated(t, q).recovery = q.shares
            /\ Migrated(t, q).tick = new[q.gen + 1].tick
        <5>1. NeedsMigration(t, q)
          BY <2>2, <3>2
        <5>2. /\ Migrated(t, q).recovery = q.recovery + q.shares
              /\ Migrated(t, q).tick = t.rotateLog[q.dir][q.gen + 1].tick
          BY ONLY <5>1, MigratedFields, <1>0, Placed(t, q), Holding(q)
        <5>3. 0 + q.shares = q.shares
          BY <1>1
        <5> QED
          BY <1>4, <4>3, <5>2, <5>3
      <4> HIDE DEF log, new
      <4>5. CASE q.gen = s.gen[d]
        <5>1. ~NeedsMigration(s, q)
          BY <1>4, <4>5 DEF NeedsMigration
        <5>2. Migrated(s, q).recovery = 0
          BY ONLY <5>1, <4>3, MigratedFields, <1>0, Placed(s, q), Holding(q)
        <5>3. Weight(s, q, a) = 0
          BY <5>2, <1>4, <2>4 DEF Weight
        <5>4. Weight(s, q, c) = q.shares
          BY <1>c, <5>1, <1>4, <3>2 DEF Weight
        <5>5. Weight(t, q, a) = IF a.tick = tick THEN q.shares ELSE 0
          BY <1>4, <2>4, <4>2, <4>4, <4>5 DEF Weight
        <5> QED
          BY <1>1, <1>4, <2>4, <5>3, <5>4, <5>5
      <4>6. CASE q.gen # s.gen[d]
        <5>1. NeedsMigration(s, q) /\ q.gen + 1 \in 1 .. s.gen[d]
          BY <1>4, <2>1, <3>2, <4>6 DEF NeedsMigration
        <5>2. Migrated(s, q).recovery = q.shares /\ Migrated(s, q).tick = log[q.gen + 1].tick
          BY <1>0, <1>1, <1>4, <4>3, <5>1, MigratedFields DEF log
        <5>3. new[q.gen + 1] = log[q.gen + 1]
          BY <4>2, <5>1
        <5>4. Weight(t, q, a) = Weight(s, q, a) /\ Weight(s, q, c) = 0
          BY <1>c, <1>4, <2>4, <4>4, <5>1, <5>2, <5>3 DEF Weight
        <5> QED
          BY <1>1, <2>4, <5>4
      <4> QED
        BY <4>5, <4>6
    <3> QED
      BY <1>1, <3>1, <3>2
  <2> QED
    BY <1>4, <2>3, <2>4
<1>5. CASE q.dir # d /\ a.dir = d
  BY <1>2, <1>5
<1> QED
  BY <1>2, <1>3, <1>4, <1>5

LEMMA WeightsAmounts ==
  ASSUME NEW s, NEW P, Listed(s, P), NEW a
  PROVE  /\ Amounts(Weights(s, P, a), 1 .. Len(P)) /\ IsFiniteSet(1 .. Len(P))
         /\ \A i \in 1 .. Len(P) : Weights(s, P, a)[i] = Weight(s, P[i], a)
         /\ Len(P) \in Nat
<1>1. Len(P) \in Nat
  BY DEF Listed, IsList
<1>2. IsFiniteSet(1 .. Len(P))
  BY <1>1, FS_Interval
<1>3. \A i \in 1 .. Len(P) : Weight(s, P[i], a) \in Nat
  BY WeightNat DEF Listed
<1> QED
  BY <1>1, <1>2, <1>3 DEF Weights, Amounts

LEMMA ListedFollows ==
  ASSUME NEW s, NEW t, NEW P, Listed(s, P), ComesAfter(s, t), PoolSound(t)
  PROVE  Listed(t, P)
BY PlacedFollows DEF Listed, ComesAfter

(* The positions of P own what is on the books of s.                       *)
Owned(s, P) == Listed(s, P) /\ Backed(s, P)

(* A rotation hands the shares of a running series over to a bucket.       *)
LEMMA RotateBacked ==
  ASSUME NEW s, NEW P, Owned(s, P), NEW d \in Direction, NEW p \in Nat,
         Rotate(s, d, p).err = "Ok"
  PROVE  Owned(Rotate(s, d, p).sp, P)
<1> DEFINE tick == BucketTickOf(p)
           st == s.dormant[d]
           u == InsertOrMerge(st, tick, p, s.shares[d], s.notional[d])
           t == Rotate(s, d, p).sp
           record == RotateRecord(s, d, tick)
           moved == [s EXCEPT !.dormant[d] = u, !.recovery[d] = @ + s.shares[d],
                              !.shares[d] = 0, !.notional[d] = 0,
                              !.rotateLog[d] = Append(@, record), !.gen[d] = @ + 1]
           c == Running(d)
           S == 1 .. Len(P)
<1>0. Listed(s, P) /\ Backed(s, P)
  BY DEF Owned
<1>1. t = s \/ t = moved
  BY DEF Rotate, Ok, Fail
<1>2. Numbered(s) /\ PoolSound(s) /\ ComesAfter(s, t) /\ PoolSound(t) /\ Numbered(t)
  <2>1. Numbered(s) /\ PoolSound(s)
    BY <1>0 DEF Listed
  <2> QED
    BY <2>1, RotateFollows, RotateClears DEF Clears, ComesAfter
<1>3. Listed(t, P)
  BY <1>0, <1>2, ListedFollows
<1>4. CASE t = s
  BY <1>0, <1>4 DEF Owned
<1>5. CASE t = moved
  <2>1. tick \in Nat /\ record = [gen |-> s.gen[d], tick |-> tick]
    BY CoreParameters DEF BucketTickOf, RotateRecord
  <2>2. StoreSound(st) /\ s.shares[d] \in Nat
    BY <1>2 DEF PoolSound
  <2> HIDE DEF tick
  <2>3. \A k : HeldIn(u, k) = HeldIn(st, k) + (IF k = tick THEN s.shares[d] ELSE 0)
    BY <2>2, InsertShares
  <2> HIDE DEF t, u, record
  <2>4. /\ t.shares = [s.shares EXCEPT ![d] = 0] /\ t.notional = [s.notional EXCEPT ![d] = 0]
        /\ t.dormant = [s.dormant EXCEPT ![d] = u]
        /\ t.rotateLog = [s.rotateLog EXCEPT ![d] = Append(@, record)]
        /\ t.gen = [s.gen EXCEPT ![d] = @ + 1]
    BY <1>2, <1>5 DEF PoolSound, IsSubPool, SubPoolFields
  <2>5. /\ t.shares[d] = 0 /\ t.notional[d] = 0 /\ t.dormant[d] = u
        /\ \A e \in Direction \ {d} : /\ t.shares[e] = s.shares[e]
                                       /\ t.notional[e] = s.notional[e]
                                       /\ t.dormant[e] = s.dormant[e]
    BY <1>2, <2>4 DEF PoolSound
  <2>6. c \in BookAccounts /\ c.kind = "shares" /\ c.dir = d
    BY DEF BookAccounts, Running
  <2>7. ASSUME NEW a \in BookAccounts, NEW i \in S
        PROVE  /\ a.dir # d => Weight(t, P[i], a) = Weight(s, P[i], a)
               /\ a.dir = d /\ a.kind # "bucket" => Weight(t, P[i], a) = 0
               /\ a.dir = d /\ a.kind = "bucket" =>
                    Weight(t, P[i], a) = Weight(s, P[i], a)
                                         + (IF a.tick = tick THEN Weight(s, P[i], c) ELSE 0)
    <3>1. /\ Placed(s, P[i]) /\ Holding(P[i]) /\ OneSeries(P[i]) /\ Placed(t, P[i])
      BY <1>0, <1>3 DEF Listed
    <3>2. RotatedAt(s, t, d, tick)
      BY <1>2, <2>1, <2>4 DEF RotatedAt
    <3>3. PICK q : q = P[i]
      OBVIOUS
    <3>4. GoesAlong(s, t, d, tick, q, a)
      <4>1. Placed(s, q) /\ Holding(q) /\ OneSeries(q) /\ Placed(t, q)
        BY <3>1, <3>3
      <4> QED
        BY ONLY <4>1, <3>2, a \in BookAccounts, d \in Direction, RotatedWeight
    <3> QED
      BY <3>3, <3>4 DEF GoesAlong
  <2> HIDE DEF c
  <2>8. ASSUME NEW a \in BookAccounts PROVE OnBooks(t, a) = SumOver(Weights(t, P, a), S)
    <3>1. /\ Amounts(Weights(s, P, a), S) /\ Amounts(Weights(s, P, c), S) /\ IsFiniteSet(S)
          /\ \A i \in S : /\ Weights(s, P, a)[i] = Weight(s, P[i], a)
                          /\ Weights(s, P, c)[i] = Weight(s, P[i], c)
                          /\ Weights(t, P, a)[i] = Weight(t, P[i], a)
      BY <1>0, <1>3, WeightsAmounts
    <3>2. /\ OnBooks(s, a) = SumOver(Weights(s, P, a), S)
          /\ s.shares[d] = SumOver(Weights(s, P, c), S)
      BY <1>0, <2>6 DEF Backed, OnBooks
    <3>3. a.dir \in Direction /\ a.kind \in {"shares", "notional", "bucket"}
      BY DEF BookAccounts
    <3> HIDE DEF S
    <3>4. CASE a.dir # d
      <4>1. OnBooks(t, a) = OnBooks(s, a)
        BY <2>5, <3>3, <3>4 DEF OnBooks
      <4>2. \A i \in S : Weights(t, P, a)[i] = Weights(s, P, a)[i]
        BY <2>7, <3>1, <3>4
      <4>3. SumOver(Weights(t, P, a), S) = SumOver(Weights(s, P, a), S)
        BY <3>1, <4>2, SumSame
      <4> QED
        BY <3>2, <4>1, <4>3
    <3>5. CASE a.dir = d /\ a.kind # "bucket"
      <4>1. OnBooks(t, a) = 0
        BY <2>5, <3>3, <3>5 DEF OnBooks
      <4>2. \A i \in S : Weights(t, P, a)[i] = 0
        BY <2>7, <3>1, <3>5
      <4> QED
        BY <3>1, <4>1, <4>2, SumZero
    <3>6. CASE a.dir = d /\ a.kind = "bucket" /\ a.tick = tick
      <4>1. OnBooks(s, a) = HeldIn(st, tick) /\ OnBooks(t, a) = HeldIn(u, tick)
        BY <2>5, <3>6 DEF OnBooks
      <4>2. OnBooks(t, a) = OnBooks(s, a) + s.shares[d]
        BY <2>3, <4>1
      <4>3. \A i \in S : Weights(t, P, a)[i] = Weights(s, P, a)[i] + Weights(s, P, c)[i]
        BY <2>7, <3>1, <3>6
      <4>4. SumOver(Weights(t, P, a), S)
              = SumOver(Weights(s, P, a), S) + SumOver(Weights(s, P, c), S)
        BY <3>1, <4>3, SumPlus
      <4> QED
        BY <3>2, <4>2, <4>4
    <3>7. CASE a.dir = d /\ a.kind = "bucket" /\ a.tick # tick
      <4>1. OnBooks(s, a) = HeldIn(st, a.tick) /\ OnBooks(t, a) = HeldIn(u, a.tick)
        BY <2>5, <3>7 DEF OnBooks
      <4>2. HeldIn(st, a.tick) \in Nat
        BY <2>2 DEF HeldIn, StoreSound, StoreTyped, Bucket
      <4>3. OnBooks(t, a) = OnBooks(s, a)
        BY <2>3, <3>7, <4>1, <4>2
      <4>4. \A i \in S : Weights(t, P, a)[i] = Weights(s, P, a)[i]
        BY <2>7, <3>1, <3>7 DEF Amounts
      <4>5. SumOver(Weights(t, P, a), S) = SumOver(Weights(s, P, a), S)
        BY <3>1, <4>4, SumSame
      <4> QED
        BY <3>2, <4>3, <4>5
    <3> QED
      BY <3>4, <3>5, <3>6, <3>7
  <2>9. Backed(t, P)
    BY <2>8 DEF Backed
  <2> QED
    BY <1>3, <2>9 DEF t, Owned
<1> QED
  BY <1>1, <1>4, <1>5

(* A call that ends no generation and leaves the books as they are.        *)
LEMMA SameOwned ==
  ASSUME NEW s, NEW t, NEW P, Owned(s, P), SameGens(s, t), SameBooks(s, t), PoolSound(t)
  PROVE  Owned(t, P)
<1>1. Listed(s, P) /\ Backed(s, P) /\ Numbered(s)
  BY DEF Owned, Listed
<1>2. ComesAfter(s, t)
  BY <1>1, SameFollows
<1>3. Listed(t, P)
  BY <1>1, <1>2, ListedFollows
<1> QED
  BY <1>1, <1>3, SameBacked DEF Owned

LEMMA SameSelf == ASSUME NEW st PROVE SameShares(st, st)
BY DEF SameShares

LEMMA SettleBacked ==
  ASSUME NEW s, NEW P, Owned(s, P), NEW w \in Direction, NEW p \in Nat, s.lastPrice # 0,
         Settle(s, w, p).err = "Ok"
  PROVE  Owned(Settle(s, w, p).sp, P)
<1> DEFINE o == Opposite(w)
           transfer == Transfer(s, w, p)
           toActive == MulDivFloor(transfer, ActiveDemand(s, w, p), Demand(s, w, p))
           toRecovery == transfer - toActive
           st == s.dormant[w]
           paid == [s EXCEPT !.pool[w] = @ + toActive, !.pool[o] = @ - transfer]
           placed == [paid EXCEPT !.dormant[w] = Distribute(@, p, toRecovery),
                                  !.dust[w] = @ + Residual(st, p, toRecovery)]
           t == Settle(s, w, p).sp
<1>1. PoolSound(s) /\ IsSubPool(s)
  BY DEF Owned, Listed, PoolSound
<1>2. SameGens(s, t) /\ PoolSound(t)
  BY <1>1, SettleSame, SettleClears DEF Clears
<1>3. /\ transfer = 0 => t = s
      /\ transfer # 0 /\ toRecovery = 0 => t = paid
      /\ transfer # 0 /\ toRecovery # 0 => t = placed
  <2>1. transfer = 0 => t = s
    BY DEF Settle, Ok
  <2>2. transfer # 0 /\ toRecovery = 0 => t = paid
    BY DEF Settle, Ok
  <2>3. transfer # 0 /\ toRecovery # 0 => t = placed
    BY DEF Settle, Ok, Fail
  <2> QED
    BY <2>1, <2>2, <2>3
<1>4. CASE transfer = 0
  BY <1>3, <1>4
<1>5. CASE transfer # 0
  <2>1. /\ transfer \in Nat
        /\ ActiveDemand(s, w, p) \in Nat /\ Demand(s, w, p) \in Nat \ {0}
        /\ ActiveDemand(s, w, p) <= Demand(s, w, p)
    BY <1>1, <1>5, DemandNat
  <2>2. toActive \in Nat /\ toActive <= transfer
    BY <2>1, FloorPart
  <2>3. toRecovery \in Nat
    BY <2>1, <2>2
  <2> DEFINE u == Distribute(st, p, toRecovery)
  <2>4. StoreSound(st)
    BY <1>1 DEF PoolSound
  <2> HIDE DEF transfer, toActive, toRecovery, o, t
  <2>5. SameShares(st, u)
    BY <2>3, <2>4, DistributeShares DEF Distribute
  <2> HIDE DEF u
  <2>6. /\ paid.shares = s.shares /\ paid.notional = s.notional /\ paid.dormant = s.dormant
        /\ IsSubPool(paid)
    BY <1>1 DEF IsSubPool, SubPoolFields
  <2>7. /\ placed.shares = s.shares /\ placed.notional = s.notional
        /\ placed.dormant = [s.dormant EXCEPT ![w] = u]
    <3> HIDE DEF paid
    <3> QED
      BY <2>6 DEF IsSubPool, SubPoolFields, u
  <2> HIDE DEF paid, placed
  <2>8. \A d \in Direction : SameShares(s.dormant[d], placed.dormant[d])
    BY <1>1, <2>5, <2>7, SameSelf DEF PoolSound
  <2>9. t \in {paid, placed}
    BY <1>3, <1>5
  <2>10. /\ t.shares = s.shares /\ t.notional = s.notional
         /\ \A d \in Direction : SameShares(s.dormant[d], t.dormant[d])
    BY <2>6, <2>7, <2>8, <2>9, SameSelf
  <2>11. SameBooks(s, t)
    BY <2>10, SideAccounts
  <2> QED
    BY <1>2, <2>11, SameOwned DEF t
<1> QED
  BY <1>4, <1>5

LEMMA RepricedBacked ==
  ASSUME NEW s, NEW P, Owned(s, P), NEW p \in Nat
  PROVE  Owned([s EXCEPT !.lastPrice = p], P)
<1> DEFINE t == [s EXCEPT !.lastPrice = p]
<1>1. PoolSound(s) /\ IsSubPool(s)
  BY DEF Owned, Listed, PoolSound
<1>2. PoolSound(t)
  BY <1>1, Repriced DEF Clears
<1>3. /\ SameGens(s, t) /\ t.shares = s.shares /\ t.notional = s.notional
      /\ t.dormant = s.dormant
  BY <1>1 DEF SameGens, IsSubPool, SubPoolFields
<1> HIDE DEF t
<1>4. SameBooks(s, t)
  BY <1>3, SameSelf, SideAccounts
<1>5. Owned(t, P)
  BY <1>2, <1>3, <1>4, SameOwned
<1> QED
  BY <1>5 DEF t

LEMMA SyncBacked ==
  ASSUME NEW s, NEW P, Owned(s, P), NEW p \in Nat, SyncPool(s, p).err = "Ok"
  PROVE  Owned(SyncPool(s, p).sp, P)
<1> DEFINE settled == Settle(s, Winner(s, p), p)
           priced == [settled.sp EXCEPT !.lastPrice = p]
           long == Rotate(priced, "Long", p)
           both == Rotate(long.sp, "Short", p)
           renewed == [s EXCEPT !.lastPrice = p]
<1>1. CASE s.lastPrice \in {0, p}
  <2>1. SyncPool(s, p) = Checked(renewed)
    BY <1>1 DEF SyncPool
  <2> HIDE DEF renewed
  <2>2. SyncPool(s, p).sp = renewed
    BY <2>1, CheckedOk
  <2> QED
    BY <2>2, RepricedBacked DEF renewed
<1>2. CASE s.lastPrice \notin {0, p}
  <2>1. /\ SyncPool(s, p) = Checked(RotateBoth(priced, p).sp)
        /\ settled.err = "Ok" /\ RotateBoth(priced, p).err = "Ok"
    BY <1>2 DEF SyncPool, Fail
  <2>2. /\ Winner(s, p) \in Direction /\ "Long" \in Direction /\ "Short" \in Direction
    BY DEF Winner, Direction
  <2>3. Owned(settled.sp, P)
    BY <1>2, <2>1, <2>2, SettleBacked
  <2> HIDE DEF settled
  <2>4. Owned(priced, P)
    BY <2>3, RepricedBacked
  <2> HIDE DEF priced
  <2>5. RotateBoth(priced, p) = both /\ long.err = "Ok" /\ both.err = "Ok"
    BY <2>1 DEF RotateBoth
  <2>6. Owned(long.sp, P)
    BY <2>2, <2>4, <2>5, RotateBacked
  <2> HIDE DEF long
  <2>7. Owned(both.sp, P)
    BY <2>2, <2>5, <2>6, RotateBacked
  <2>8. SyncPool(s, p).sp = both.sp
    BY <2>1, <2>5, CheckedOk
  <2> QED
    BY <2>7, <2>8
<1> QED
  BY <1>1, <1>2

LEMMA PreSyncBacked ==
  ASSUME NEW s, NEW P, Owned(s, P), NEW d \in Direction, NEW t, PreSyncBucket(s, d, t).err = "Ok"
  PROVE  Owned(PreSyncBucket(s, d, t).sp, P)
<1> DEFINE st == s.dormant[d]
           applied == [s EXCEPT !.dormant[d] = ApplyPending(@, {t})]
           u == ApplyPending(st, {t})
           r == PreSyncBucket(s, d, t)
<1>1. PoolSound(s) /\ IsSubPool(s) /\ StoreSound(st)
  BY DEF Owned, Listed, PoolSound
<1>2. r = Checked(applied) /\ {t} \in SUBSET Ticks(st)
  BY DEF PreSyncBucket, Fail
<1>3. SameShares(st, u)
  BY <1>1, <1>2, ApplyPendingShares
<1>4. PoolSound(r.sp)
  BY <1>1, PreSyncClears DEF Clears
<1> HIDE DEF u, r
<1>5. /\ SameGens(s, applied) /\ applied.shares = s.shares /\ applied.notional = s.notional
      /\ applied.dormant = [s.dormant EXCEPT ![d] = u]
  BY <1>1 DEF SameGens, IsSubPool, SubPoolFields, u
<1> HIDE DEF applied
<1>6. \A e \in Direction : SameShares(s.dormant[e], applied.dormant[e])
  BY <1>1, <1>3, <1>5, SameSelf DEF PoolSound
<1>7. SameBooks(s, applied)
  BY <1>5, <1>6, SideAccounts
<1>8. r.sp = applied
  BY <1>2, CheckedSame
<1> QED
  BY <1>4, <1>5, <1>7, <1>8, SameOwned DEF r

LEMMA HarvestBacked ==
  ASSUME NEW s, NEW P, Owned(s, P), NEW d \in Direction, HarvestDust(s, d).err = "Ok"
  PROVE  Owned(HarvestDust(s, d).sp, P)
<1> DEFINE t == [s EXCEPT !.dust[d] = 0]
<1>1. PoolSound(s) /\ IsSubPool(s)
  BY DEF Owned, Listed, PoolSound
<1>2. /\ SameGens(s, t) /\ t.shares = s.shares /\ t.notional = s.notional
      /\ t.dormant = s.dormant
  BY <1>1 DEF SameGens, IsSubPool, SubPoolFields
<1>3. HarvestDust(s, d).sp = t
  BY CheckedSame DEF HarvestDust
<1>4. PoolSound(t)
  BY <1>1, <1>3, HarvestSound
<1> HIDE DEF t
<1>5. SameBooks(s, t)
  BY <1>2, SameSelf, SideAccounts
<1> QED
  BY <1>2, <1>3, <1>4, <1>5, SameOwned

-----------------------------------------------------------------------------
(* A position that leaves takes what it has in each account with it.       *)
LEMMA EmptyWeight ==
  ASSUME NEW s, NEW x, Numbered(s), Placed(s, x), Holding(x), x.shares = 0, x.recovery = 0, NEW a
  PROVE  Weight(s, x, a) = 0
<1>1. ~NeedsMigration(s, x)
  BY DEF NeedsMigration
<1>2. Migrated(s, x).recovery = 0
  BY <1>1, MigratedFields
<1> QED
  BY <1>2 DEF Weight

(* Migration itself takes nothing and brings nothing.                      *)
LEMMA MigratedWeight ==
  ASSUME NEW s, NEW q, Numbered(s), Placed(s, q), Holding(q), OneSeries(q), CanMigrate(s, q)
  PROVE  /\ Placed(s, Migrated(s, q)) /\ Holding(Migrated(s, q)) /\ OneSeries(Migrated(s, q))
         /\ ~NeedsMigration(s, Migrated(s, q))
         /\ \A a : Weight(s, Migrated(s, q), a) = Weight(s, q, a)
<1> DEFINE m == Migrated(s, q)
<1>1. Placed(s, m) /\ Holding(m) /\ m.dir = q.dir /\ m.gen = s.gen[q.dir]
  <2>1. m.gen = s.gen[q.dir]
    BY DEF Migrated, Holding, IsPosition, PositionFields
  <2> QED
    BY <2>1, MigratedPlaced, MigratedHolding
<1>2. ~NeedsMigration(s, m)
  BY <1>1 DEF NeedsMigration
<1>3. /\ ~NeedsMigration(s, q) =>
           m.shares = q.shares /\ m.notional = q.notional /\ m.recovery = q.recovery
      /\ NeedsMigration(s, q) => m.shares = 0
  BY MigratedFields
<1> HIDE DEF m
<1>4. OneSeries(m)
  BY <1>3 DEF OneSeries, Holding
<1>5. Migrated(s, m).recovery = m.recovery /\ Migrated(s, m).tick = m.tick
  BY <1>1, <1>2, MigratedFields
<1>6. ASSUME NEW a PROVE Weight(s, m, a) = Weight(s, q, a)
  <2>1. CASE q.dir # a.dir
    BY <1>1, <2>1 DEF Weight
  <2>2. CASE q.dir = a.dir /\ a.kind = "bucket"
    BY <1>1, <1>5, <2>2 DEF Weight, m
  <2>3. CASE q.dir = a.dir /\ a.kind # "bucket" /\ NeedsMigration(s, q)
    BY <1>1, <1>3, <2>3 DEF Weight
  <2>4. CASE q.dir = a.dir /\ a.kind # "bucket" /\ ~NeedsMigration(s, q)
    BY <1>1, <1>2, <1>3, <2>4 DEF Weight
  <2> QED
    BY <2>1, <2>2, <2>3, <2>4
<1> QED
  BY <1>1, <1>2, <1>4, <1>6 DEF m

(* Its active shares and notional are taken, or there are none.            *)
ActiveTaken(s, v, m) ==
  /\ SameGens(s, v) /\ PoolSound(v) /\ v.dormant = s.dormant
  /\ \/ m.shares = 0 /\ v.shares = s.shares /\ v.notional = s.notional
     \/ /\ m.shares > 0 /\ CanLeaveActive(s, m)
        /\ v.shares = [s.shares EXCEPT ![m.dir] = @ - m.shares]
        /\ v.notional = [s.notional EXCEPT ![m.dir] = @ - m.notional]

Takes(s, u, m) ==
  \A a \in BookAccounts : /\ OnBooks(u, a) \in Nat
                      /\ OnBooks(u, a) + Weight(s, m, a) = OnBooks(s, a)

LEMMA LeavingTakes ==
  ASSUME NEW s, PoolSound(s), Numbered(s), NEW m, Placed(s, m), Holding(m),
         ~NeedsMigration(s, m), CanLeaveRecovery(s, m), NEW v, ActiveTaken(s, v, m)
  PROVE  Takes(s, LeaveRecovery(v, m), m) /\ SameGens(s, LeaveRecovery(v, m))
<1> DEFINE u == LeaveRecovery(v, m)
           d == m.dir
           st == s.dormant[d]
           r == Redeem(st, m.tick, m.recovery)
<1>1. /\ PoolSound(v) /\ IsSubPool(v) /\ v.dormant = s.dormant /\ SameGens(s, v)
      /\ d \in Direction /\ StoreSound(st)
      /\ m.shares \in Nat /\ m.notional \in Nat /\ m.recovery \in Nat
  BY DEF ActiveTaken, PoolSound, Holding
<1>2. SameGens(s, u)
  BY <1>1, LeaveSame DEF SameGens
<1>3. /\ m.recovery = 0 => u = v
      /\ m.recovery # 0 => /\ u.dormant = [s.dormant EXCEPT ![d] = r]
                           /\ u.shares = v.shares /\ u.notional = v.notional
  BY <1>1 DEF LeaveRecovery, IsSubPool, SubPoolFields
<1> HIDE DEF u, r
<1>4. u.shares = v.shares /\ u.notional = v.notional
  BY <1>3
<1>5. Migrated(s, m).recovery = m.recovery /\ Migrated(s, m).tick = m.tick
  BY MigratedFields
<1>6. ASSUME NEW a \in BookAccounts
      PROVE  OnBooks(u, a) \in Nat /\ OnBooks(u, a) + Weight(s, m, a) = OnBooks(s, a)
  <2>1. a.dir \in Direction /\ a.kind \in {"shares", "notional", "bucket"}
    BY DEF BookAccounts
  <2>2. CASE a.kind = "bucket"
    <3> DEFINE k == a.tick
               e == a.dir
    <3>1. /\ OnBooks(u, a) = HeldIn(u.dormant[e], k)
          /\ OnBooks(s, a) = HeldIn(s.dormant[e], k)
          /\ Weight(s, m, a) = IF d = e /\ m.tick = k THEN m.recovery ELSE 0
      BY <1>5, <2>2 DEF OnBooks, Weight
    <3>2. HeldIn(s.dormant[e], k) \in Nat
      BY <2>1 DEF PoolSound, StoreSound, StoreTyped, HeldIn, Bucket
    <3>3. CASE m.recovery = 0 \/ e # d
      <4>1. u.dormant[e] = s.dormant[e] /\ Weight(s, m, a) = 0
        <5>1. CASE m.recovery = 0
          BY <1>1, <1>3, <3>1, <5>1
        <5>2. CASE m.recovery # 0 /\ e # d
          BY <1>1, <1>3, <2>1, <3>1, <5>2 DEF PoolSound
        <5> QED
          BY <3>3, <5>1, <5>2
      <4> QED
        BY <3>1, <3>2, <4>1
    <3>4. CASE m.recovery # 0 /\ e = d
      <4>1. CanRedeem(st, m.tick, m.recovery)
        BY <1>1, <3>4 DEF CanLeaveRecovery
      <4>2. u.dormant[e] = r
        BY <1>1, <1>3, <3>4 DEF PoolSound
      <4>3. /\ HeldIn(r, k) + (IF k = m.tick THEN m.recovery ELSE 0) = HeldIn(st, k)
            /\ HeldIn(r, k) \in Nat
        BY <1>1, <4>1, RedeemShares DEF r
      <4> QED
        BY <3>1, <3>4, <4>2, <4>3
    <3> QED
      BY <3>3, <3>4
  <2>3. CASE a.kind # "bucket"
    <3> DEFINE F(x) == IF a.kind = "shares" THEN x.shares ELSE x.notional
    <3>1. /\ OnBooks(u, a) = F(v)[a.dir] /\ OnBooks(s, a) = F(s)[a.dir]
          /\ Weight(s, m, a) = IF d # a.dir \/ m.shares = 0 THEN 0 ELSE F(m)
      BY <1>4, <2>1, <2>3 DEF OnBooks, Weight
    <3>2. F(s) \in [Direction -> Nat] /\ F(m) \in Nat /\ F(v) \in [Direction -> Nat]
      BY <1>1, <2>1, <2>3 DEF PoolSound
    <3>3. \/ m.shares = 0 /\ F(v) = F(s)
          \/ m.shares > 0 /\ F(m) <= F(s)[d] /\ F(v) = [F(s) EXCEPT ![d] = @ - F(m)]
      BY <2>1, <2>3 DEF ActiveTaken, CanLeaveActive
    <3>4. PICK f, g, n : f = F(s) /\ g = F(v) /\ n = F(m)
      OBVIOUS
    <3> HIDE DEF F
    <3>5. /\ f \in [Direction -> Nat] /\ n \in Nat /\ g \in [Direction -> Nat]
          /\ OnBooks(u, a) = g[a.dir] /\ OnBooks(s, a) = f[a.dir]
          /\ Weight(s, m, a) = IF d # a.dir \/ m.shares = 0 THEN 0 ELSE n
          /\ \/ m.shares = 0 /\ g = f
             \/ m.shares > 0 /\ n <= f[d] /\ g = [f EXCEPT ![d] = @ - n]
      BY <3>1, <3>2, <3>3, <3>4
    <3>6. CASE m.shares = 0
      BY <2>1, <3>5, <3>6
    <3>7. CASE m.shares # 0
      <4>1. g = [f EXCEPT ![d] = @ - n] /\ n <= f[d]
        BY <1>1, <3>5, <3>7
      <4>2. CASE a.dir = d
        <5>1. OnBooks(u, a) = f[d] - n /\ OnBooks(s, a) = f[d] /\ Weight(s, m, a) = n
          BY <1>1, <3>5, <3>7, <4>1, <4>2
        <5> QED
          BY <1>1, <3>5, <4>1, <5>1
      <4>3. CASE a.dir # d
        <5>1. OnBooks(u, a) = f[a.dir] /\ OnBooks(s, a) = f[a.dir] /\ Weight(s, m, a) = 0
          BY <1>1, <2>1, <3>5, <3>7, <4>1, <4>3
        <5> QED
          BY <2>1, <3>5, <5>1
      <4> QED
        BY <4>2, <4>3
    <3> QED
      BY <3>6, <3>7
  <2> QED
    BY <2>2, <2>3
<1> QED
  BY <1>2, <1>6 DEF Takes, u

(* From s to u position q leaves: it becomes x, which has nothing.         *)
Departs(s, u, q, x) ==
  /\ SameGens(s, u) /\ PoolSound(u)
  /\ Takes(s, u, q)
  /\ Placed(u, x) /\ Holding(x) /\ x.shares = 0 /\ x.recovery = 0

LEMMA DepartedOwned ==
  ASSUME NEW s, NEW P, Owned(s, P), NEW i \in 1 .. Len(P), NEW u, NEW x,
         Departs(s, u, P[i], x)
  PROVE  Owned(u, [P EXCEPT ![i] = x])
<1> DEFINE S == 1 .. Len(P)
           Q == [P EXCEPT ![i] = x]
<1>1. /\ Listed(s, P) /\ Backed(s, P) /\ Numbered(s) /\ IsList(P) /\ PoolSound(u)
      /\ SameGens(s, u) /\ Placed(u, x) /\ Holding(x) /\ x.shares = 0 /\ x.recovery = 0
  BY DEF Owned, Listed, Departs
<1>2. ComesAfter(s, u) /\ Numbered(u)
  BY <1>1, SameFollows DEF ComesAfter
<1>3. Listed(u, P)
  BY <1>1, <1>2, ListedFollows
<1>4. /\ IsList(Q) /\ Len(Q) = Len(P) /\ Len(P) \in Nat
      /\ \A j \in S : Q[j] = IF j = i THEN x ELSE P[j]
  <2>1. Len(P) \in Nat /\ P = [j \in S |-> P[j]]
    BY <1>1, LenProperties DEF IsList
  <2>2. Q = [j \in S |-> Q[j]] /\ \A j \in S : Q[j] = IF j = i THEN x ELSE P[j]
    BY <2>1
  <2>3. PICK f : f = Q
    OBVIOUS
  <2> HIDE DEF Q
  <2>4. IsList(f) /\ Len(f) = Len(P)
    BY <2>1, <2>2, <2>3, FunctionIsList
  <2> QED
    BY <2>1, <2>2, <2>3, <2>4
<1> HIDE DEF Q
<1>5. Listed(u, Q)
  BY <1>1, <1>3, <1>4 DEF Listed, OneSeries
<1>6. ASSUME NEW a \in BookAccounts PROVE OnBooks(u, a) = SumOver(Weights(u, Q, a), S)
  <2> DEFINE f == Weights(s, P, a)
             g == Weights(u, Q, a)
  <2>1. /\ Amounts(f, S) /\ Amounts(g, S) /\ IsFiniteSet(S)
        /\ \A j \in S : f[j] = Weight(s, P[j], a) /\ g[j] = Weight(u, Q[j], a)
    BY <1>1, <1>4, <1>5, WeightsAmounts
  <2>2. g[i] = 0
    BY <1>1, <1>2, <1>4, <2>1, EmptyWeight
  <2>3. \A j \in S \ {i} : g[j] = f[j]
    BY <1>1, <1>4, <2>1, SameGensWeight
  <2>4. f[i] = Weight(s, P[i], a)
    BY <2>1
  <2> HIDE DEF f, g
  <2>5. SumOver(f, S) = f[i] + SumOver(f, S \ {i}) /\ SumOver(g, S) = g[i] + SumOver(g, S \ {i})
    <3> HIDE DEF S
    <3>1. i \in S
      BY DEF S
    <3> QED
      BY <2>1, <3>1, SumRemove
  <2>6. /\ SumOver(g, S \ {i}) = SumOver(f, S \ {i}) /\ SumOver(f, S \ {i}) \in Nat
    <3>1. PICK R : R = S \ {i}
      OBVIOUS
    <3>2. IsFiniteSet(R) /\ Amounts(f, R) /\ \A j \in R : g[j] = f[j]
      <4>1. R \subseteq S
        BY <3>1
      <4> QED
        BY <2>1, <2>3, <3>1, <4>1, FS_Subset DEF Amounts
    <3>3. SumOver(g, R) = SumOver(f, R) /\ SumOver(f, R) \in Nat
      BY <3>2, SumSame, SumNat
    <3> QED
      BY <3>1, <3>3
  <2>7. /\ OnBooks(u, a) \in Nat
        /\ OnBooks(u, a) + f[i] = SumOver(f, S)
    <3>1. OnBooks(s, a) = SumOver(f, S)
      BY <1>1 DEF Backed, f
    <3> QED
      BY <2>4, <3>1 DEF Departs, Takes
  <2>8. PICK n, m, k \in Nat : n = OnBooks(u, a) /\ m = f[i] /\ k = SumOver(f, S \ {i})
    BY <2>1, <2>6, <2>7 DEF Amounts
  <2>9. n + m = m + k /\ SumOver(g, S) = 0 + k
    BY <2>2, <2>5, <2>6, <2>7, <2>8
  <2> QED
    BY <2>8, <2>9 DEF g
<1>7. Backed(u, Q)
  BY <1>4, <1>6 DEF Backed
<1> QED
  BY <1>5, <1>7 DEF Owned, Q

(* What Touch prepares.                                                    *)
TouchedOwned(s, P, q, t) ==
  /\ Owned(t.sp, P) /\ SubPoolSound(t.sp)
  /\ Placed(t.sp, t.pos) /\ Holding(t.pos) /\ OneSeries(t.pos)
  /\ ~NeedsMigration(t.sp, t.pos) /\ CanLeaveRecovery(t.sp, t.pos)
  /\ \A a : Weight(t.sp, t.pos, a) = Weight(t.sp, q, a)

LEMMA TouchBacked ==
  ASSUME NEW s, NEW P, Owned(s, P), NEW i \in 1 .. Len(P), NEW p \in Nat,
         Touch(s, p, P[i]).err = "Ok"
  PROVE  TouchedOwned(s, P, P[i], Touch(s, p, P[i]))
<1> PICK q : q = P[i]
  OBVIOUS
<1> DEFINE r == SyncPool(s, p)
           t == Touch(s, p, q)
<1>1. /\ r.err = "Ok" /\ CanMigrate(r.sp, q)
      /\ t.sp = r.sp /\ t.pos = Migrated(r.sp, q) /\ CanLeaveRecovery(t.sp, t.pos)
  BY DEF Touch
<1>2. Owned(r.sp, P)
  BY <1>1, SyncBacked
<1>3. SubPoolSound(r.sp)
  BY <1>1, SyncClears DEF Owned, Listed
<1> HIDE DEF t, r
<1>4. Numbered(r.sp) /\ Placed(r.sp, q) /\ Holding(q) /\ OneSeries(q)
  BY <1>2 DEF Owned, Listed
<1>5. /\ Placed(t.sp, t.pos) /\ Holding(t.pos) /\ OneSeries(t.pos)
      /\ ~NeedsMigration(t.sp, t.pos)
      /\ \A a : Weight(t.sp, t.pos, a) = Weight(t.sp, q, a)
  BY <1>1, <1>4, MigratedWeight
<1> QED
  BY <1>1, <1>2, <1>3, <1>5 DEF TouchedOwned, t

(* Whoever still has active shares finds a pool with money in it.          *)
LEMMA SharesHavePool ==
  ASSUME NEW s, NEW P, Owned(s, P), SubPoolSound(s), NEW i \in 1 .. Len(P), NEW m,
         m.dir \in Direction, m.shares \in Nat, m.shares > 0, ~NeedsMigration(s, m),
         \A a : Weight(s, m, a) = Weight(s, P[i], a)
  PROVE  HasPool(s, m)
<1> DEFINE a == Running(m.dir)
           S == 1 .. Len(P)
           f == Weights(s, P, a)
<1>1. a \in BookAccounts /\ a.kind = "shares" /\ a.dir = m.dir
  BY DEF Running, BookAccounts
<1>2. PoolSound(s) /\ Listed(s, P)
  BY DEF Owned, Listed
<1> HIDE DEF a
<1>3. /\ Amounts(f, S) /\ IsFiniteSet(S) /\ f[i] = Weight(s, P[i], a)
  BY <1>2, WeightsAmounts
<1>4. s.shares[m.dir] = SumOver(f, S)
  BY <1>1 DEF Owned, Backed, OnBooks
<1>5. Weight(s, m, a) = m.shares
  BY <1>1 DEF Weight
<1>6. f[i] = m.shares
  BY <1>3, <1>5
<1> HIDE DEF f, S
<1>7. SumOver(f, S) = f[i] + SumOver(f, S \ {i}) /\ SumOver(f, S \ {i}) \in Nat
  <2>1. i \in S
    BY DEF S
  <2>2. PICK R : R = S \ {i}
    OBVIOUS
  <2>3. IsFiniteSet(R) /\ Amounts(f, R)
    <3>1. R \subseteq S
      BY <2>2
    <3> QED
      BY <1>3, <3>1, FS_Subset DEF Amounts
  <2> QED
    BY <1>3, <2>1, <2>2, <2>3, SumRemove, SumNat
<1>8. s.shares[m.dir] > 0
  BY <1>4, <1>6, <1>7
<1>9. s.pool[m.dir] \in Nat /\ s.pool[m.dir] # 0
  <2>1. s.pool[m.dir] \in Nat /\ s.shares[m.dir] # 0
    BY <1>2, <1>8 DEF PoolSound
  <2>2. (s.pool[m.dir] = 0) = (s.shares[m.dir] = 0)
    BY DEF SubPoolSound
  <2> QED
    BY <2>1, <2>2
<1> QED
  BY <1>8, <1>9 DEF HasPool

LEMMA ActiveTakenSelf ==
  ASSUME NEW s, PoolSound(s), NEW m, m.shares = 0
  PROVE  ActiveTaken(s, s, m)
BY DEF ActiveTaken, SameGens, PoolSound

LEMMA ActiveTakenLeft ==
  ASSUME NEW s, PoolSound(s), NEW m, Holding(m), m.shares > 0, CanLeaveActive(s, m),
         NEW v \in Nat, v <= s.pool[m.dir]
  PROVE  ActiveTaken(s, LeaveActive(s, m, v), m)
<1> DEFINE u == LeaveActive(s, m, v)
<1>1. IsSubPool(s) /\ m.dir \in Direction /\ m.shares \in Nat /\ m.notional \in Nat
  BY DEF PoolSound, Holding
<1>2. PoolSound(u) /\ u.dormant = s.dormant
  BY <1>1, LeaveActiveSound
<1>3. SameGens(s, u)
  BY <1>1, LeaveSame
<1>4. /\ u.shares = [s.shares EXCEPT ![m.dir] = @ - m.shares]
      /\ u.notional = [s.notional EXCEPT ![m.dir] = @ - m.notional]
  BY <1>1 DEF LeaveActive, IsSubPool, SubPoolFields
<1> HIDE DEF u
<1> QED
  BY <1>2, <1>3, <1>4 DEF ActiveTaken, u

LEMMA EmptiedFields ==
  ASSUME NEW q, Holding(q)
  PROVE  /\ WithoutRecovery(q).shares = q.shares /\ WithoutRecovery(q).recovery = 0
         /\ WithoutShares(q).shares = 0 /\ WithoutShares(q).recovery = 0
         /\ \A x : Holding(x) => Closed(x).shares = x.shares /\ Closed(x).recovery = x.recovery
BY DEF Holding, IsPosition, PositionFields, WithoutRecovery, WithoutShares, Closed

(* The position leaves a sub-pool v whose recovery accounts are as Touch   *)
(* left them.                                                              *)
LEMMA DepartureOwned ==
  ASSUME NEW s, NEW P, Owned(s, P), NEW i \in 1 .. Len(P), NEW t,
         TouchedOwned(s, P, P[i], t), NEW v, ActiveTaken(t.sp, v, t.pos),
         NEW u, SameGens(LeaveRecovery(v, t.pos), u), SameBooks(LeaveRecovery(v, t.pos), u),
         PoolSound(u),
         NEW x, Placed(t.sp, x), Holding(x), x.shares = 0, x.recovery = 0
  PROVE  Owned(u, [P EXCEPT ![i] = x])
<1> DEFINE left == LeaveRecovery(v, t.pos)
<1>1. /\ Owned(t.sp, P) /\ PoolSound(t.sp) /\ Numbered(t.sp)
      /\ Placed(t.sp, t.pos) /\ Holding(t.pos)
      /\ ~NeedsMigration(t.sp, t.pos) /\ CanLeaveRecovery(t.sp, t.pos)
      /\ \A a : Weight(t.sp, t.pos, a) = Weight(t.sp, P[i], a)
  BY DEF TouchedOwned, Owned, Listed
<1>2. Takes(t.sp, left, t.pos) /\ SameGens(t.sp, left)
  BY <1>1, LeavingTakes
<1> HIDE DEF left
<1>3. Takes(t.sp, u, P[i]) /\ SameGens(t.sp, u)
  BY <1>1, <1>2 DEF Takes, SameBooks, SameGens, left
<1>4. Placed(u, x)
  BY <1>1, <1>3, SameFollows, PlacedFollows
<1>5. Departs(t.sp, u, P[i], x)
  BY <1>3, <1>4 DEF Departs
<1> QED
  BY <1>1, <1>5, DepartedOwned

LEMMA CloseBacked ==
  ASSUME NEW s, NEW P, Owned(s, P), NEW i \in 1 .. Len(P), NEW p \in Nat,
         ClosePosition(s, p, P[i]).err = "Ok"
  PROVE  Owned(ClosePosition(s, p, P[i]).sp, [P EXCEPT ![i] = ClosePosition(s, p, P[i]).pos])
<1> DEFINE t == Touch(s, p, P[i])
           r == ClosePosition(s, p, P[i])
           value == ActiveValue(t.sp, t.pos)
           middle == IF HasPool(t.sp, t.pos) THEN LeaveActive(t.sp, t.pos, value) ELSE t.sp
           left == LeaveRecovery(middle, t.pos)
<1>1. /\ t.err = "Ok"
      /\ HasPool(t.sp, t.pos) => CanLeaveActive(t.sp, t.pos)
      /\ r.sp = left
      /\ r.pos = Closed(IF HasPool(t.sp, t.pos) THEN WithoutShares(t.pos)
                        ELSE WithoutRecovery(t.pos))
  BY DEF ClosePosition, CloseTouched, Finished, Fail
<1>2. PoolSound(s) /\ Numbered(s) /\ Holding(P[i]) /\ Placed(s, P[i])
  BY DEF Owned, Listed
<1>3. PoolSound(r.sp) /\ Holding(r.pos)
  BY <1>2, CloseSound DEF PaidOut
<1> HIDE DEF r
<1>4. TouchedOwned(s, P, P[i], t)
  BY <1>1, TouchBacked
<1> HIDE DEF t
<1>5. /\ Owned(t.sp, P) /\ PoolSound(t.sp) /\ SubPoolSound(t.sp)
      /\ Placed(t.sp, t.pos) /\ Holding(t.pos) /\ ~NeedsMigration(t.sp, t.pos)
      /\ t.pos.dir \in Direction /\ t.pos.shares \in Nat
      /\ \A a : Weight(t.sp, t.pos, a) = Weight(t.sp, P[i], a)
  BY <1>4 DEF TouchedOwned, Owned, Listed, Holding
<1>6. ~HasPool(t.sp, t.pos) => t.pos.shares = 0
  BY <1>5, SharesHavePool
<1>7. ActiveTaken(t.sp, middle, t.pos)
  <2>1. CASE HasPool(t.sp, t.pos)
    <3>1. value \in Nat /\ value <= t.sp.pool[t.pos.dir] /\ t.pos.shares > 0
      BY <1>1, <1>5, <2>1, ActiveValueNat DEF HasPool
    <3> HIDE DEF value
    <3> QED
      BY <1>1, <1>5, <2>1, <3>1, ActiveTakenLeft
  <2>2. CASE ~HasPool(t.sp, t.pos)
    BY <1>5, <1>6, <2>2, ActiveTakenSelf
  <2> QED
    BY <2>1, <2>2
<1> HIDE DEF middle
<1>8. /\ Placed(t.sp, r.pos) /\ r.pos.shares = 0 /\ r.pos.recovery = 0
  <2>1. PICK x : x = IF HasPool(t.sp, t.pos) THEN WithoutShares(t.pos) ELSE WithoutRecovery(t.pos)
    OBVIOUS
  <2>2. Holding(x) /\ Placed(t.sp, x) /\ x.shares = 0 /\ x.recovery = 0
    BY <1>5, <1>6, <2>1, EmptiedFields, ClosedHolding, ClosedPlaced
  <2> QED
    BY <1>1, <1>5, <2>1, <2>2, EmptiedFields, ClosedPlaced
<1>9. SameGens(left, r.sp) /\ SameBooks(left, r.sp)
  BY <1>1, <1>3 DEF SameGens, SameBooks, PoolSound
<1> HIDE DEF left
<1> QED
  BY <1>3, <1>4, <1>7, <1>8, <1>9, DepartureOwned DEF r, left

LEMMA ForceCloseBacked ==
  ASSUME NEW s, NEW P, Owned(s, P), NEW i \in 1 .. Len(P), NEW p \in Nat,
         ForceClosePosition(s, p, P[i]).err = "Ok"
  PROVE  Owned(ForceClosePosition(s, p, P[i]).sp,
               [P EXCEPT ![i] = ForceClosePosition(s, p, P[i]).pos])
<1> DEFINE t == Touch(s, p, P[i])
           r == ForceClosePosition(s, p, P[i])
           middle == IF t.pos.shares > 0 THEN LeaveActive(t.sp, t.pos, 0) ELSE t.sp
           left == LeaveRecovery(middle, t.pos)
           forfeit == [left EXCEPT !.dust[t.pos.dir] = @ + RecoveryValue(t.sp, t.pos)]
<1>1. /\ t.err = "Ok"
      /\ t.pos.shares > 0 => CanLeaveActive(t.sp, t.pos)
      /\ r.sp = forfeit /\ r.pos = Closed(WithoutShares(t.pos))
  BY DEF ForceClosePosition, ForceCloseTouched, Finished, Fail
<1>2. PoolSound(s) /\ Numbered(s) /\ Holding(P[i])
  BY DEF Owned, Listed
<1>3. PoolSound(r.sp) /\ Holding(r.pos)
  BY <1>2, ForceCloseSound DEF PaidOut
<1> HIDE DEF r
<1>4. TouchedOwned(s, P, P[i], t)
  BY <1>1, TouchBacked
<1> HIDE DEF t
<1>5. /\ PoolSound(t.sp) /\ Numbered(t.sp) /\ Placed(t.sp, t.pos) /\ Holding(t.pos)
      /\ ~NeedsMigration(t.sp, t.pos) /\ CanLeaveRecovery(t.sp, t.pos)
      /\ t.pos.dir \in Direction /\ t.pos.shares \in Nat
  BY <1>4 DEF TouchedOwned, Owned, Listed, Holding
<1>6. ActiveTaken(t.sp, middle, t.pos)
  <2>1. CASE t.pos.shares > 0
    <3>1. 0 \in Nat /\ 0 <= t.sp.pool[t.pos.dir]
      BY <1>5 DEF PoolSound
    <3> QED
      BY <1>1, <1>5, <2>1, <3>1, ActiveTakenLeft
  <2>2. CASE ~(t.pos.shares > 0)
    <3>1. t.pos.shares = 0
      BY <1>5, <2>2
    <3> QED
      BY <1>5, <2>2, <3>1, ActiveTakenSelf
  <2> QED
    BY <2>1, <2>2
<1> HIDE DEF middle
<1>7. /\ Placed(t.sp, r.pos) /\ r.pos.shares = 0 /\ r.pos.recovery = 0
  <2>1. /\ Holding(WithoutShares(t.pos)) /\ Placed(t.sp, WithoutShares(t.pos))
        /\ WithoutShares(t.pos).shares = 0 /\ WithoutShares(t.pos).recovery = 0
    BY <1>5, EmptiedFields, ClosedHolding, ClosedPlaced
  <2> QED
    BY <1>1, <1>5, <2>1, EmptiedFields, ClosedPlaced
<1>8. SameGens(t.sp, left) /\ IsSubPool(left)
  BY <1>5, <1>6, LeavingTakes DEF SameGens
<1> HIDE DEF left
<1>9. SameGens(left, forfeit) /\ SameBooks(left, forfeit)
  <2>1. /\ SameGens(left, forfeit) /\ forfeit.shares = left.shares
        /\ forfeit.notional = left.notional /\ forfeit.dormant = left.dormant
    BY <1>8 DEF SameGens, IsSubPool, SubPoolFields
  <2> HIDE DEF forfeit
  <2> QED
    BY <2>1, SameSelf, SideAccounts
<1> HIDE DEF forfeit
<1> QED
  BY <1>1, <1>3, <1>4, <1>6, <1>7, <1>9, DepartureOwned DEF r, left

LEMMA ClaimBacked ==
  ASSUME NEW s, NEW P, Owned(s, P), NEW i \in 1 .. Len(P), NEW p \in Nat,
         ClaimRecovery(s, p, P[i]).err = "Ok"
  PROVE  Owned(ClaimRecovery(s, p, P[i]).sp, [P EXCEPT ![i] = ClaimRecovery(s, p, P[i]).pos])
<1> DEFINE t == Touch(s, p, P[i])
           r == ClaimRecovery(s, p, P[i])
           left == LeaveRecovery(t.sp, t.pos)
<1>1. t.err = "Ok" /\ t.pos.recovery # 0 /\ r.sp = left /\ r.pos = WithoutRecovery(t.pos)
  BY DEF ClaimRecovery, ClaimTouched, Finished, Fail
<1>2. PoolSound(s) /\ Numbered(s) /\ Holding(P[i])
  BY DEF Owned, Listed
<1>3. PoolSound(r.sp) /\ Holding(r.pos)
  BY <1>2, ClaimSound DEF PaidOut
<1> HIDE DEF r
<1>4. TouchedOwned(s, P, P[i], t)
  BY <1>1, TouchBacked
<1> HIDE DEF t
<1>5. /\ PoolSound(t.sp) /\ Placed(t.sp, t.pos) /\ Holding(t.pos) /\ OneSeries(t.pos)
      /\ t.pos.shares \in Nat
  BY <1>4 DEF TouchedOwned, Owned, Listed, Holding
<1>6. t.pos.shares = 0
  BY <1>1, <1>5 DEF OneSeries
<1>7. ActiveTaken(t.sp, t.sp, t.pos)
  BY <1>5, <1>6, ActiveTakenSelf
<1>8. Placed(t.sp, r.pos) /\ r.pos.shares = 0 /\ r.pos.recovery = 0
  BY <1>1, <1>5, <1>6, EmptiedFields, ClosedPlaced
<1>9. SameGens(left, r.sp) /\ SameBooks(left, r.sp)
  BY <1>1, <1>3 DEF SameGens, SameBooks, PoolSound
<1> HIDE DEF left
<1> QED
  BY <1>3, <1>4, <1>7, <1>8, <1>9, DepartureOwned DEF r, left

-----------------------------------------------------------------------------
(* An open brings what it puts on the books: with nothing minted, the      *)
(* principal was nothing.                                                  *)
Brings(s, u, x) ==
  /\ SameGens(s, u) /\ PoolSound(u)
  /\ Placed(u, x) /\ Holding(x) /\ x.recovery = 0
  /\ \A a \in BookAccounts : OnBooks(u, a) = OnBooks(s, a) + Weight(u, x, a)

LEMMA BroughtOwned ==
  ASSUME NEW s, NEW P, Owned(s, P), NEW u, NEW x, Brings(s, u, x)
  PROVE  Owned(u, Append(P, x))
<1> DEFINE n == Len(P)
           Q == Append(P, x)
           S == 1 .. n
<1>1. /\ Listed(s, P) /\ Backed(s, P) /\ Numbered(s) /\ IsList(P) /\ PoolSound(u)
      /\ SameGens(s, u) /\ Placed(u, x) /\ Holding(x) /\ x.recovery = 0
  BY DEF Owned, Listed, Brings
<1>2. ComesAfter(s, u) /\ Numbered(u)
  BY <1>1, SameFollows DEF ComesAfter
<1>3. Listed(u, P)
  BY <1>1, <1>2, ListedFollows
<1>4. /\ IsList(Q) /\ n \in Nat /\ Len(Q) = n + 1
      /\ \A j \in S : Q[j] = P[j]
      /\ Q[n + 1] = x
  BY <1>1, ListGrows
<1> HIDE DEF Q, n
<1>5. 1 .. (n + 1) = S \cup {n + 1} /\ n + 1 \notin S /\ IsFiniteSet(S)
  BY <1>4, FS_Interval
<1>6. Listed(u, Q)
  BY <1>1, <1>3, <1>4, <1>5 DEF Listed, OneSeries, n
<1>7. ASSUME NEW a \in BookAccounts PROVE OnBooks(u, a) = SumOver(Weights(u, Q, a), 1 .. Len(Q))
  <2> DEFINE f == Weights(s, P, a)
             g == Weights(u, Q, a)
             T == S \cup {n + 1}
             m == n + 1
  <2>1. Amounts(g, T) /\ \A j \in T : g[j] = Weight(u, Q[j], a)
    <3>1. Amounts(g, 1 .. Len(Q)) /\ \A j \in 1 .. Len(Q) : g[j] = Weight(u, Q[j], a)
      BY <1>6, WeightsAmounts
    <3> HIDE DEF g
    <3> QED
      BY <1>4, <1>5, <3>1
  <2>2. Amounts(f, S) /\ \A j \in S : f[j] = Weight(s, P[j], a)
    BY <1>1, WeightsAmounts DEF n
  <2>3. \A j \in S : g[j] = f[j]
    BY <1>1, <1>4, <2>1, <2>2, SameGensWeight
  <2>4. g[m] = Weight(u, x, a)
    BY <1>4, <2>1
  <2>5. OnBooks(s, a) = SumOver(f, S)
    BY <1>1 DEF Backed, n
  <2> HIDE DEF f, g, S
  <2>6. SumOver(g, S) = SumOver(f, S) /\ SumOver(f, S) \in Nat
    BY <1>5, <2>2, <2>3, SumSame, SumNat
  <2> HIDE DEF m
  <2>7. SumOver(g, S \cup {m}) = g[m] + SumOver(g, S)
    <3>1. m \notin S /\ Amounts(g, S \cup {m})
      BY <1>5, <2>1 DEF m
    <3> QED
      BY <1>5, <3>1, SumAdd
  <2>8. g[m] \in Nat
    BY <2>1 DEF m, Amounts
  <2>9. OnBooks(u, a) = OnBooks(s, a) + Weight(u, x, a)
    BY DEF Brings
  <2>10. OnBooks(u, a) = SumOver(g, S \cup {m})
    <3>1. PICK y, z \in Nat : y = SumOver(f, S) /\ z = g[m]
      BY <2>6, <2>8
    <3>2. OnBooks(u, a) = y + z /\ SumOver(g, S \cup {m}) = z + y
      BY <2>4, <2>5, <2>6, <2>7, <2>9, <3>1
    <3> QED
      BY <3>1, <3>2
  <2> QED
    BY <1>4, <1>5, <2>10 DEF g, m
<1>8. Backed(u, Q)
  BY <1>7 DEF Backed
<1> QED
  BY <1>6, <1>8 DEF Owned, Q

LEMMA OpenSyncedBrings ==
  ASSUME NEW s, PoolSound(s), SubPoolSound(s), Numbered(s), NEW d \in Direction, NEW g \in Nat,
         OpenSynced(s, d, g).err = "Ok", Placed(OpenSynced(s, d, g).sp, OpenSynced(s, d, g).pos),
         Deposited(s, s.lastPrice, g, OpenSynced(s, d, g))
  PROVE  Brings(s, OpenSynced(s, d, g).sp, OpenSynced(s, d, g).pos)
<1> DEFINE r == OpenSynced(s, d, g)
           fee == OpenFee(g)
           principal == g - fee
           minted == SharesMinted(s, d, principal)
           placed == PrincipalIntoPool(s, d, principal)
           notional == MulDivFloor(principal, LeverageBps, BpsScale)
           grown == [s EXCEPT !.pool[d] = @ + placed, !.shares[d] = @ + minted,
                              !.notional[d] = @ + notional,
                              !.dust[d] = @ + (principal - placed)]
           x == r.pos
           u == r.sp
<1>1. /\ ~(g = 0 \/ principal < MinMargin)
      /\ ~(s.pool[d] > 0 /\ minted = 0)
      /\ u = grown
      /\ x = NewPosition(d, minted, notional, s.gen[d])
  BY DEF OpenSynced, Fail
<1>2. Placed(u, x) /\ Holding(x) /\ PoolSound(u)
  BY DEF Deposited
<1> HIDE DEF r, minted, placed, notional, fee, u, x
<1>3. /\ x.dir = d /\ x.shares = minted /\ x.notional = notional /\ x.recovery = 0
      /\ x.gen = s.gen[d]
  BY <1>1 DEF NewPosition
<1>4. minted \in Nat /\ notional \in Nat
  BY <1>2, <1>3 DEF Holding
<1>5. minted = 0 => notional = 0
  <2> HAVE minted = 0
  <2>1. s.pool[d] \in Nat
    BY DEF PoolSound
  <2>2. s.pool[d] = 0
    BY <1>1, <2>1
  <2>3. principal = 0
    BY <2>2 DEF minted, SharesMinted
  <2> HIDE DEF principal
  <2> QED
    BY <2>3, CoreParameters DEF notional, MulDivFloor, BpsScale
<1> HIDE DEF principal
<1>6. /\ SameGens(s, u)
      /\ u.shares = [s.shares EXCEPT ![d] = @ + minted]
      /\ u.notional = [s.notional EXCEPT ![d] = @ + notional]
      /\ u.dormant = s.dormant
  BY <1>1 DEF SameGens, PoolSound, IsSubPool, SubPoolFields
<1>7. Numbered(u) /\ ~NeedsMigration(u, x)
  <2>1. Numbered(u)
    BY <1>6, SameFollows DEF ComesAfter
  <2> QED
    BY <1>3, <1>6, <2>1 DEF NeedsMigration, SameGens
<1>8. Migrated(u, x).recovery = 0
  BY <1>2, <1>3, <1>7, MigratedFields
<1> HIDE DEF grown
<1>9. ASSUME NEW a \in BookAccounts PROVE OnBooks(u, a) = OnBooks(s, a) + Weight(u, x, a)
  <2>1. a.dir \in Direction /\ a.kind \in {"shares", "notional", "bucket"}
    BY DEF BookAccounts
  <2>2. CASE a.kind = "bucket"
    <3>1. Weight(u, x, a) = 0 /\ OnBooks(u, a) = OnBooks(s, a)
      BY <1>6, <1>8, <2>2 DEF Weight, OnBooks
    <3>2. OnBooks(s, a) \in Nat
      BY <2>1, <2>2 DEF OnBooks, PoolSound, StoreSound, StoreTyped, HeldIn, Bucket
    <3> QED
      BY <3>1, <3>2
  <2>3. CASE a.kind = "shares"
    <3>1. Weight(u, x, a) = IF a.dir = d THEN minted ELSE 0
      BY <1>3, <1>7, <2>3 DEF Weight
    <3>2. OnBooks(u, a) = u.shares[a.dir] /\ OnBooks(s, a) = s.shares[a.dir]
      BY <2>3 DEF OnBooks
    <3> QED
      BY <1>4, <1>6, <2>1, <3>1, <3>2 DEF PoolSound
  <2>4. CASE a.kind = "notional"
    <3>1. Weight(u, x, a) = IF a.dir = d THEN notional ELSE 0
      BY <1>3, <1>5, <1>7, <2>4 DEF Weight
    <3>2. OnBooks(u, a) = u.notional[a.dir] /\ OnBooks(s, a) = s.notional[a.dir]
      BY <2>4 DEF OnBooks
    <3> QED
      BY <1>4, <1>6, <2>1, <3>1, <3>2 DEF PoolSound
  <2> QED
    BY <2>1, <2>2, <2>3, <2>4
<1> QED
  BY <1>2, <1>3, <1>6, <1>9 DEF Brings, u, x, r

LEMMA OpenBacked ==
  ASSUME NEW s, NEW P, Owned(s, P), NEW p \in Nat, NEW d \in Direction, NEW g \in Nat,
         OpenPosition(s, p, d, g).err = "Ok"
  PROVE  Owned(OpenPosition(s, p, d, g).sp, Append(P, OpenPosition(s, p, d, g).pos))
<1> DEFINE t == SyncPool(s, p)
           r == OpenPosition(s, p, d, g)
<1>1. t.err = "Ok" /\ r = OpenSynced(t.sp, d, g)
  BY DEF OpenPosition
<1>2. PoolSound(s) /\ Numbered(s)
  BY DEF Owned, Listed
<1>3. Placed(r.sp, r.pos)
  BY <1>2, OpenGood DEF Good
<1> HIDE DEF r
<1>4. PoolSound(t.sp) /\ SubPoolSound(t.sp)
  BY <1>1, <1>2, SyncClears DEF Clears
<1>5. Owned(t.sp, P) /\ Numbered(t.sp)
  BY <1>1, SyncBacked DEF Owned, Listed
<1> HIDE DEF t
<1>6. r.err = "Ok" /\ IsPosition(r.pos)
  BY <1>3 DEF r, Placed
<1>7. Deposited(t.sp, t.sp.lastPrice, g, r)
  BY <1>1, <1>4, <1>6, OpenSyncedSound
<1>8. Brings(t.sp, r.sp, r.pos)
  BY <1>1, <1>3, <1>4, <1>5, <1>6, <1>7, OpenSyncedBrings
<1> QED
  BY <1>5, <1>8, BroughtOwned DEF r

(* No position has more in an account than is in it.                       *)
LEMMA WeightWithin ==
  ASSUME NEW s, NEW P, Owned(s, P), NEW i \in 1 .. Len(P), NEW a \in BookAccounts
  PROVE  /\ Weight(s, P[i], a) \in Nat /\ OnBooks(s, a) \in Nat
         /\ Weight(s, P[i], a) <= OnBooks(s, a)
<1> DEFINE S == 1 .. Len(P)
           f == Weights(s, P, a)
<1>1. /\ Amounts(f, S) /\ IsFiniteSet(S) /\ f[i] = Weight(s, P[i], a) /\ i \in S
      /\ OnBooks(s, a) = SumOver(f, S)
  BY WeightsAmounts DEF Owned, Backed
<1> HIDE DEF f, S
<1>2. PICK R : R = S \ {i}
  OBVIOUS
<1>3. IsFiniteSet(R) /\ Amounts(f, R)
  <2>1. R \subseteq S
    BY <1>2
  <2> QED
    BY <1>1, <2>1, FS_Subset DEF Amounts
<1>4. SumOver(f, S) = f[i] + SumOver(f, R) /\ SumOver(f, R) \in Nat /\ f[i] \in Nat
  BY <1>1, <1>2, <1>3, SumRemove, SumNat DEF Amounts
<1> QED
  BY <1>1, <1>4

-----------------------------------------------------------------------------
(* What a call is made of, and what each part of it writes.                *)

LEMMA SettleForm ==
  ASSUME NEW s, NEW w \in Direction, NEW p, Settle(s, w, p).err = "Ok", IsSubPool(s),
         NEW t, t = Settle(s, w, p).sp
  PROVE  /\ IsSubPool(t)
         /\ t.shares = s.shares /\ t.notional = s.notional /\ t.recovery = s.recovery
         /\ t.gen = s.gen /\ t.rotateLog = s.rotateLog /\ t.lastPrice = s.lastPrice
         /\ \/ t.dormant = s.dormant
            \/ \E n : t.dormant = [s.dormant EXCEPT ![w] = Distribute(@, p, n)]
<1> DEFINE o == Opposite(w)
           transfer == Transfer(s, w, p)
           toActive == MulDivFloor(transfer, ActiveDemand(s, w, p), Demand(s, w, p))
           toRecovery == transfer - toActive
           st == s.dormant[w]
           paid == [s EXCEPT !.pool[w] = @ + toActive, !.pool[o] = @ - transfer]
           placed == [paid EXCEPT !.dormant[w] = Distribute(@, p, toRecovery),
                                  !.dust[w] = @ + Residual(st, p, toRecovery)]
<1>1. t = s \/ t = paid \/ t = placed
  <2>1. transfer = 0 => t = s
    BY DEF Settle, Ok
  <2>2. transfer # 0 /\ toRecovery = 0 => t = paid
    BY DEF Settle, Ok
  <2>3. transfer # 0 /\ toRecovery # 0 => t = placed
    BY DEF Settle, Ok, Fail
  <2> QED
    BY <2>1, <2>2, <2>3
<1> HIDE DEF transfer, toActive, toRecovery, o, st
<1>2. /\ paid.shares = s.shares /\ paid.notional = s.notional /\ paid.dormant = s.dormant
      /\ paid.recovery = s.recovery /\ paid.gen = s.gen /\ paid.rotateLog = s.rotateLog
      /\ paid.lastPrice = s.lastPrice
      /\ IsSubPool(paid)
  BY DEF IsSubPool, SubPoolFields
<1> HIDE DEF paid
<1>3. /\ placed.shares = s.shares /\ placed.notional = s.notional
      /\ placed.recovery = s.recovery /\ placed.gen = s.gen /\ placed.rotateLog = s.rotateLog
      /\ placed.lastPrice = s.lastPrice
      /\ placed.dormant = [s.dormant EXCEPT ![w] = Distribute(@, p, toRecovery)]
      /\ IsSubPool(placed)
  BY <1>2 DEF IsSubPool, SubPoolFields
<1> HIDE DEF placed
<1> QED
  BY <1>1, <1>2, <1>3

(* What a rotation that does something writes.                             *)
RotatesTo(s, d, p, t) ==
  /\ IsSubPool(t) /\ t.lastPrice = s.lastPrice
  /\ s.pool[d] = 0 /\ s.shares[d] # 0
  /\ t.pool = s.pool /\ t.dust = s.dust
  /\ t.shares = [s.shares EXCEPT ![d] = 0] /\ t.notional = [s.notional EXCEPT ![d] = 0]
  /\ t.recovery = [s.recovery EXCEPT ![d] = @ + s.shares[d]]
  /\ t.dormant = [s.dormant EXCEPT
                    ![d] = InsertOrMerge(@, BucketTickOf(p), p, s.shares[d], s.notional[d])]
  /\ t.rotateLog = [s.rotateLog EXCEPT
                      ![d] = Append(@, RotateRecord(s, d, BucketTickOf(p)))]
  /\ t.gen = [s.gen EXCEPT ![d] = @ + 1]

LEMMA RotateForm ==
  ASSUME NEW s, NEW d \in Direction, NEW p, IsSubPool(s), Rotate(s, d, p).err = "Ok",
         NEW t, t = Rotate(s, d, p).sp
  PROVE  t = s \/ RotatesTo(s, d, p, t)
<1> DEFINE moved == [s EXCEPT
                 !.dormant[d] = InsertOrMerge(@, BucketTickOf(p), p, s.shares[d], s.notional[d]),
                 !.recovery[d] = @ + s.shares[d],
                 !.shares[d] = 0,
                 !.notional[d] = 0,
                 !.rotateLog[d] = Append(@, RotateRecord(s, d, BucketTickOf(p))),
                 !.gen[d] = @ + 1]
<1>1. t = s \/ (t = moved /\ s.pool[d] = 0 /\ s.shares[d] # 0)
  BY DEF Rotate, Ok, Fail
<1>2. /\ IsSubPool(moved) /\ moved.lastPrice = s.lastPrice
      /\ moved.pool = s.pool /\ moved.dust = s.dust
      /\ moved.shares = [s.shares EXCEPT ![d] = 0] /\ moved.notional = [s.notional EXCEPT ![d] = 0]
      /\ moved.recovery = [s.recovery EXCEPT ![d] = @ + s.shares[d]]
      /\ moved.dormant = [s.dormant EXCEPT
                           ![d] = InsertOrMerge(@, BucketTickOf(p), p, s.shares[d], s.notional[d])]
      /\ moved.rotateLog = [s.rotateLog EXCEPT
                             ![d] = Append(@, RotateRecord(s, d, BucketTickOf(p)))]
      /\ moved.gen = [s.gen EXCEPT ![d] = @ + 1]
  BY ZenonT(30) DEF IsSubPool, SubPoolFields
<1> HIDE DEF moved
<1> QED
  BY <1>1, <1>2 DEF RotatesTo

(* The parts a successful sync consists of.                                *)
LEMMA SyncForm ==
  ASSUME NEW s, NEW p, SyncPool(s, p).err = "Ok", s.lastPrice \notin {0, p},
         NEW settled, settled = Settle(s, Winner(s, p), p),
         NEW priced, priced = [settled.sp EXCEPT !.lastPrice = p],
         NEW long, long = Rotate(priced, "Long", p),
         NEW both, both = Rotate(long.sp, "Short", p)
  PROVE  /\ Winner(s, p) \in Direction /\ "Long" \in Direction /\ "Short" \in Direction
         /\ settled.err = "Ok" /\ long.err = "Ok" /\ both.err = "Ok"
         /\ SyncPool(s, p).sp = both.sp
<1>1. /\ SyncPool(s, p) = Checked(RotateBoth(priced, p).sp)
      /\ settled.err = "Ok" /\ RotateBoth(priced, p).err = "Ok"
  BY DEF SyncPool, Fail
<1>2. Winner(s, p) \in Direction /\ "Long" \in Direction /\ "Short" \in Direction
  BY DEF Winner, Direction
<1>3. RotateBoth(priced, p) = both /\ long.err = "Ok" /\ both.err = "Ok"
  BY <1>1 DEF RotateBoth
<1> QED
  BY <1>1, <1>2, <1>3, CheckedOk

LEMMA LeaveActiveKeeps ==
  ASSUME NEW s, IsSubPool(s), NEW q, NEW x
  PROVE  /\ IsSubPool(LeaveActive(s, q, x))
         /\ LeaveActive(s, q, x).recovery = s.recovery
         /\ LeaveActive(s, q, x).dormant = s.dormant
         /\ LeaveActive(s, q, x).dust = s.dust
         /\ LeaveActive(s, q, x).gen = s.gen
         /\ LeaveActive(s, q, x).rotateLog = s.rotateLog
         /\ LeaveActive(s, q, x).lastPrice = s.lastPrice
BY DEF LeaveActive, IsSubPool, SubPoolFields

(* The forms of the three departures, without what they write in the       *)
(* position.                                                               *)
LEMMA CloseForm ==
  ASSUME NEW s, NEW p, NEW q, ClosePosition(s, p, q).err = "Ok",
         NEW t, t = Touch(s, p, q), NEW r, r = ClosePosition(s, p, q)
  PROVE  /\ t.err = "Ok" /\ q.status \in {"Open", "Dormant"} /\ SubPoolSound(r.sp)
         /\ HasPool(t.sp, t.pos) => CanLeaveActive(t.sp, t.pos)
         /\ r.sp = LeaveRecovery(IF HasPool(t.sp, t.pos)
                                 THEN LeaveActive(t.sp, t.pos, ActiveValue(t.sp, t.pos))
                                 ELSE t.sp, t.pos)
         /\ r.pos = Closed(IF HasPool(t.sp, t.pos) THEN WithoutShares(t.pos)
                           ELSE WithoutRecovery(t.pos))
         /\ r.paid = ActiveValue(t.sp, t.pos) + RecoveryValue(t.sp, t.pos)
         /\ r.paid # 0
<1>1. /\ t.err = "Ok" /\ q.status \in {"Open", "Dormant"}
      /\ HasPool(t.sp, t.pos) => CanLeaveActive(t.sp, t.pos)
      /\ r.sp = LeaveRecovery(IF HasPool(t.sp, t.pos)
                              THEN LeaveActive(t.sp, t.pos, ActiveValue(t.sp, t.pos))
                              ELSE t.sp, t.pos)
      /\ r.pos = Closed(IF HasPool(t.sp, t.pos) THEN WithoutShares(t.pos)
                        ELSE WithoutRecovery(t.pos))
      /\ r.paid = ActiveValue(t.sp, t.pos) + RecoveryValue(t.sp, t.pos)
      /\ r.paid # 0
      /\ r.err = Checked(r.sp).err
  BY DEF ClosePosition, CloseTouched, Finished, Fail
<1>2. SubPoolSound(r.sp)
  BY <1>1, CheckedOk
<1> QED
  BY <1>1, <1>2

LEMMA ForceCloseForm ==
  ASSUME NEW s, NEW p, NEW q, ForceClosePosition(s, p, q).err = "Ok",
         NEW t, t = Touch(s, p, q), NEW r, r = ForceClosePosition(s, p, q),
         NEW left, left = LeaveRecovery(IF t.pos.shares > 0 THEN LeaveActive(t.sp, t.pos, 0)
                                        ELSE t.sp, t.pos)
  PROVE  /\ t.err = "Ok" /\ q.status # "Closed" /\ SubPoolSound(r.sp)
         /\ ~(ActiveValue(t.sp, t.pos) > 0)
         /\ t.pos.shares > 0 => CanLeaveActive(t.sp, t.pos)
         /\ r.sp = [left EXCEPT !.dust[t.pos.dir] = @ + RecoveryValue(t.sp, t.pos)]
         /\ r.pos = Closed(WithoutShares(t.pos)) /\ r.paid = 0
<1>1. /\ t.err = "Ok" /\ q.status # "Closed"
      /\ ~(ActiveValue(t.sp, t.pos) > 0)
      /\ t.pos.shares > 0 => CanLeaveActive(t.sp, t.pos)
      /\ r.sp = [left EXCEPT !.dust[t.pos.dir] = @ + RecoveryValue(t.sp, t.pos)]
      /\ r.pos = Closed(WithoutShares(t.pos)) /\ r.paid = 0
      /\ r.err = Checked(r.sp).err
  BY DEF ForceClosePosition, ForceCloseTouched, Finished, Fail
<1>2. SubPoolSound(r.sp)
  BY <1>1, CheckedOk
<1> QED
  BY <1>1, <1>2

LEMMA ClaimForm ==
  ASSUME NEW s, NEW p, NEW q, ClaimRecovery(s, p, q).err = "Ok",
         NEW t, t = Touch(s, p, q), NEW r, r = ClaimRecovery(s, p, q)
  PROVE  /\ t.err = "Ok" /\ SubPoolSound(r.sp) /\ t.pos.recovery # 0
         /\ r.sp = LeaveRecovery(t.sp, t.pos)
         /\ r.pos = WithoutRecovery(t.pos) /\ r.paid = RecoveryValue(t.sp, t.pos)
<1>1. /\ t.err = "Ok" /\ t.pos.recovery # 0
      /\ r.sp = LeaveRecovery(t.sp, t.pos)
      /\ r.pos = WithoutRecovery(t.pos) /\ r.paid = RecoveryValue(t.sp, t.pos)
      /\ r.err = Checked(r.sp).err
  BY DEF ClaimRecovery, ClaimTouched, Finished, Fail
<1>2. SubPoolSound(r.sp)
  BY <1>1, CheckedOk
<1> QED
  BY <1>1, <1>2

LEMMA LeaveRecoveryForm ==
  ASSUME NEW s, IsSubPool(s), NEW q, q.recovery # 0, NEW u, u = LeaveRecovery(s, q)
  PROVE  /\ IsSubPool(u)
         /\ u.dormant = [s.dormant EXCEPT ![q.dir] = Redeem(@, q.tick, q.recovery)]
         /\ u.recovery = [s.recovery EXCEPT ![q.dir] = @ - q.recovery]
         /\ u.pool = s.pool /\ u.shares = s.shares /\ u.notional = s.notional
         /\ u.dust = s.dust /\ u.gen = s.gen /\ u.rotateLog = s.rotateLog
         /\ u.lastPrice = s.lastPrice
<1> DEFINE rest == [s.dormant EXCEPT ![q.dir] = Redeem(@, q.tick, q.recovery)]
<1>1. u = [s EXCEPT !.dormant = rest, !.recovery[q.dir] = @ - q.recovery]
  BY DEF LeaveRecovery
<1> HIDE DEF rest
<1>2. /\ IsSubPool(u)
      /\ u.dormant = rest
      /\ u.recovery = [s.recovery EXCEPT ![q.dir] = @ - q.recovery]
      /\ u.pool = s.pool /\ u.shares = s.shares /\ u.notional = s.notional
      /\ u.dust = s.dust /\ u.gen = s.gen /\ u.rotateLog = s.rotateLog
      /\ u.lastPrice = s.lastPrice
  BY <1>1 DEF IsSubPool, SubPoolFields
<1> QED
  BY <1>2 DEF rest

LEMMA TouchForm ==
  ASSUME NEW s, NEW p, NEW q
  PROVE  LET r == SyncPool(s, p)
             m == Migrated(r.sp, q)
         IN  /\ Touch(s, p, q).err = "Ok" <=>
                  r.err = "Ok" /\ CanMigrate(r.sp, q) /\ CanLeaveRecovery(r.sp, m)
             /\ Touch(s, p, q).sp = r.sp
             /\ Touch(s, p, q).err = "Ok" => Touch(s, p, q).pos = m
BY DEF Touch

(* Every bucket has shares.                                                *)
AllHeld(st) == \A t \in Ticks(st) : st.bucket[t].shares > 0

(* Redeeming all of a bucket's shares pays all of its credit, so a bucket  *)
(* is removed exactly when its last share is redeemed.                     *)
LEMMA WholePart ==
  ASSUME NEW x \in Nat, NEW y \in Nat \ {0}
  PROVE  MulDivFloor(x, y, y) = x
<1> DEFINE q == MulDivFloor(x, y, y)
<1>1. q \in Nat /\ q * y <= x * y /\ x * y < (q + 1) * y
  BY DEF MulDivFloor
<1> HIDE DEF q
<1>2. q <= x /\ x < q + 1
  BY <1>1
<1> QED
  BY <1>1, <1>2 DEF q

LEMMA RedeemKeepsHeld ==
  ASSUME NEW st, StoreSound(st), AllHeld(st), NEW t, NEW n \in Nat, n > 0, CanRedeem(st, t, n),
         NEW u, u = Redeem(st, t, n)
  PROVE  /\ AllHeld(u) /\ Ticks(u) \subseteq Ticks(st) /\ Ticks(st) \ {t} \subseteq Ticks(u)
         /\ n < st.bucket[t].shares => t \in Ticks(u)
         /\ \A k \in Ticks(u) : u.bucket[k].anchor = st.bucket[k].anchor
<1> DEFINE v == ApplyPending(st, {t})
           w == v.bucket[t]
           out == Redeemable(st, t, n)
           b == [w EXCEPT !.accrued = @ - out, !.shares = @ - n,
                          !.notional = @ - MulDivFloor(@, n, w.shares)]
           B == [x \in TicksKept(v, t, b) |-> IF x = t THEN b ELSE v.bucket[x]]
<1>0. StoreTyped(st) /\ Within(st) /\ t \in Ticks(st) /\ {t} \in SUBSET Ticks(st)
      /\ n <= st.bucket[t].shares
  BY DEF StoreSound, CanRedeem
<1>1. CaughtUpBy(st, {t}, v)
  BY <1>0, ApplyPendingSound
<1>2. u = [v EXCEPT !.bucket = B, !.accruedTotal = @ - out]
  BY DEF Redeem
<1>3. out = MulDivFloor(w.accrued, n, w.shares)
  BY DEF Redeemable
<1> HIDE DEF v, out, B
<1>4. /\ w \in Bucket /\ w.shares = st.bucket[t].shares
      /\ \A k \in Ticks(st) : v.bucket[k].anchor = st.bucket[k].anchor
  BY ZenonT(30), <1>0, <1>1, CaughtUpBucket
<1>5. StoreTyped(v) /\ Ticks(v) = Ticks(st)
  BY <1>1 DEF CaughtUpBy, StoreSound
<1>6. u.bucket = B
  BY <1>2, <1>5 DEF StoreTyped, StoreFields
<1>7. b.shares = w.shares - n /\ b.accrued = w.accrued - out /\ b.anchor = w.anchor
  <2> HIDE DEF w
  <2> QED
    BY <1>4 DEF Bucket
<1>8. w.shares \in Nat /\ w.accrued \in Nat /\ w.shares > 0 /\ n <= w.shares
  <2> HIDE DEF w
  <2> QED
    BY <1>0, <1>4 DEF Bucket
<1> HIDE DEF b
<1>9. Ticks(u) = IF Spent(b) THEN Ticks(st) \ {t} ELSE Ticks(st)
  BY <1>5, <1>6 DEF Ticks, TicksKept, B
<1>10. \A k \in Ticks(u) : u.bucket[k] = IF k = t THEN b ELSE v.bucket[k]
  BY <1>6 DEF Ticks, B
<1>11. Spent(b) <=> n = w.shares
  <2>1. CASE n = w.shares
    <3>1. out = w.accrued
      BY <1>3, <1>8, <2>1, WholePart
    <3> QED
      BY <1>7, <1>8, <2>1, <3>1 DEF Spent
  <2>2. CASE n # w.shares
    BY <1>7, <1>8, <2>2 DEF Spent
  <2> QED
    BY <2>1, <2>2
<1>12. \A k \in Ticks(st) \ {t} : v.bucket[k] = st.bucket[k]
  BY <1>1 DEF CaughtUpBy
<1>13. b.anchor = st.bucket[t].anchor
  BY <1>0, <1>4, <1>7 DEF w
<1>14. t \in Ticks(u) => b.shares > 0
  BY <1>7, <1>8, <1>9, <1>11
<1>15. ASSUME NEW k \in Ticks(u)
       PROVE  u.bucket[k].shares > 0 /\ u.bucket[k].anchor = st.bucket[k].anchor
  <2>1. k \in Ticks(st)
    BY <1>9
  <2>2. CASE k = t
    BY <1>10, <1>13, <1>14, <2>2
  <2>3. CASE k # t
    BY <1>10, <1>12, <2>1, <2>3 DEF AllHeld
  <2> QED
    BY <2>2, <2>3
<1>16. n < st.bucket[t].shares => t \in Ticks(u)
  BY <1>0, <1>4, <1>9, <1>11
<1> QED
  BY <1>0, <1>9, <1>15, <1>16 DEF AllHeld

(* open_position, with the checks and the sums apart.                      *)
CanOpen(s, d, g) ==
  LET principal == g - OpenFee(g)
  IN  /\ g # 0 /\ ~(principal < MinMargin) /\ ~(principal > MaxMargin)
      /\ ~(s.pool[d] > 0 /\ Diluted(s, d))
      /\ ~(s.pool[d] > 0 /\ SharesMinted(s, d, principal) = 0)

(* The sub-pool an open leaves.                                            *)
OpenedSide(s, d, g) ==
  LET principal == g - OpenFee(g)
  IN  SideGrown(s, d, PrincipalIntoPool(s, d, principal), SharesMinted(s, d, principal),
                MulDivFloor(principal, LeverageBps, BpsScale),
                principal - PrincipalIntoPool(s, d, principal))

LEMMA OpenSyncedIs ==
  ASSUME NEW s, NEW d, NEW g, NEW r, r = OpenSynced(s, d, g),
         NEW final, final = OpenedSide(s, d, g), NEW principal, principal = g - OpenFee(g)
  PROVE  /\ r.err = "Ok" => CanOpen(s, d, g) /\ SubPoolSound(final)
         /\ CanOpen(s, d, g) =>
              /\ r.err = Checked(final).err /\ r.sp = final
              /\ r.fee = OpenFee(g) /\ r.principal = principal
              /\ r.pos = NewPosition(d, SharesMinted(s, d, principal),
                                     MulDivFloor(principal, LeverageBps, BpsScale), s.gen[d])
<1>1. CanOpen(s, d, g) =>
        r = [err |-> Checked(final).err, sp |-> final, fee |-> OpenFee(g),
             principal |-> principal,
             pos |-> NewPosition(d, SharesMinted(s, d, principal),
                                 MulDivFloor(principal, LeverageBps, BpsScale), s.gen[d])]
  BY DEF OpenSynced, CanOpen, OpenedSide, SideGrown
<1>2. ~CanOpen(s, d, g) => r.err # "Ok"
  BY DEF OpenSynced, CanOpen, Fail
<1>3. Checked(final).err = "Ok" => SubPoolSound(final)
  BY DEF Checked, Fail
<1> QED
  BY <1>1, <1>2, <1>3

LEMMA OpenedSideKeeps ==
  ASSUME NEW s, IsSubPool(s), NEW d, NEW g, NEW u, u = OpenedSide(s, d, g)
  PROVE  IsSubPool(u) /\ u.dormant = s.dormant /\ u.rotateLog = s.rotateLog
         /\ u.recovery = s.recovery
<1>1. PICK a, b, c, e : u = SideGrown(s, d, a, b, c, e)
  BY DEF OpenedSide
<1> QED
  BY <1>1 DEF SideGrown, IsSubPool, SubPoolFields

(* A pre-sync credits a bucket what it was promised.                       *)
LEMMA PreSyncPromises ==
  ASSUME NEW W, PoolSound(W), NEW e \in Direction, NEW x, PreSyncBucket(W, e, x).err = "Ok",
         NEW V, V = PreSyncBucket(W, e, x).sp, NEW d \in Direction, NEW t \in Ticks(W.dormant[d])
  PROVE  t \in Ticks(V.dormant[d]) /\ Promised(V.dormant[d], t) = Promised(W.dormant[d], t)
<1>1. PICK u : u = ApplyPending(W.dormant[e], {x})
  OBVIOUS
<1>2. x \in Ticks(W.dormant[e]) /\ V = [W EXCEPT !.dormant[e] = u]
  BY <1>1, CheckedSame DEF PreSyncBucket, Fail
<1>3. V.dormant = [W.dormant EXCEPT ![e] = u]
  BY <1>2 DEF PoolSound, IsSubPool, SubPoolFields
<1>4. W.dormant = [c \in Direction |-> W.dormant[c]]
  BY DEF PoolSound
<1>5. CASE d # e
  <2>1. PICK D : D = W.dormant
    OBVIOUS
  <2>2. V.dormant[d] = W.dormant[d]
    BY <1>3, <1>4, <1>5, <2>1
  <2> QED
    BY <2>2
<1>6. CASE d = e
  <2>1. PICK st : st = W.dormant[e]
    OBVIOUS
  <2>2. V.dormant[d] = u
    BY <1>3, <1>4, <1>6
  <2>3. StoreSound(st) /\ {x} \in SUBSET Ticks(st) /\ t \in Ticks(st)
    BY <1>2, <1>6, <2>1 DEF PoolSound
  <2>4. CaughtUpBy(st, {x}, u)
    BY <1>1, <2>1, <2>3, ApplyPendingSound
  <2>5. Promised(u, t) = Promised(st, t)
    BY <2>3, <2>4, CaughtUpBucket
  <2>6. t \in Ticks(u)
    BY <2>3, <2>4 DEF CaughtUpBy
  <2> QED
    BY <1>6, <2>1, <2>2, <2>5, <2>6
<1> QED
  BY <1>5, <1>6

(* At first nobody holds a position, and nothing is on the books.          *)
LEMMA NothingOwned == Owned(NewSubPool, <<>>)
<1>1. PICK s, P : s = NewSubPool /\ P = <<>>
  OBVIOUS
<1>2. PoolSound(s)
  BY <1>1, NewSubPoolSound
<1>3. Numbered(s)
  BY <1>1 DEF Numbered, NewSubPool, IsSubPool, SubPoolFields, IsLog, Both
<1>4. Listed(s, P) /\ 1 .. Len(P) = {}
  BY <1>1, <1>2, <1>3 DEF Listed, IsList
<1>5. ASSUME NEW a \in BookAccounts PROVE OnBooks(s, a) = SumOver(Weights(s, P, a), 1 .. Len(P))
  <2>1. a.dir \in Direction
    BY DEF BookAccounts
  <2>2. OnBooks(s, a) = 0
    BY <1>1, <2>1 DEF NewSubPool, Both, NewStore, OnBooks, HeldIn, Ticks
  <2> QED
    BY <1>4, <2>2, SumEmpty
<1> QED
  BY <1>1, <1>4, <1>5 DEF Owned, Backed
=============================================================================
