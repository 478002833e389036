-------------------------- MODULE NativeVaultProofs --------------------------
(***************************************************************************)
(* Proofs about NativeVault, for any number of sessions, items,             *)
(* attachments and keys and all limits: what only fenced writes and         *)
(* installs have touched is valid and readable, no save is overwritten, the *)
(* history keeps its newest rows, and a race over the storage limit is      *)
(* bounded by the number of sessions.                                       *)
(***************************************************************************)
EXTENDS NativeVault, FiniteSetTheorems, WellFoundedInduction, TLAPS

-----------------------------------------------------------------------------
(* Finite sets of numbers.                                                  *)

(* A set of numbers has a smallest one.                                     *)
LEMMA SmallestNumber ==
  ASSUME NEW T \in SUBSET Nat, T # {}
  PROVE  \E x \in T : \A y \in T : x <= y
<1>. DEFINE less == {p \in Nat \X Nat : p[1] < p[2]}
<1>1. IsWellFoundedOn(less, Nat)
  BY NatLessThanWellFounded DEF OpToRel
<1>. HIDE DEF less
<1>2. PICK x \in T : \A y \in T : ~(<<y, x>> \in less)
  BY <1>1, WFMin
<1>3. \A y \in T : ~(y < x)
  BY <1>2 DEF less
<1>. QED  BY <1>3

(* A finite one has a bound.                                                *)
LEMMA FiniteIsBounded ==
  ASSUME NEW T \in SUBSET Nat, IsFiniteSet(T)
  PROVE  \E m \in Nat : \A x \in T : x <= m
<1>. DEFINE Bounded(S) == \E m \in Nat : \A x \in S : x <= m
            bad == {n \in Nat : \E S \in SUBSET Nat : IsFiniteSet(S) /\ Cardinality(S) = n /\ ~Bounded(S)}
<1>1. SUFFICES bad = {}
  <2>1. Cardinality(T) \in Nat
    BY FS_CardinalityType
  <2>. QED  BY <1>1, <2>1
<1>2. SUFFICES ASSUME bad # {} PROVE FALSE
  OBVIOUS
<1>3. PICK n \in bad : \A m \in bad : n <= m
  BY <1>2, SmallestNumber
<1>4. PICK S \in SUBSET Nat : IsFiniteSet(S) /\ Cardinality(S) = n /\ ~Bounded(S)
  BY <1>3
<1>5. PICK x \in S : TRUE
  <2>1. S # {}
    BY <1>4
  <2>. QED  BY <2>1
<1>6. IsFiniteSet(S \ {x}) /\ Cardinality(S \ {x}) = n - 1 /\ Cardinality(S \ {x}) \in Nat
  BY <1>4, <1>5, FS_RemoveElement, FS_CardinalityType
<1>7. n - 1 \notin bad
  BY <1>3, <1>6
<1>8. PICK m \in Nat : \A y \in S \ {x} : y <= m
  BY <1>6, <1>7
<1>9. \A y \in S : y <= m + x
  BY <1>8
<1>. QED  BY <1>4, <1>9

(* And a largest element.                                                   *)
LEMMA LargestNumber ==
  ASSUME NEW T \in SUBSET Nat, IsFiniteSet(T), T # {}
  PROVE  \E x \in T : \A y \in T : y <= x
<1>. DEFINE U == {m \in Nat : \A x \in T : x <= m}
<1>1. PICK m \in U : \A k \in U : m <= k
  BY FiniteIsBounded, SmallestNumber
<1>2. SUFFICES ASSUME m \notin T PROVE FALSE
  BY <1>1
<1>3. PICK x \in T : TRUE
  OBVIOUS
<1>4. \A y \in T : y <= m - 1
  BY <1>1, <1>2
<1>5. m - 1 \in Nat
  BY <1>1, <1>2, <1>3
<1>. QED  BY <1>1, <1>4, <1>5

LEMMA SmallerSet ==
  ASSUME NEW S, IsFiniteSet(S), NEW T, T \subseteq S
  PROVE  /\ IsFiniteSet(T) /\ Cardinality(T) \in Nat /\ Cardinality(S) \in Nat
         /\ Cardinality(T) <= Cardinality(S)
         /\ Cardinality(S) = Cardinality(T) => S = T
BY FS_Subset, FS_CardinalityType

(* Of elements with different ranks, those that fewer than L others outrank  *)
(* are at most L.                                                           *)
LEMMA TopFew ==
  ASSUME NEW S, IsFiniteSet(S), NEW rank \in [S -> Nat],
         \A a, b \in S : rank[a] = rank[b] => a = b,
         NEW L \in Nat
  PROVE  Cardinality({a \in S : Cardinality({b \in S : rank[b] > rank[a]}) < L}) <= L
<1>. DEFINE Above(a) == {b \in S : rank[b] > rank[a]}
<1>. SUFFICES ASSUME NEW top, top = {a \in S : Cardinality(Above(a)) < L}
              PROVE  Cardinality(top) <= L
  OBVIOUS
<1>1. IsFiniteSet(top) /\ Cardinality(top) \in Nat /\ top \subseteq S
  BY SmallerSet
<1>2. CASE top = {}
  <2>1. Cardinality({}) = 0
    BY FS_EmptySet
  <2>2. Cardinality(top) = 0
    BY <1>2, <2>1
  <2>. QED  BY <2>2
<1>3. CASE top # {}
  <2>1. {rank[a] : a \in top} \in SUBSET Nat /\ {rank[a] : a \in top} # {}
    <3>1. \A a \in top : rank[a] \in Nat
      BY <1>1
    <3>. HIDE DEF Above
    <3>. QED  BY <1>3, <3>1
  <2>2. PICK r \in {rank[a] : a \in top} : \A q \in {rank[a] : a \in top} : r <= q
    BY <2>1, SmallestNumber
  <2>3. PICK a \in top : rank[a] = r
    OBVIOUS
  <2>4. \A b \in top : rank[a] <= rank[b]
    BY <2>2, <2>3
  <2>5. top \ {a} \subseteq Above(a)
    BY <2>4, <1>1
  <2>6. IsFiniteSet(Above(a)) /\ Cardinality(Above(a)) \in Nat
    BY SmallerSet
  <2>7. Cardinality(Above(a)) < L
    BY <2>3
  <2>. HIDE DEF Above
  <2>8. Cardinality(top \ {a}) = Cardinality(top) - 1
    BY <1>1, <2>3, FS_RemoveElement
  <2>9. Cardinality(top \ {a}) <= Cardinality(Above(a))
    BY <2>5, <2>6, SmallerSet
  <2>10. Cardinality(top) - 1 < L
    BY <1>1, <2>6, <2>7, <2>8, <2>9
  <2>. QED  BY <1>1, <2>10
<1>. QED  BY <1>2, <1>3

(* When one too many is there, only the lowest is outranked by L others.    *)
LEMMA OnlyTheLowest ==
  ASSUME NEW S, IsFiniteSet(S), NEW rank \in [S -> Nat],
         NEW L \in Nat, Cardinality(S) <= L + 1,
         NEW a \in S, L <= Cardinality({b \in S : rank[b] > rank[a]})
  PROVE  /\ Cardinality({b \in S : rank[b] > rank[a]}) = L
         /\ \A c \in S \ {a} : rank[c] > rank[a]
                               /\ Cardinality({b \in S : rank[b] > rank[c]}) < L
<1>. DEFINE Above(c) == {b \in S : rank[b] > rank[c]}
<1>1. /\ IsFiniteSet(S \ {a}) /\ Cardinality(S \ {a}) = Cardinality(S) - 1
      /\ Cardinality(S) \in Nat /\ Cardinality(S \ {a}) \in Nat
  BY FS_RemoveElement, FS_CardinalityType
<1>2. Above(a) \subseteq S \ {a}
  OBVIOUS
<1>3. /\ Cardinality(Above(a)) <= Cardinality(S \ {a}) /\ Cardinality(Above(a)) \in Nat
      /\ Cardinality(S \ {a}) = Cardinality(Above(a)) => S \ {a} = Above(a)
  BY <1>1, <1>2, SmallerSet
<1>4. Cardinality(Above(a)) = L /\ S \ {a} = Above(a) /\ Cardinality(S \ {a}) = L
  BY <1>1, <1>3
<1>5. ASSUME NEW c \in S \ {a} PROVE rank[c] > rank[a] /\ Cardinality(Above(c)) < L
  <2>1. rank[c] > rank[a]
    BY <1>4
  <2>2. Above(c) \subseteq (S \ {a}) \ {c}
    BY <2>1
  <2>3. IsFiniteSet((S \ {a}) \ {c}) /\ Cardinality((S \ {a}) \ {c}) = L - 1
    <3>1. PICK T : T = S \ {a}
      OBVIOUS
    <3>2. IsFiniteSet(T) /\ Cardinality(T) = L /\ c \in T
      BY <1>1, <1>4, <3>1
    <3>3. IsFiniteSet(T \ {c}) /\ Cardinality(T \ {c}) = Cardinality(T) - 1
      BY <3>2, FS_RemoveElement
    <3>. QED  BY <3>1, <3>2, <3>3
  <2>4. Cardinality(Above(c)) <= L - 1 /\ Cardinality(Above(c)) \in Nat
    BY <2>2, <2>3, SmallerSet
  <2>. QED  BY <2>1, <2>4
<1>. QED  BY <1>4, <1>5

-----------------------------------------------------------------------------
(* Histories.                                                               *)

IsHistory(h) ==
  /\ h \subseteq Archived /\ IsFiniteSet(h)
  /\ \A a, b \in h :
       a.n = b.n \/ (a.item = b.item /\ a.row.revision = b.row.revision) => a = b

OfItem(h, i) == {a \in h : a.item = i}

Mine(h, i) == {a \in h : a.item # i \/ Cardinality(Revised(h, a)) < HistoryPerItem}

Pruned(h, i) == {a \in Mine(h, i) : Cardinality(Younger(Mine(h, i), a)) < HistoryRows}

Short(h) ==
  /\ Cardinality(h) <= HistoryRows
  /\ \A i \in Items : Cardinality(OfItem(h, i)) <= HistoryPerItem

LEMMA ArchivedFields ==
  ASSUME NEW a \in Archived
  PROVE  /\ a.item \in Items /\ a.n \in Nat /\ a.row \in Row /\ a.row.revision \in Nat
         /\ a.row.key \in Keys
BY DEF Archived, Row

(* The id of a new history row is a number above all those in use.          *)
LEMMA NextHistoryIdNew ==
  ASSUME NEW h, IsHistory(h)
  PROVE  NextHistoryId(h) \in Nat /\ \A a \in h : a.n < NextHistoryId(h)
<1>. DEFINE P(n) == (\A a \in h : a.n < n) /\ (h = {} \/ \E a \in h : a.n + 1 = n)
            C == 1..(Cardinality(h) + 1) \cup {a.n + 1 : a \in h}
<1>1. \A a \in h : a.n \in Nat
  BY ArchivedFields DEF IsHistory
<1>2. C \subseteq Nat
  BY <1>1
<1>3. \E n \in C : P(n)
  <2>1. CASE h = {}
    <3>1. Cardinality(h) = 0
      BY <2>1, FS_EmptySet
    <3>2. 1 \in C
      BY <3>1
    <3>. QED  BY <2>1, <3>2
  <2>2. CASE h # {}
    <3>. DEFINE T == {a.n : a \in h}
                f == [a \in h |-> a.n]
    <3>1. f \in Surjection(h, T)
      BY DEF Surjection
    <3>2. IsFiniteSet(T)
      BY <3>1, FS_Surjection DEF IsHistory
    <3>3. T \in SUBSET Nat /\ T # {}
      BY <1>1, <2>2
    <3>4. PICK m \in T : \A y \in T : y <= m
      BY <3>2, <3>3, LargestNumber
    <3>5. PICK a \in h : a.n = m
      OBVIOUS
    <3>6. \A b \in h : b.n < m + 1
      <4>1. \A b \in h : b.n <= m
        BY <3>4
      <4>. QED  BY <4>1, <1>1, <3>5
    <3>7. m + 1 \in C
      BY <3>5
    <3>8. P(m + 1)
      BY <3>5, <3>6
    <3>. QED  BY <3>7, <3>8
  <2>. QED  BY <2>1, <2>2
<1>4. NextHistoryId(h) = CHOOSE n \in C : P(n)
  BY DEF NextHistoryId
<1>. HIDE DEF C, P
<1>5. NextHistoryId(h) \in C /\ P(NextHistoryId(h))
  BY <1>3, <1>4
<1>. QED  BY <1>2, <1>5 DEF P

LEMMA SubHistory ==
  ASSUME NEW h, IsHistory(h), NEW g, g \subseteq h
  PROVE  /\ IsHistory(g) /\ Cardinality(g) \in Nat /\ Cardinality(h) \in Nat
         /\ Cardinality(g) <= Cardinality(h)
BY SmallerSet DEF IsHistory

(* What an element's revision or id is ranked by.                           *)
LEMMA Ranks ==
  ASSUME NEW h, IsHistory(h)
  PROVE  /\ [a \in h |-> a.n] \in [h -> Nat]
         /\ [a \in h |-> a.row.revision] \in [h -> Nat]
BY ArchivedFields DEF IsHistory

(* Pruning leaves at most HistoryPerItem rows of its item.                  *)
LEMMA MineOfItem ==
  ASSUME NEW h, IsHistory(h), NEW i \in Items
  PROVE  Cardinality(OfItem(Mine(h, i), i)) <= HistoryPerItem
<1>1. PICK S : S = OfItem(h, i)
  OBVIOUS
<1>2. IsHistory(S)
  BY <1>1, SubHistory DEF OfItem
<1>3. PICK rank : rank = [a \in S |-> a.row.revision]
  OBVIOUS
<1>4. rank \in [S -> Nat]
  BY <1>2, <1>3, Ranks
<1>5. \A a, b \in S : rank[a] = rank[b] => a = b
  BY <1>1, <1>2, <1>3 DEF IsHistory, OfItem
<1>6. \A a \in S : Revised(h, a) = {b \in S : rank[b] > rank[a]}
  BY <1>1, <1>3 DEF Revised, OfItem
<1>7. OfItem(Mine(h, i), i) = {a \in S : Cardinality({b \in S : rank[b] > rank[a]}) < HistoryPerItem}
  BY <1>1, <1>6 DEF OfItem, Mine
<1>8. IsFiniteSet(S) /\ HistoryPerItem \in Nat
  BY <1>2, DatabaseAssumption DEF IsHistory
<1>9. Cardinality({a \in S : Cardinality({b \in S : rank[b] > rank[a]}) < HistoryPerItem})
        <= HistoryPerItem
  BY <1>4, <1>5, <1>8, TopFew
<1>. QED  BY <1>7, <1>9, Zenon

(* A pruned history is within both limits.                                  *)
LEMMA PrunedShort ==
  ASSUME NEW h, IsHistory(h), NEW i \in Items,
         \A j \in Items \ {i} : Cardinality(OfItem(h, j)) <= HistoryPerItem
  PROVE  Pruned(h, i) \subseteq h /\ Short(Pruned(h, i))
<1>1. PICK S : S = Mine(h, i)
  OBVIOUS
<1>2. IsHistory(S) /\ S \subseteq h /\ Pruned(h, i) \subseteq S
  BY <1>1, SubHistory DEF Mine, Pruned
<1>3. Cardinality(Pruned(h, i)) <= HistoryRows
  <2>1. PICK rank : rank = [a \in S |-> a.n]
    OBVIOUS
  <2>2. rank \in [S -> Nat]
    BY <1>2, <2>1, Ranks
  <2>3. \A a, b \in S : rank[a] = rank[b] => a = b
    BY <1>2, <2>1 DEF IsHistory
  <2>4. Pruned(h, i) = {a \in S : Cardinality({b \in S : rank[b] > rank[a]}) < HistoryRows}
    <3>1. \A a \in S : Younger(S, a) = {b \in S : rank[b] > rank[a]}
      BY <2>1 DEF Younger
    <3>. QED  BY <1>1, <3>1 DEF Pruned
  <2>5. IsFiniteSet(S) /\ HistoryRows \in Nat
    BY <1>2, DatabaseAssumption DEF IsHistory
  <2>. QED  BY <2>2, <2>3, <2>4, <2>5, TopFew
<1>4. ASSUME NEW j \in Items
      PROVE  Cardinality(OfItem(Pruned(h, i), j)) <= HistoryPerItem
  <2>1. PICK g : g = OfItem(S, j)
    OBVIOUS
  <2>2. Cardinality(g) <= HistoryPerItem /\ Cardinality(g) \in Nat /\ IsHistory(g)
    <3>1. CASE j = i
      BY <1>1, <1>2, <2>1, <3>1, MineOfItem, SubHistory DEF OfItem
    <3>2. CASE j # i
      <4>1. OfItem(S, j) = OfItem(h, j)
        BY <1>1, <3>2 DEF OfItem, Mine
      <4>. QED  BY <1>2, <2>1, <3>2, <4>1, SubHistory DEF OfItem
    <3>. QED  BY <3>1, <3>2
  <2>3. OfItem(Pruned(h, i), j) \subseteq g
    BY <1>2, <2>1 DEF OfItem
  <2>. QED  BY <2>2, <2>3, SubHistory, DatabaseAssumption
<1>. QED  BY <1>2, <1>3, <1>4 DEF Short

(* The youngest row of a history is never pruned.                           *)
LEMMA NewestKept ==
  ASSUME NEW h, IsHistory(h), NEW i, NEW e \in h,
         \A a \in h : a.n <= e.n,
         \A a \in h : a.item = e.item => a.row.revision <= e.row.revision
  PROVE  e \in Pruned(h, i)
<1>1. \A a \in h : a.n \in Nat /\ a.row.revision \in Nat
  BY ArchivedFields DEF IsHistory
<1>2. Revised(h, e) = {}
  BY <1>1 DEF Revised
<1>3. e \in Mine(h, i)
  BY <1>2, FS_EmptySet, DatabaseAssumption DEF Mine
<1>4. Younger(Mine(h, i), e) = {}
  BY <1>1 DEF Younger, Mine
<1>. QED  BY <1>3, <1>4, FS_EmptySet, DatabaseAssumption DEF Pruned

(* A history with one row more.                                            *)
LEMMA GrownByOne ==
  ASSUME NEW h, IsHistory(h), NEW e, IsHistory(h \cup {e}), e \notin h
  PROVE  /\ Cardinality(h \cup {e}) = Cardinality(h) + 1 /\ Cardinality(h) \in Nat
         /\ \A i : i # e.item => OfItem(h \cup {e}, i) = OfItem(h, i)
         /\ Cardinality(OfItem(h \cup {e}, e.item)) = Cardinality(OfItem(h, e.item)) + 1
         /\ Cardinality(OfItem(h, e.item)) \in Nat
<1>1. Cardinality(h \cup {e}) = Cardinality(h) + 1 /\ Cardinality(h) \in Nat
  BY FS_AddElement, FS_CardinalityType DEF IsHistory
<1>2. \A i : i # e.item => OfItem(h \cup {e}, i) = OfItem(h, i)
  BY DEF OfItem
<1>3. OfItem(h \cup {e}, e.item) = OfItem(h, e.item) \cup {e}
  BY DEF OfItem
<1>4. IsFiniteSet(OfItem(h, e.item)) /\ e \notin OfItem(h, e.item)
  BY SmallerSet DEF OfItem, IsHistory
<1>5. /\ Cardinality(OfItem(h, e.item) \cup {e}) = Cardinality(OfItem(h, e.item)) + 1
      /\ Cardinality(OfItem(h, e.item)) \in Nat
  BY <1>4, FS_AddElement, FS_CardinalityType
<1>. QED  BY <1>1, <1>2, <1>3, <1>5

(* A history within both limits that gains a row loses one at most, and     *)
(* what it loses has as many younger rows as a limit allows.                *)
LEMMA DropsOldest ==
  ASSUME NEW h, IsHistory(h), Short(h), NEW e, e.item \in Items, IsHistory(h \cup {e}), e \notin h,
         NEW kept, kept = Pruned(h \cup {e}, e.item), NEW a \in (h \cup {e}) \ kept
  PROVE  \/ Cardinality(Revised(kept, a)) = HistoryPerItem
         \/ Cardinality(Younger(kept, a)) = HistoryRows
<1>1. PICK g : g = h \cup {e}
  OBVIOUS
<1>2. PICK S : S = Mine(g, e.item)
  OBVIOUS
<1>3. kept = Pruned(g, e.item)
  BY <1>1
<1>4. /\ IsHistory(g) /\ S \subseteq g /\ kept \subseteq S /\ IsHistory(S)
      /\ a \in g \ kept
  BY <1>1, <1>2, <1>3, SubHistory DEF Mine, Pruned
<1>5. /\ Cardinality(g) <= HistoryRows + 1 /\ Cardinality(g) \in Nat
      /\ Cardinality(OfItem(g, e.item)) <= HistoryPerItem + 1
      /\ HistoryPerItem \in Nat /\ HistoryRows \in Nat
  <2>1. e.item \in Items /\ IsHistory(h) /\ Short(h)
    OBVIOUS
  <2>2. /\ Cardinality(g) = Cardinality(h) + 1 /\ Cardinality(h) \in Nat
        /\ Cardinality(OfItem(g, e.item)) = Cardinality(OfItem(h, e.item)) + 1
        /\ Cardinality(OfItem(h, e.item)) \in Nat
    BY <1>1, GrownByOne
  <2>3. Cardinality(h) <= HistoryRows /\ Cardinality(OfItem(h, e.item)) <= HistoryPerItem
    BY <2>1 DEF Short
  <2>. QED  BY <2>2, <2>3, DatabaseAssumption
<1>6. CASE a \notin S
  <2>1. PICK T : T = OfItem(g, e.item)
    OBVIOUS
  <2>2. PICK rank : rank = [b \in T |-> b.row.revision]
    OBVIOUS
  <2>3. a \in T /\ HistoryPerItem <= Cardinality(Revised(g, a))
    <3>1. a \in T /\ ~(Cardinality(Revised(g, a)) < HistoryPerItem)
      BY <1>2, <1>4, <1>6, <2>1 DEF Mine, OfItem
    <3>2. Cardinality(Revised(g, a)) \in Nat
      BY <1>4, SubHistory DEF Revised
    <3>. QED  BY <1>5, <3>1, <3>2
  <2>4. \A b \in T : Revised(g, b) = {c \in T : rank[c] > rank[b]}
    BY <2>1, <2>2 DEF Revised, OfItem
  <2>5. IsFiniteSet(T) /\ rank \in [T -> Nat]
    BY <1>4, <2>1, <2>2, SubHistory, Ranks DEF IsHistory, OfItem
  <2>6. HistoryPerItem <= Cardinality({c \in T : rank[c] > rank[a]})
    BY <2>3, <2>4
  <2>7. Cardinality(T) <= HistoryPerItem + 1
    BY <1>5, <2>1
  <2>8. /\ Cardinality({c \in T : rank[c] > rank[a]}) = HistoryPerItem
        /\ \A b \in T \ {a} : Cardinality({c \in T : rank[c] > rank[b]}) < HistoryPerItem
    BY <1>5, <2>3, <2>5, <2>6, <2>7, OnlyTheLowest
  <2>9. /\ Cardinality(Revised(g, a)) = HistoryPerItem
        /\ \A b \in T \ {a} : Cardinality(Revised(g, b)) < HistoryPerItem
    <3>1. Revised(g, a) = {c \in T : rank[c] > rank[a]}
      BY <2>3, <2>4
    <3>2. ASSUME NEW b \in T \ {a} PROVE Cardinality(Revised(g, b)) < HistoryPerItem
      <4>1. Revised(g, b) = {c \in T : rank[c] > rank[b]}
        BY <2>4
      <4>. QED  BY <2>8, <4>1, Zenon
    <3>. QED  BY <2>8, <3>1, <3>2, Zenon
  <2>10. S = g \ {a}
    <3>1. \A b \in g : b.item # e.item \/ b \in T
      BY <2>1 DEF OfItem
    <3>2. g \ {a} \subseteq S
      BY <1>2, <2>9, <3>1 DEF Mine
    <3>. QED  BY <1>4, <1>6, <3>2
  <2>11. Cardinality(S) <= HistoryRows /\ Cardinality(S) \in Nat /\ IsFiniteSet(S)
    BY <1>4, <1>5, <2>10, FS_RemoveElement, FS_CardinalityType DEF IsHistory
  <2>12. ASSUME NEW b \in S PROVE b \in kept
    <3>1. b.n \in Nat
      BY <1>4, ArchivedFields DEF IsHistory
    <3>2. Younger(S, b) \subseteq S \ {b}
      BY <3>1 DEF Younger
    <3>3. IsFiniteSet(S \ {b}) /\ Cardinality(S \ {b}) = Cardinality(S) - 1
      BY <2>11, FS_RemoveElement
    <3>4. Cardinality(Younger(S, b)) <= Cardinality(S \ {b}) /\ Cardinality(Younger(S, b)) \in Nat
      BY <3>2, <3>3, SmallerSet
    <3>5. Cardinality(Younger(S, b)) < HistoryRows
      BY <1>5, <2>11, <3>3, <3>4
    <3>. QED  BY <1>2, <1>3, <3>5 DEF Pruned
  <2>13. kept = g \ {a}
    BY <1>4, <2>10, <2>12
  <2>14. Revised(kept, a) = Revised(g, a)
    <3>1. a.row.revision \in Nat
      BY <1>4, ArchivedFields DEF IsHistory
    <3>. QED  BY <2>13, <3>1 DEF Revised
  <2>. QED  BY <1>1, <1>3, <2>9, <2>14
<1>7. CASE a \in S
  <2>1. PICK rank : rank = [b \in S |-> b.n]
    OBVIOUS
  <2>2. \A b \in S : Younger(S, b) = {c \in S : rank[c] > rank[b]}
    BY <2>1 DEF Younger
  <2>3. IsFiniteSet(S) /\ rank \in [S -> Nat]
    BY <1>4, <2>1, Ranks DEF IsHistory
  <2>4. Cardinality(S) <= HistoryRows + 1 /\ Cardinality(Younger(S, a)) \in Nat
    BY <1>4, <1>5, SubHistory DEF Younger
  <2>5. HistoryRows <= Cardinality(Younger(S, a))
    <3>1. ~(Cardinality(Younger(S, a)) < HistoryRows)
      BY <1>2, <1>3, <1>4, <1>7 DEF Pruned
    <3>. QED  BY <1>5, <2>4, <3>1
  <2>6. Younger(S, a) = {c \in S : rank[c] > rank[a]}
    BY <1>7, <2>2
  <2>7. HistoryRows <= Cardinality({c \in S : rank[c] > rank[a]})
    BY <2>5, <2>6, Zenon
  <2>8. /\ Cardinality({c \in S : rank[c] > rank[a]}) = HistoryRows
        /\ \A b \in S \ {a} : Cardinality({c \in S : rank[c] > rank[b]}) < HistoryRows
    BY <1>5, <1>7, <2>3, <2>4, <2>7, OnlyTheLowest
  <2>9. ASSUME NEW b \in S \ {a} PROVE b \in kept
    <3>1. Younger(S, b) = {c \in S : rank[c] > rank[b]}
      BY <2>2
    <3>2. Cardinality(Younger(S, b)) < HistoryRows
      BY <2>8, <3>1, Zenon
    <3>. QED  BY <1>2, <1>3, <3>2 DEF Pruned
  <2>10. kept = S \ {a}
    BY <1>4, <2>9
  <2>11. Younger(kept, a) = Younger(S, a)
    <3>1. a.n \in Nat
      BY <1>4, ArchivedFields DEF IsHistory
    <3>. QED  BY <2>10, <3>1 DEF Younger
  <2>12. Cardinality(Younger(kept, a)) = HistoryRows
    BY <2>6, <2>8, <2>11, Zenon
  <2>. QED  BY <1>1, <1>3, <2>12
<1>. QED  BY <1>6, <1>7

-----------------------------------------------------------------------------
(* A database as a backup wants it, row by row.                             *)

KeptRow(d, k, a) ==
  /\ d.items[a.item] # None
  /\ d.items[a.item].at # "tombstone"
  /\ a.row.revision < d.items[a.item].revision
  /\ a.row.key = k
  /\ a.row.at = "active"

Clean(d, k) ==
  /\ ItemsValid(d, k)
  /\ \A a \in d.history : KeptRow(d, k, a)
  /\ Short(d.history)
  /\ FilesValid(d, k)
  /\ Cardinality(Stored(d)) <= MaxFileObjects

(* A database is its tables and the keys of its history.                   *)
LEMMA DatabaseParts ==
  ASSUME NEW d
  PROVE  IsDatabase(d) <=> d \in Tables /\ IsHistory(d.history)
BY DEF IsDatabase, Tables, IsHistory

LEMMA ItemFields ==
  ASSUME NEW d \in Tables, NEW i \in Items, d.items[i] # None
  PROVE  /\ d.items[i] \in Row /\ d.items[i].revision \in Nat /\ d.items[i].key \in Keys
         /\ d.items[i].at \in {"active", "trashed", "tombstone"}
         /\ d.items[i].files \in SUBSET Files
BY DEF Tables, Row

(* Whether a row of the history decrypts is told by that row.               *)
LEMMA DecryptsKept ==
  ASSUME NEW d, IsDatabase(d), NEW k, NEW a \in d.history
  PROVE  DecryptsHistory(d, k, a.item, a.row.revision)
           <=> Predates(d, a) /\ a.row.key = k /\ a.row.at = "active"
<1>1. \A b \in HistoryOf(d, a.item) : b.row.revision = a.row.revision => b = a
  BY DEF IsDatabase, HistoryOf
<1>2. a \in HistoryOf(d, a.item)
  BY DEF HistoryOf
<1>3. \A row : row \in LoadItemHistory(d, a.item, a.row.revision) <=> row = a.row /\ Predates(d, a)
  BY <1>1, <1>2 DEF LoadItemHistory
<1>. QED  BY <1>3 DEF DecryptsHistory

(* The checks of a backup say that the database is clean.                   *)
LEMMA CleanIsValid ==
  ASSUME NEW d, IsDatabase(d), NEW k
  PROVE  Clean(d, k) <=> Consistent(d, k) /\ RowsBounded(d)
<1>1. \A i : HistoryOf(d, i) = OfItem(d.history, i)
  BY DEF HistoryOf, OfItem
<1>2. \A a \in d.history : a.item \in Items
  BY DatabaseParts, ArchivedFields DEF IsHistory
<1>3. ASSUME Clean(d, k) PROVE Consistent(d, k) /\ RowsBounded(d)
  <2>1. \A a \in d.history : Predates(d, a) /\ KeptRow(d, k, a)
    BY <1>3 DEF Clean, KeptRow, Predates
  <2>2. \A a \in d.history : Cardinality(HistoryOf(d, a.item)) <= HistoryPerItem
    BY <1>1, <1>2, <1>3 DEF Clean, Short
  <2>3. \A a \in d.history : HistoryRevisionsListed(d, a.item)
    BY <2>1, <2>2 DEF HistoryRevisionsListed, HistoryOf
  <2>4. HistoryKeysListed(d)
    BY <1>3, <2>3 DEF HistoryKeysListed, Clean, Short
  <2>5. \A a \in d.history : DecryptsHistory(d, k, a.item, a.row.revision)
    BY <2>1, DecryptsKept DEF KeptRow
  <2>6. HistoryValid(d, k)
    BY <2>1, <2>4, <2>5 DEF HistoryValid, KeptRow
  <2>7. RowsBounded(d)
    BY <1>3, <2>1, <2>2 DEF RowsBounded, Clean, Short, HistoryOf
  <2>. QED  BY <1>3, <2>6, <2>7 DEF Consistent, Clean
<1>4. ASSUME Consistent(d, k), RowsBounded(d) PROVE Clean(d, k)
  <2>1. ASSUME NEW a \in d.history PROVE KeptRow(d, k, a)
    <3>1. Predates(d, a) /\ a.row.key = k /\ a.row.at = "active"
      BY <1>4, DecryptsKept DEF Consistent, HistoryValid
    <3>. QED  BY <1>4, <3>1 DEF Consistent, HistoryValid, KeptRow, Predates
  <2>2. ASSUME NEW i \in Items PROVE Cardinality(OfItem(d.history, i)) <= HistoryPerItem
    <3>1. CASE OfItem(d.history, i) = {}
      BY <3>1, FS_EmptySet, DatabaseAssumption
    <3>2. CASE OfItem(d.history, i) # {}
      <4>1. PICK a \in d.history : a.item = i
        BY <3>2 DEF OfItem
      <4>2. OfItem(d.history, i) = {b \in d.history : b.item = a.item}
        BY <4>1 DEF OfItem
      <4>. QED  BY <1>4, <4>2 DEF RowsBounded
    <3>. QED  BY <3>1, <3>2
  <2>. QED  BY <1>4, <2>1, <2>2 DEF Clean, Consistent, RowsBounded, Short
<1>. QED  BY <1>3, <1>4

(* A clean database passes every check but for the two limits.               *)
LEMMA CleanValidates ==
  ASSUME NEW d, IsDatabase(d), NEW k
  PROVE  Validates(d, k) <=> Clean(d, k) /\ ItemsListed(d) /\ WithinBudget(d)
BY CleanIsValid DEF Validates, WithinBounds, ContentsValid

(* From a clean database every active item is read completely.              *)
LEMMA CleanReads ==
  ASSUME NEW d, IsDatabase(d), NEW k, Clean(d, k), NEW i \in Live(d), d.items[i].at = "active"
  PROVE  HistoryOpens(d, k, i) /\ ExportsAttachments(d, k, i)
<1>1. i \in Items /\ d.items[i] # None /\ DecryptsItem(d, k, i)
  BY DEF Live, Clean, ItemsValid
<1>2. HistoryRevisionsListed(d, i)
  <2>1. HistoryOf(d, i) = OfItem(d.history, i)
    BY DEF HistoryOf, OfItem
  <2>. QED  BY <1>1, <2>1 DEF Clean, Short, HistoryRevisionsListed, HistoryOf, KeptRow, Predates
<1>3. ASSUME NEW n \in ListItemHistoryRevisions(d, i) PROVE DecryptsHistory(d, k, i, n)
  <2>1. PICK a \in d.history : a.item = i /\ a.row.revision = n
    BY <1>3 DEF ListItemHistoryRevisions, HistoryOf
  <2>. QED  BY <2>1, DecryptsKept DEF Clean, KeptRow, Predates
<1>4. Refers(d, i) = d.items[i].files
  BY DEF Refers
<1>5. ASSUME NEW f \in d.items[i].files
      PROVE  OpensAttachment(d, k, f, i) /\ ListAttachmentChunks(d, f) = {f}
  <2>1. f \in Stored(d)
    BY <1>4 DEF Clean, FilesValid
  <2>2. f \in Files /\ d.files[f] # None /\ d.files[f] \in FileRow
    BY <2>1, DatabaseParts DEF Stored, Tables
  <2>3. d.files[f].at = "active"
    BY <1>4, <2>1 DEF Clean, FilesValid
  <2>4. /\ d.files[f].owner \in Live(d) /\ f \in Refers(d, d.files[f].owner)
        /\ d.files[f].key = k /\ d.files[f].chunks
    BY <2>1, <2>3 DEF Clean, FilesValid
  <2>5. d.files[f].owner = i
    BY <1>4, <2>4 DEF Clean, ItemsValid
  <2>. QED  BY <2>2, <2>3, <2>4, <2>5 DEF OpensAttachment, ListAttachmentChunks
<1>. QED  BY <1>1, <1>2, <1>3, <1>5 DEF HistoryOpens, ExportsAttachments

(* Clean looks at the tables of contents only.                              *)
LEMMA CleanContents ==
  ASSUME NEW c, NEW d, NEW k, c.items = d.items, c.history = d.history, c.files = d.files
  PROVE  Clean(c, k) <=> Clean(d, k)
BY DEF Clean, ItemsValid, FilesValid, KeptRow, Stored, Live, Refers, DecryptsItem

-----------------------------------------------------------------------------
(* What a transaction makes of each table.                                  *)

ArchivedRow(d, w) ==
  [item |-> w.item, n |-> NextHistoryId(d.history), row |-> d.items[w.item]]

NewHistory(d, w) ==
  CASE w.kind = "update" -> d.history
    [] w.kind = "purge"  -> {a \in d.history : a.item # w.item}
    [] OTHER             -> Pruned(d.history \cup {ArchivedRow(d, w)}, w.item)

NewFiles(d, w) ==
  CASE w.kind = "attach" ->
         [d.files EXCEPT ![w.file] = SealAttachmentManifest(w.row.key, w.item)]
    [] w.kind \in {"detach", "purge"} ->
         [f \in Files |-> IF f \in Marked(w) THEN SealTombstone(w.marks[f], w.row.key)
                                             ELSE d.files[f]]
    [] OTHER -> d.files

LEMMA WriteFields ==
  ASSUME NEW w \in Write
  PROVE  /\ w.kind \in Kinds /\ w.item \in Items /\ w.expected \in Nat /\ w.row \in Row
         /\ w.row.revision \in Nat /\ w.row.key \in Keys /\ w.row.files \in SUBSET Files
         /\ w.row.at \in {"active", "trashed", "tombstone"}
         /\ w.file \in Files \cup {None}
         /\ \A f \in Marked(w) : w.marks[f] \in FileRow
BY DEF Write, Row, Marked

LEMMA CanCommitCurrent ==
  ASSUME NEW d, NEW w, CanCommit(d, w)
  PROVE  /\ d.items[w.item] # None /\ d.items[w.item].revision = w.expected
         /\ w.kind \in {"edit", "attach", "detach"} =>
              \A a \in d.history : a.item # w.item \/ a.row.revision # w.expected
         /\ w.kind = "attach" => Cardinality(Stored(d)) < MaxFileObjects /\ d.files[w.file] = None
         /\ w.kind \in {"detach", "purge"} => \A f \in Marked(w) : d.files[f] # None
BY DEF CanCommit, CanUpdateItem, CanUpdateWithHistory, CanInsertAttachment, CanTombstone,
       IsCurrent, CanArchive

(* The row that is archived is new and the youngest of all.                 *)
LEMMA ArchivingGrows ==
  ASSUME NEW d, IsDatabase(d), NEW w \in Write, CanCommit(d, w),
         w.kind \in {"edit", "attach", "detach"}
  PROVE  LET e == ArchivedRow(d, w)
         IN  /\ e \in Archived /\ e \notin d.history
             /\ IsHistory(d.history \cup {e})
             /\ \A a \in d.history : a.n < e.n
<1>1. PICK e : e = ArchivedRow(d, w)
  OBVIOUS
<1>2. IsHistory(d.history) /\ d \in Tables /\ w.item \in Items
  BY DatabaseParts, WriteFields
<1>3. e.n \in Nat /\ \A a \in d.history : a.n < e.n
  BY <1>1, <1>2, NextHistoryIdNew DEF ArchivedRow
<1>4. /\ d.items[w.item] # None /\ d.items[w.item].revision = w.expected
      /\ \A a \in d.history : a.item # w.item \/ a.row.revision # w.expected
  BY CanCommitCurrent
<1>5. e \in Archived
  <2>1. d.items[w.item] \in Row
    BY <1>2, <1>4, ItemFields
  <2>. QED  BY <1>1, <1>2, <1>3, <2>1 DEF ArchivedRow, Archived
<1>6. \A a \in d.history : a.n \in Nat
  BY <1>2, ArchivedFields DEF IsHistory
<1>7. \A a \in d.history :
        a.n # e.n /\ ~(a.item = e.item /\ a.row.revision = e.row.revision)
  BY <1>1, <1>3, <1>4, <1>6 DEF ArchivedRow
<1>8. e \notin d.history
  BY <1>7
<1>9. IsHistory(d.history \cup {e})
  <2>1. IsFiniteSet(d.history \cup {e})
    BY <1>2, FS_AddElement DEF IsHistory
  <2>. QED  BY <1>2, <1>5, <1>7, <2>1 DEF IsHistory
<1>. QED  BY <1>1, <1>3, <1>5, <1>8, <1>9

TablesOf(d, items, history, files) ==
  [root |-> d.root, kit |-> d.kit, items |-> items, history |-> history, files |-> files]

(* Pruning changes the history and nothing else.                           *)
LEMMA PruneTables ==
  ASSUME NEW d, NEW items, NEW history, NEW files, NEW i
  PROVE  PruneItemHistory(TablesOf(d, items, history, files), i)
           = TablesOf(d, items, Pruned(history, i), files)
<1>1. PICK c : c = TablesOf(d, items, history, files)
  OBVIOUS
<1>2. PruneItemHistory(c, i) = [c EXCEPT !.history = Pruned(c.history, i)]
  BY DEF PruneItemHistory, Pruned, Mine
<1>3. c.history = history
  BY <1>1 DEF TablesOf
<1>4. [c EXCEPT !.history = Pruned(history, i)] = TablesOf(d, items, Pruned(history, i), files)
  BY <1>1 DEF TablesOf
<1>. QED  BY <1>1, <1>2, <1>3, <1>4

(* A commit replaces the row of its item, and what it archives, prunes and  *)
(* does to attachments.                                                     *)
LEMMA CommittedTables ==
  ASSUME NEW d, IsDatabase(d), NEW w \in Write, CanCommit(d, w)
  PROVE  Committed(d, w) =
           TablesOf(d, [d.items EXCEPT ![w.item] = w.row], NewHistory(d, w), NewFiles(d, w))
<1>1. d \in Tables /\ w.kind \in Kinds
  BY DatabaseParts, WriteFields
<1>2. d = TablesOf(d, d.items, d.history, d.files)
  BY <1>1 DEF Tables, TablesOf
<1>3. PICK items : items = [d.items EXCEPT ![w.item] = w.row]
  OBVIOUS
<1>4. PICK grown : grown = d.history \cup {ArchivedRow(d, w)}
  OBVIOUS
<1>5. ASSUME NEW history, NEW files
      PROVE  UpdateCurrentItem(TablesOf(d, d.items, history, files), w.item, w.row)
               = TablesOf(d, items, history, files)
  BY <1>3 DEF UpdateCurrentItem, TablesOf
<1>6. ASSUME NEW files
      PROVE  ArchiveCurrentItem(TablesOf(d, d.items, d.history, files), w.item)
               = TablesOf(d, d.items, grown, files)
  BY <1>4 DEF ArchiveCurrentItem, ArchivedRow, TablesOf
<1>7. CASE w.kind = "update"
  BY <1>2, <1>3, <1>5, <1>7 DEF Committed, UpdateItem, NewHistory, NewFiles
<1>8. CASE w.kind = "edit"
  <2>1. Committed(d, w) = UpdateWithHistory(d, w) /\ NewFiles(d, w) = d.files
        /\ NewHistory(d, w) = Pruned(grown, w.item)
    BY <1>4, <1>8 DEF Committed, NewHistory, NewFiles
  <2>2. ArchiveCurrentItem(d, w.item) = TablesOf(d, d.items, grown, d.files)
    BY <1>2, <1>6
  <2>3. UpdateWithHistory(d, w) = PruneItemHistory(TablesOf(d, items, grown, d.files), w.item)
    BY <1>5, <2>2 DEF UpdateWithHistory
  <2>. QED  BY <1>3, <2>1, <2>3, PruneTables
<1>9. CASE w.kind = "attach"
  <2>1. Committed(d, w) = InsertAttachment(d, w)
        /\ NewHistory(d, w) = Pruned(grown, w.item)
    BY <1>4, <1>9 DEF Committed, NewHistory
  <2>2. NewFiles(d, w) = [d.files EXCEPT ![w.file] = SealAttachmentManifest(w.row.key, w.item)]
    BY <1>9 DEF NewFiles
  <2>3. [d EXCEPT !.files[w.file] = SealAttachmentManifest(w.row.key, w.item)]
          = TablesOf(d, d.items, d.history, NewFiles(d, w))
    BY <1>1, <2>2 DEF TablesOf, Tables
  <2>4. InsertAttachment(d, w)
          = PruneItemHistory(UpdateCurrentItem(ArchiveCurrentItem(
              TablesOf(d, d.items, d.history, NewFiles(d, w)), w.item), w.item, w.row), w.item)
    BY <2>3 DEF InsertAttachment
  <2>5. InsertAttachment(d, w) = PruneItemHistory(TablesOf(d, items, grown, NewFiles(d, w)), w.item)
    BY <1>5, <1>6, <2>4
  <2>. QED  BY <1>3, <2>1, <2>5, PruneTables
<1>10. CASE w.kind \in {"detach", "purge"}
  <2>1. Committed(d, w) = Tombstone(d, w)
    BY <1>10 DEF Committed
  <2>2. NewFiles(d, w) = [f \in Files |-> IF f \in Marked(w)
                            THEN SealTombstone(w.marks[f], w.row.key) ELSE d.files[f]]
    BY <1>10 DEF NewFiles
  <2>3. ASSUME NEW history
        PROVE  [TablesOf(d, items, history, d.files) EXCEPT !.files =
                  [f \in Files |-> IF f \in Marked(w)
                                   THEN SealTombstone(w.marks[f], w.row.key) ELSE @[f]]]
                 = TablesOf(d, items, history, NewFiles(d, w))
    BY <2>2 DEF TablesOf
  <2>4. CASE w.kind = "detach"
    <3>1. NewHistory(d, w) = Pruned(grown, w.item)
      BY <1>4, <2>4 DEF NewHistory
    <3>2. ArchiveCurrentItem(d, w.item) = TablesOf(d, d.items, grown, d.files)
      BY <1>2, <1>6
    <3>3. UpdateCurrentItem(ArchiveCurrentItem(d, w.item), w.item, w.row)
            = TablesOf(d, items, grown, d.files)
      BY <1>5, <3>2
    <3>4. Tombstone(d, w) = PruneItemHistory(TablesOf(d, items, grown, NewFiles(d, w)), w.item)
      BY <2>3, <2>4, <3>3 DEF Tombstone
    <3>. QED  BY <1>3, <2>1, <3>1, <3>4, PruneTables
  <2>5. CASE w.kind = "purge"
    <3>1. NewHistory(d, w) = {a \in d.history : a.item # w.item}
      BY <2>5 DEF NewHistory
    <3>2. UpdateCurrentItem(d, w.item, w.row) = TablesOf(d, items, d.history, d.files)
      BY <1>2, <1>5
    <3>3. Tombstone(d, w) = [TablesOf(d, items, d.history, NewFiles(d, w)) EXCEPT
                               !.history = {a \in @ : a.item # w.item}]
      BY <2>3, <2>5, <3>2 DEF Tombstone
    <3>. QED  BY <1>3, <2>1, <3>1, <3>3 DEF TablesOf
  <2>. QED  BY <1>10, <2>4, <2>5
<1>. QED  BY <1>1, <1>7, <1>8, <1>9, <1>10 DEF Kinds

LEMMA SealedTombstone ==
  ASSUME NEW file \in FileRow, NEW k \in Keys
  PROVE  /\ SealTombstone(file, k) \in FileRow /\ SealTombstone(file, k) # None
         /\ SealTombstone(file, k).at = "tombstone" /\ SealTombstone(file, k).key = k
         /\ ~SealTombstone(file, k).chunks
<1>1. SealTombstone(file, k) \in FileRow
  <2>1. file.revision + 1 \in Nat /\ file.owner \in Items
    BY DEF FileRow
  <2>. QED  BY <2>1 DEF SealTombstone, FileRow
<1>. QED  BY <1>1, NoneAssumption DEF SealTombstone

LEMMA NewFilesTyped ==
  ASSUME NEW d, IsDatabase(d), NEW w \in Write
  PROVE  NewFiles(d, w) \in [Files -> FileRow \cup {None}]
<1>1. d.files \in [Files -> FileRow \cup {None}]
  BY DatabaseParts DEF Tables
<1>2. SealAttachmentManifest(w.row.key, w.item) \in FileRow
  BY WriteFields DEF SealAttachmentManifest, FileRow
<1>3. ASSUME NEW f \in Marked(w) PROVE SealTombstone(w.marks[f], w.row.key) \in FileRow
  <2>1. w.marks[f] \in FileRow /\ w.row.key \in Keys
    BY WriteFields
  <2>. QED  BY <2>1, SealedTombstone
<1>. QED  BY <1>1, <1>2, <1>3 DEF NewFiles

LEMMA NewHistoryIsHistory ==
  ASSUME NEW d, IsDatabase(d), NEW w \in Write, CanCommit(d, w)
  PROVE  IsHistory(NewHistory(d, w))
<1>1. IsHistory(d.history)
  BY DatabaseParts
<1>2. CASE w.kind = "update"
  BY <1>1, <1>2 DEF NewHistory
<1>3. CASE w.kind = "purge"
  BY <1>1, <1>3, SubHistory DEF NewHistory
<1>4. CASE w.kind \in {"edit", "attach", "detach"}
  <2>1. IsHistory(d.history \cup {ArchivedRow(d, w)})
    BY <1>4, ArchivingGrows
  <2>2. NewHistory(d, w) = Pruned(d.history \cup {ArchivedRow(d, w)}, w.item)
    BY <1>4 DEF NewHistory
  <2>. QED  BY <2>1, <2>2, SubHistory DEF Pruned, Mine
<1>. QED  BY <1>2, <1>3, <1>4, WriteFields DEF Kinds

(* A commit makes a database of a database, and keeps its wraps.            *)
LEMMA CommittedDatabase ==
  ASSUME NEW d, IsDatabase(d), NEW w \in Write, CanCommit(d, w)
  PROVE  /\ IsDatabase(Committed(d, w))
         /\ Committed(d, w).root = d.root /\ Committed(d, w).kit = d.kit
         /\ Committed(d, w).items = [d.items EXCEPT ![w.item] = w.row]
         /\ Committed(d, w).history = NewHistory(d, w)
         /\ Committed(d, w).files = NewFiles(d, w)
<1>1. PICK c : c = Committed(d, w)
  OBVIOUS
<1>2. c = TablesOf(d, [d.items EXCEPT ![w.item] = w.row], NewHistory(d, w), NewFiles(d, w))
  BY <1>1, CommittedTables
<1>3. d \in Tables
  BY DatabaseParts
<1>4. [d.items EXCEPT ![w.item] = w.row] \in [Items -> Row \cup {None}]
  BY <1>3, WriteFields DEF Tables
<1>5. IsHistory(NewHistory(d, w)) /\ NewFiles(d, w) \in [Files -> FileRow \cup {None}]
  BY NewHistoryIsHistory, NewFilesTyped
<1>6. c \in Tables
  BY <1>2, <1>3, <1>4, <1>5 DEF TablesOf, Tables, IsHistory
<1>7. c.history = NewHistory(d, w)
  BY <1>2 DEF TablesOf
<1>8. IsDatabase(c)
  BY <1>5, <1>6, <1>7, DatabaseParts
<1>. QED  BY <1>1, <1>2, <1>8 DEF TablesOf

(* A commit that fits the row it replaces keeps a database clean.           *)
Fitting(d, w, k) ==
  /\ w.row.key = k /\ w.row.revision = w.expected + 1
  /\ Continues(w, d.items[w.item])

(* Every row a transaction leaves in the history is as a backup wants it.  *)
LEMMA CommittedKeepsRows ==
  ASSUME NEW d, IsDatabase(d), NEW w \in Write, CanCommit(d, w), NEW k, Clean(d, k),
         Fitting(d, w, k), NEW a \in NewHistory(d, w)
  PROVE  KeptRow(Committed(d, w), k, a)
<1>1. PICK c : c = Committed(d, w)
  OBVIOUS
<1>2. c.items = [d.items EXCEPT ![w.item] = w.row]
  BY <1>1, CommittedDatabase
<1>3. /\ d.items[w.item] # None /\ d.items[w.item].revision = w.expected
      /\ d.items[w.item].key = k /\ w.item \in Items /\ w.expected \in Nat /\ w.row # None
  BY CanCommitCurrent, WriteFields, NoneAssumption DEF Clean, ItemsValid, Live, DecryptsItem
<1>4. d.items \in [Items -> Row \cup {None}]
  BY DatabaseParts DEF Tables
<1>5. ASSUME a \in d.history, w.kind = "purge" => a.item # w.item PROVE KeptRow(c, k, a)
  <2>1. KeptRow(d, k, a) /\ a.row.revision \in Nat /\ a.item \in Items
    BY <1>5, DatabaseParts, ArchivedFields DEF Clean, IsHistory
  <2>2. CASE a.item # w.item
    <3>1. c.items[a.item] = d.items[a.item]
      BY <1>2, <1>4, <2>1, <2>2
    <3>. QED  BY <2>1, <3>1 DEF KeptRow
  <2>3. CASE a.item = w.item
    <3>1. c.items[a.item] = w.row
      BY <1>2, <1>4, <2>1, <2>3
    <3>2. a.row.revision < w.row.revision
      BY <1>3, <2>1, <2>3 DEF KeptRow, Fitting
    <3>3. w.row.at # "tombstone"
      BY <1>5, <2>3, WriteFields DEF Fitting, Continues, Kinds
    <3>. QED  BY <1>3, <2>1, <3>1, <3>2, <3>3 DEF KeptRow
  <2>. QED  BY <2>2, <2>3
<1>6. ASSUME a = ArchivedRow(d, w), w.kind \in {"edit", "attach", "detach"} PROVE KeptRow(c, k, a)
  <2>1. a.item = w.item /\ a.row = d.items[w.item]
    BY <1>6 DEF ArchivedRow
  <2>2. d.items[w.item].at = "active" /\ w.row.at = "active"
    BY <1>6 DEF Fitting, Continues
  <2>3. c.items[a.item] = w.row
    BY <1>2, <1>3, <1>4, <2>1
  <2>4. a.row.revision < w.row.revision
    BY <1>3, <2>1 DEF Fitting
  <2>. QED  BY <1>3, <2>1, <2>2, <2>3, <2>4 DEF KeptRow
<1>7. \/ a \in d.history /\ (w.kind = "purge" => a.item # w.item)
      \/ a = ArchivedRow(d, w) /\ w.kind \in {"edit", "attach", "detach"}
  <2>1. CASE w.kind \in {"update", "purge"}
    BY <2>1 DEF NewHistory
  <2>2. CASE w.kind \in {"edit", "attach", "detach"}
    <3>1. NewHistory(d, w) \subseteq d.history \cup {ArchivedRow(d, w)}
      BY <2>2 DEF NewHistory, Pruned, Mine
    <3>. QED  BY <2>2, <3>1
  <2>. QED  BY <2>1, <2>2, WriteFields DEF Kinds
<1>. QED  BY <1>1, <1>5, <1>6, <1>7

(* A transaction leaves the history within its limits.                     *)
LEMMA CommittedShort ==
  ASSUME NEW d, IsDatabase(d), NEW w \in Write, CanCommit(d, w), Short(d.history)
  PROVE  Short(NewHistory(d, w))
<1>1. IsHistory(d.history) /\ w.item \in Items
  BY DatabaseParts, WriteFields
<1>2. CASE w.kind = "update"
  BY <1>2 DEF NewHistory
<1>3. CASE w.kind = "purge"
  <2>1. NewHistory(d, w) \subseteq d.history
    BY <1>3 DEF NewHistory
  <2>2. \A i \in Items : OfItem(NewHistory(d, w), i) \subseteq OfItem(d.history, i)
    BY <2>1 DEF OfItem
  <2>3. \A i \in Items : IsHistory(OfItem(d.history, i))
    BY <1>1, SubHistory DEF OfItem
  <2>4. Cardinality(NewHistory(d, w)) <= HistoryRows
    BY <1>1, <2>1, SubHistory, DatabaseAssumption DEF Short
  <2>5. ASSUME NEW i \in Items
        PROVE  Cardinality(OfItem(NewHistory(d, w), i)) <= HistoryPerItem
    BY <2>2, <2>3, SubHistory, DatabaseAssumption DEF Short
  <2>. QED  BY <2>4, <2>5 DEF Short
<1>4. CASE w.kind \in {"edit", "attach", "detach"}
  <2>1. PICK e : e = ArchivedRow(d, w)
    OBVIOUS
  <2>2. IsHistory(d.history \cup {e}) /\ e \notin d.history /\ e.item = w.item
    BY <1>4, <2>1, ArchivingGrows DEF ArchivedRow
  <2>3. \A j \in Items \ {w.item} : Cardinality(OfItem(d.history \cup {e}, j)) <= HistoryPerItem
    BY <1>1, <2>2, GrownByOne DEF Short
  <2>4. Short(Pruned(d.history \cup {e}, w.item))
    BY <1>1, <2>2, <2>3, PrunedShort
  <2>. QED  BY <1>4, <2>1, <2>4 DEF NewHistory
<1>. QED  BY <1>2, <1>3, <1>4, WriteFields DEF Kinds

(* What the items of the database and of the write refer to.                *)
LEMMA RefersAfter ==
  ASSUME NEW d, IsDatabase(d), NEW w \in Write, CanCommit(d, w), NEW k, Clean(d, k),
         Fitting(d, w, k)
  PROVE  LET c == Committed(d, w)
         IN  /\ Live(c) = Live(d) /\ w.item \in Live(d)
             /\ \A i \in Live(d) \ {w.item} :
                  c.items[i] = d.items[i] /\ Refers(c, i) = Refers(d, i)
             /\ c.items[w.item] = w.row
             /\ Refers(d, w.item) = d.items[w.item].files
             /\ Refers(c, w.item) = w.row.files
<1>1. PICK c : c = Committed(d, w)
  OBVIOUS
<1>2. c.items = [d.items EXCEPT ![w.item] = w.row] /\ d.items \in [Items -> Row \cup {None}]
  BY <1>1, CommittedDatabase, DatabaseParts DEF Tables
<1>3. w.item \in Items /\ d.items[w.item] # None /\ w.row # None
  BY CanCommitCurrent, WriteFields, NoneAssumption
<1>4. c.items[w.item] = w.row /\ \A i \in Items \ {w.item} : c.items[i] = d.items[i]
  BY <1>2, <1>3
<1>5. Live(c) = Live(d) /\ w.item \in Live(d)
  BY <1>3, <1>4 DEF Live
<1>6. \A i \in Live(d) \ {w.item} : Refers(c, i) = Refers(d, i)
  BY <1>4 DEF Refers, Live
<1>7. d.items[w.item].at # "tombstone"
  BY WriteFields DEF Fitting, Continues, Kinds
<1>8. w.row.at = "tombstone" => w.row.files = {}
  BY WriteFields DEF Fitting, Continues, Kinds
<1>9. Refers(d, w.item) = d.items[w.item].files /\ Refers(c, w.item) = w.row.files
  BY <1>4, <1>7, <1>8 DEF Refers
<1>. QED  BY <1>1, <1>4, <1>5, <1>6, <1>9 DEF Live

(* Items keep to one root key, and share no attachment.                    *)
LEMMA CommittedItems ==
  ASSUME NEW d, IsDatabase(d), NEW w \in Write, CanCommit(d, w), NEW k, Clean(d, k),
         Fitting(d, w, k)
  PROVE  ItemsValid(Committed(d, w), k)
<1>1. PICK c : c = Committed(d, w)
  OBVIOUS
<1>2. /\ Live(c) = Live(d) /\ w.item \in Live(d)
      /\ \A i \in Live(d) \ {w.item} : c.items[i] = d.items[i] /\ Refers(c, i) = Refers(d, i)
      /\ c.items[w.item] = w.row
      /\ Refers(d, w.item) = d.items[w.item].files
      /\ Refers(c, w.item) = w.row.files
  BY <1>1, RefersAfter
<1>3. \A i \in Live(c) : DecryptsItem(c, k, i)
  BY <1>2, WriteFields, NoneAssumption DEF Clean, ItemsValid, DecryptsItem, Fitting
<1>4. \A i, j \in Live(d) : i # j => Refers(d, i) \cap Refers(d, j) = {}
  BY DEF Clean, ItemsValid
<1>5. \A i \in Live(d) : Refers(d, i) \subseteq Stored(d)
  BY DEF Clean, FilesValid
<1>6. w.kind = "attach" => w.file \notin Stored(d)
  BY CanCommitCurrent DEF Stored
<1>7. Refers(c, w.item) \subseteq
        Refers(d, w.item) \cup (IF w.kind = "attach" THEN {w.file} ELSE {})
  BY <1>2, WriteFields DEF Fitting, Continues, Kinds
<1>8. \A i \in Live(d) \ {w.item} : Refers(c, i) \cap Refers(c, w.item) = {}
  BY <1>2, <1>4, <1>5, <1>6, <1>7
<1>. QED  BY <1>1, <1>2, <1>3, <1>4, <1>8 DEF ItemsValid

(* What becomes of attachments.                                             *)
LEMMA CommittedFiles ==
  ASSUME NEW d, IsDatabase(d), NEW w \in Write, CanCommit(d, w), NEW k, Clean(d, k),
         Fitting(d, w, k)
  PROVE  FilesValid(Committed(d, w), k)
<1>1. PICK c : c = Committed(d, w)
  OBVIOUS
<1>2. /\ Live(c) = Live(d) /\ w.item \in Live(d)
      /\ \A i \in Live(d) \ {w.item} : Refers(c, i) = Refers(d, i)
      /\ Refers(d, w.item) = d.items[w.item].files
      /\ Refers(c, w.item) = w.row.files
  BY <1>1, RefersAfter
<1>3. c.files = NewFiles(d, w) /\ d.files \in [Files -> FileRow \cup {None}]
  BY <1>1, CommittedDatabase, DatabaseParts DEF Tables
<1>4. FilesValid(d, k) /\ \A i, j \in Live(d) : i # j => Refers(d, i) \cap Refers(d, j) = {}
  BY DEF Clean, ItemsValid
<1>5. w.item \in Items /\ w.row.key = k /\ Continues(w, d.items[w.item])
  BY WriteFields DEF Fitting
<1>6. CASE w.kind \in {"update", "edit"}
  <2>1. Refers(c, w.item) = Refers(d, w.item)
    BY <1>2, <1>5, <1>6 DEF Continues
  <2>2. c.files = d.files /\ Stored(c) = Stored(d)
    BY <1>3, <1>6 DEF NewFiles, Stored
  <2>3. \A i \in Live(d) : Refers(c, i) = Refers(d, i)
    BY <1>2, <2>1
  <2>4. \A f \in Stored(d) : d.files[f].at = "active" => d.files[f].owner \in Live(d)
    BY <1>4 DEF FilesValid
  <2>. QED  BY <1>1, <1>2, <1>4, <2>2, <2>3, <2>4 DEF FilesValid
<1>7. CASE w.kind = "attach"
  <2>1. w.file \in Files /\ d.files[w.file] = None /\ w.file \notin Stored(d)
    BY <1>5, <1>7, CanCommitCurrent DEF Continues, Stored
  <2>2. Refers(c, w.item) = Refers(d, w.item) \cup {w.file}
    BY <1>2, <1>5, <1>7 DEF Continues
  <2>3. PICK added : added = SealAttachmentManifest(k, w.item)
    OBVIOUS
  <2>4. added \in FileRow /\ added # None
    <3>1. k \in Keys /\ w.item \in Items
      BY <1>5, WriteFields
    <3>2. added \in FileRow
      BY <2>3, <3>1 DEF SealAttachmentManifest, FileRow
    <3>. QED  BY <3>2, NoneAssumption
  <2>5. c.files = [d.files EXCEPT ![w.file] = added]
    BY <1>3, <1>5, <1>7, <2>3 DEF NewFiles
  <2>6. c.files[w.file] = added /\ \A f \in Files \ {w.file} : c.files[f] = d.files[f]
    BY <1>3, <2>1, <2>5
  <2>7. Stored(c) = Stored(d) \cup {w.file}
    BY <2>1, <2>4, <2>6 DEF Stored
  <2>8. \A f \in Stored(d) : f \in Files \ {w.file} /\ c.files[f] = d.files[f]
    BY <2>1, <2>6 DEF Stored
  <2>9. \A i \in Live(d) : Refers(d, i) \subseteq Refers(c, i) /\ Refers(c, i) \subseteq Refers(d, i) \cup {w.file}
    BY <1>2, <2>2
  <2>10. ASSUME NEW f \in Stored(d), d.files[f].at = "active"
         PROVE  /\ d.files[f].owner \in Live(d) /\ f \in Refers(c, d.files[f].owner)
                /\ d.files[f].key = k /\ d.files[f].chunks
    BY <1>4, <2>9, <2>10 DEF FilesValid
  <2>11. ASSUME NEW f \in Stored(d), d.files[f].at # "active"
         PROVE  /\ \A i \in Live(d) : f \notin Refers(c, i)
                /\ d.files[f].key = k /\ ~d.files[f].chunks
    BY <1>4, <2>1, <2>9, <2>11 DEF FilesValid
  <2>12. \A i \in Live(d) : Refers(c, i) \subseteq Stored(c)
    BY <1>4, <2>7, <2>9 DEF FilesValid
  <2>13. added.at = "active" /\ added.owner = w.item /\ added.key = k /\ added.chunks
    BY <2>3 DEF SealAttachmentManifest
  <2>14. ASSUME NEW f \in Stored(c)
         PROVE  IF c.files[f].at = "active"
                THEN /\ c.files[f].owner \in Live(c) /\ f \in Refers(c, c.files[f].owner)
                     /\ c.files[f].key = k /\ c.files[f].chunks
                ELSE /\ \A i \in Live(c) : f \notin Refers(c, i)
                     /\ c.files[f].key = k /\ ~c.files[f].chunks
    <3>1. CASE f \in Stored(d)
      BY <1>2, <2>8, <2>10, <2>11, <3>1
    <3>2. CASE f = w.file
      BY <1>2, <2>2, <2>6, <2>13, <3>2
    <3>. QED  BY <2>7, <2>14, <3>1, <3>2
  <2>. QED  BY <1>1, <1>2, <2>12, <2>14 DEF FilesValid
<1>8. CASE w.kind \in {"detach", "purge"}
  <2>1. Marked(w) \subseteq Refers(d, w.item) /\ Refers(c, w.item) = Refers(d, w.item) \ Marked(w)
    BY <1>2, <1>5, <1>8 DEF Continues
  <2>2. \A f \in Marked(w) : f \in Files /\ d.files[f] # None
    BY <1>8, CanCommitCurrent DEF Marked
  <2>3. \A f \in Files : c.files[f] = IF f \in Marked(w)
                                      THEN SealTombstone(w.marks[f], k) ELSE d.files[f]
    BY <1>3, <1>5, <1>8 DEF NewFiles
  <2>4. ASSUME NEW f \in Marked(w)
        PROVE  /\ c.files[f].at = "tombstone" /\ c.files[f].key = k /\ ~c.files[f].chunks
               /\ c.files[f] # None
    <3>1. c.files[f] = SealTombstone(w.marks[f], k) /\ f \in Files
      BY <2>2, <2>3
    <3>2. w.marks[f] \in FileRow /\ k \in Keys
      BY <1>5, WriteFields
    <3>. QED  BY <3>1, <3>2, SealedTombstone
  <2>5. \A f \in Files \ Marked(w) : c.files[f] = d.files[f]
    BY <2>3
  <2>6. Stored(c) = Stored(d)
    BY <2>2, <2>4, <2>5 DEF Stored
  <2>7. \A i \in Live(d) : Refers(c, i) = Refers(d, i) \ Marked(w)
    BY <1>2, <1>4, <2>1
  <2>8. ASSUME NEW f \in Stored(c)
        PROVE  IF c.files[f].at = "active"
               THEN /\ c.files[f].owner \in Live(c) /\ f \in Refers(c, c.files[f].owner)
                    /\ c.files[f].key = k /\ c.files[f].chunks
               ELSE /\ \A i \in Live(c) : f \notin Refers(c, i)
                    /\ c.files[f].key = k /\ ~c.files[f].chunks
    <3>1. CASE f \in Marked(w)
      BY <1>2, <2>4, <2>7, <3>1
    <3>2. CASE f \notin Marked(w)
      <4>1. f \in Files /\ f \in Stored(d) /\ c.files[f] = d.files[f]
        BY <2>5, <2>6, <3>2 DEF Stored
      <4>2. CASE d.files[f].at = "active"
        <5>1. d.files[f].owner \in Live(d) /\ f \in Refers(d, d.files[f].owner)
              /\ d.files[f].key = k /\ d.files[f].chunks
          BY <1>4, <4>1, <4>2 DEF FilesValid
        <5>. QED  BY <1>2, <2>7, <3>2, <4>1, <4>2, <5>1
      <4>3. CASE d.files[f].at # "active"
        <5>1. (\A i \in Live(d) : f \notin Refers(d, i)) /\ d.files[f].key = k /\ ~d.files[f].chunks
          BY <1>4, <4>1, <4>3 DEF FilesValid
        <5>. QED  BY <1>2, <2>7, <4>1, <4>3, <5>1
      <4>. QED  BY <4>2, <4>3
    <3>. QED  BY <3>1, <3>2
  <2>9. \A i \in Live(c) : Refers(c, i) \subseteq Stored(c)
    BY <1>2, <1>4, <2>6, <2>7 DEF FilesValid
  <2>. QED  BY <1>1, <2>8, <2>9 DEF FilesValid
<1>. QED  BY <1>6, <1>7, <1>8, WriteFields DEF Kinds

(* A fenced transaction leaves a clean database clean.                     *)
LEMMA CommittedClean ==
  ASSUME NEW d, IsDatabase(d), NEW w \in Write, CanCommit(d, w), NEW k, Clean(d, k),
         Fitting(d, w, k)
  PROVE  Clean(Committed(d, w), k)
<1>1. PICK c : c = Committed(d, w)
  OBVIOUS
<1>2. c.history = NewHistory(d, w) /\ c.files = NewFiles(d, w)
  BY <1>1, CommittedDatabase
<1>3. Short(c.history) /\ \A a \in c.history : KeptRow(c, k, a)
  BY <1>1, <1>2, CommittedShort, CommittedKeepsRows DEF Clean
<1>4. Cardinality(Stored(c)) <= MaxFileObjects
  <2>1. IsFiniteSet(Stored(d)) /\ Cardinality(Stored(d)) \in Nat
    BY DatabaseAssumption, SmallerSet DEF Stored
  <2>2. CASE w.kind = "attach"
    <3>1. Stored(c) \subseteq Stored(d) \cup {w.file}
      <4>1. \A f \in Files : f # w.file => c.files[f] = d.files[f]
        BY <1>2, <2>2, DatabaseParts DEF NewFiles, Tables
      <4>. QED  BY <4>1 DEF Stored
    <3>2. Cardinality(Stored(d)) < MaxFileObjects /\ d.files[w.file] = None
      BY <2>2, CanCommitCurrent
    <3>3. /\ IsFiniteSet(Stored(d) \cup {w.file})
          /\ Cardinality(Stored(d) \cup {w.file}) = Cardinality(Stored(d)) + 1
      BY <2>1, <3>2, FS_AddElement DEF Stored
    <3>4. Cardinality(Stored(c)) <= Cardinality(Stored(d) \cup {w.file}) /\ Cardinality(Stored(c)) \in Nat
      BY <3>1, <3>3, SmallerSet
    <3>. QED  BY <2>1, <3>2, <3>3, <3>4, DatabaseAssumption
  <2>3. CASE w.kind # "attach"
    <3>1. Stored(c) \subseteq Stored(d)
      <4>1. CASE w.kind \in {"detach", "purge"}
        <5>1. \A f \in Marked(w) : d.files[f] # None
          BY <4>1, CanCommitCurrent
        <5>2. \A f \in Files \ Marked(w) : c.files[f] = d.files[f]
          BY <1>2, <4>1 DEF NewFiles
        <5>. QED  BY <5>1, <5>2 DEF Stored
      <4>2. CASE w.kind \in {"update", "edit"}
        BY <1>2, <4>2 DEF NewFiles, Stored
      <4>. QED  BY <2>3, <4>1, <4>2, WriteFields DEF Kinds
    <3>2. Cardinality(Stored(c)) <= Cardinality(Stored(d)) /\ Cardinality(Stored(c)) \in Nat
      BY <2>1, <3>1, SmallerSet
    <3>. QED  BY <2>1, <3>2, DatabaseAssumption DEF Clean
  <2>. QED  BY <2>2, <2>3
<1>. QED  BY <1>1, <1>3, <1>4, CommittedItems, CommittedFiles DEF Clean

(* An item is put with nothing attached.                                    *)
LEMMA InsertedClean ==
  ASSUME NEW d, IsDatabase(d), NEW i \in Items, CanInsertItem(d, i), NEW row \in Row
  PROVE  /\ IsDatabase(InsertItem(d, i, row))
         /\ InsertItem(d, i, row).root = d.root /\ InsertItem(d, i, row).kit = d.kit
         /\ InsertItem(d, i, row).items = [d.items EXCEPT ![i] = row]
         /\ InsertItem(d, i, row).history = d.history
         /\ InsertItem(d, i, row).files = d.files
         /\ \A k : Clean(d, k) /\ row.key = k /\ row.files = {} => Clean(InsertItem(d, i, row), k)
<1>1. PICK c : c = InsertItem(d, i, row)
  OBVIOUS
<1>2. d \in Tables /\ IsHistory(d.history)
  BY DatabaseParts
<1>3. /\ c.root = d.root /\ c.kit = d.kit /\ c.items = [d.items EXCEPT ![i] = row]
      /\ c.history = d.history /\ c.files = d.files
  BY <1>1, <1>2 DEF InsertItem, Tables
<1>4. IsDatabase(c)
  <2>1. c \in Tables
    BY <1>1, <1>2 DEF InsertItem, Tables
  <2>. QED  BY <1>2, <1>3, <2>1, DatabaseParts
<1>5. ASSUME NEW k, Clean(d, k), row.key = k, row.files = {} PROVE Clean(c, k)
  <2>1. row # None /\ d.items[i] = None /\ i \notin Live(d)
    BY NoneAssumption DEF CanInsertItem, Live
  <2>2. c.items[i] = row /\ \A j \in Items \ {i} : c.items[j] = d.items[j]
    BY <1>2, <1>3 DEF Tables
  <2>3. Live(c) = Live(d) \cup {i}
    BY <2>1, <2>2 DEF Live
  <2>4. \A j \in Live(d) : j \in Items \ {i} /\ c.items[j] = d.items[j] /\ Refers(c, j) = Refers(d, j)
    BY <2>1, <2>2 DEF Live, Refers
  <2>5. Refers(c, i) = {}
    BY <1>5, <2>2 DEF Refers
  <2>6. ItemsValid(c, k)
    BY <1>5, <2>1, <2>2, <2>3, <2>4, <2>5 DEF Clean, ItemsValid, DecryptsItem
  <2>7. \A a \in c.history : KeptRow(c, k, a)
    <3>1. ASSUME NEW a \in d.history PROVE KeptRow(c, k, a)
      <4>1. KeptRow(d, k, a) /\ a.item \in Items
        BY <1>2, <1>5, ArchivedFields DEF Clean, IsHistory
      <4>2. c.items[a.item] = d.items[a.item]
        BY <2>1, <2>2, <4>1 DEF KeptRow
      <4>. QED  BY <4>1, <4>2 DEF KeptRow
    <3>. QED  BY <1>3, <3>1
  <2>8. Stored(c) = Stored(d)
    BY <1>3 DEF Stored
  <2>9. FilesValid(c, k)
    BY <1>3, <1>5, <2>3, <2>4, <2>5, <2>8 DEF Clean, FilesValid
  <2>. QED  BY <1>3, <1>5, <2>6, <2>7, <2>8, <2>9 DEF Clean
<1>. QED  BY <1>1, <1>3, <1>4, <1>5

(* The secrets are no part of the contents.                                 *)
LEMMA RewrappedDatabase ==
  ASSUME NEW d, IsDatabase(d), NEW k \in Keys, NEW p \in Passphrases,
         NEW c, c = ReplaceRootWrap(d, k, p)
  PROVE  /\ IsDatabase(c) /\ InitializeRootWrap(d, k, p) = c /\ Rewrapped(d, k, p) = c
         /\ c.root # None /\ c.root.key = k
         /\ c.kit = d.kit /\ c.items = d.items /\ c.history = d.history /\ c.files = d.files
<1>1. d \in Tables /\ IsHistory(d.history)
  BY DatabaseParts
<1>2. [key |-> k, by |-> p] \in Wrap
  BY DEF Wrap
<1>3. /\ c.root = [key |-> k, by |-> p] /\ c.kit = d.kit /\ c.items = d.items
      /\ c.history = d.history /\ c.files = d.files /\ c \in Tables
  BY <1>1, <1>2 DEF ReplaceRootWrap, Tables
<1>4. IsDatabase(c)
  BY <1>1, <1>3, DatabaseParts
<1>. QED  BY <1>2, <1>3, <1>4, NoneAssumption DEF InitializeRootWrap, ReplaceRootWrap, Rewrapped

LEMMA KitStoredDatabase ==
  ASSUME NEW d, IsDatabase(d), NEW k \in Keys, NEW c, c = StoreRecoveryWrap(d, k)
  PROVE  /\ IsDatabase(c) /\ c.kit = k
         /\ c.root = d.root /\ c.items = d.items /\ c.history = d.history /\ c.files = d.files
<1>1. d \in Tables /\ IsHistory(d.history)
  BY DatabaseParts
<1>2. /\ c.kit = k /\ c.root = d.root /\ c.items = d.items
      /\ c.history = d.history /\ c.files = d.files /\ c \in Tables
  BY <1>1 DEF StoreRecoveryWrap, Tables
<1>3. IsDatabase(c)
  BY <1>1, <1>2, DatabaseParts
<1>. QED  BY <1>2, <1>3

LEMMA BlankDatabase ==
  /\ IsDatabase(Blank) /\ Live(Blank) = {} /\ Blank.history = {}
  /\ WithChunks(Blank) = {} /\ \A k : Clean(Blank, k)
<1>1. Blank \in Tables
  BY DEF Blank, Tables
<1>2. Live(Blank) = {} /\ Stored(Blank) = {} /\ Blank.history = {}
  BY DEF Blank, Live, Stored
<1>3. IsFiniteSet({}) /\ Cardinality({}) = 0
  BY FS_EmptySet
<1>4. IsDatabase(Blank)
  BY <1>1, <1>2, <1>3 DEF IsDatabase
<1>5. Short(Blank.history)
  <2>1. \A i : OfItem({}, i) = {}
    BY DEF OfItem
  <2>. QED  BY <1>2, <1>3, <2>1, DatabaseAssumption DEF Short
<1>6. ASSUME NEW k PROVE Clean(Blank, k)
  <2>1. ItemsValid(Blank, k) /\ FilesValid(Blank, k)
    BY <1>2 DEF ItemsValid, FilesValid
  <2>. QED  BY <1>2, <1>3, <1>5, <2>1, DatabaseAssumption DEF Clean
<1>. QED  BY <1>2, <1>4, <1>6 DEF WithChunks

(* Installing a database leaves nothing of the one it replaces.             *)
LEMMA ReplacedDatabase ==
  ASSUME NEW d, IsDatabase(d), NEW source, IsDatabase(source)
  PROVE  ReplaceFromDatabase(d, source) = source
<1>1. d \in Tables /\ source \in Tables
  BY DatabaseParts
<1>2. source = TablesOf(source, source.items, source.history, source.files)
  BY <1>1 DEF Tables, TablesOf
<1>3. d = TablesOf(d, d.items, d.history, d.files)
  BY <1>1 DEF Tables, TablesOf
<1>. QED  BY <1>2, <1>3 DEF ReplaceFromDatabase, TablesOf

-----------------------------------------------------------------------------
(* The invariant as the steps below use it.                                 *)

CoreTypes ==
  /\ \A d \in {live, copy} : IsDatabase(d)
  /\ session \in [Sessions -> Session \cup {None}]
  /\ view \in [Sessions -> View \cup {None}]
  /\ call \in [Sessions -> Call \cup {None}]
  /\ plan \in [Sessions -> Plan \cup {None}]
  /\ staged \in Restore \cup {None}
  /\ bodies \in Nat /\ minted \in Nat /\ installs \in Nat /\ stray \in BOOLEAN

StoredClean ==
  ~stray =>
    \A d \in {live} : d.root # None => Clean(d, d.root.key) /\ d.kit \in {None, d.root.key}

SessionKeys ==
  ~stray =>
    \A s \in Sessions :
      session[s] # None /\ session[s].era = installs => session[s].key = live.root.key

CoreReads ==
  \A s \in Sessions :
    /\ session[s] # None => session[s].era <= installs
    /\ \A v \in {view[s]} : v # None => Seen(v)
    /\ \A x \in {call[s], plan[s]} : x # None => WriteFits(x)

CoreRestore ==
  ~stray =>
    /\ copy.kit \in {None, copy.root.key}
    /\ \A r \in {staged} : r # None =>
         /\ Validates(r.seen, r.key)
         /\ r.seen.root # None /\ r.key = r.seen.root.key
         /\ r.seen.kit \in {None, r.key}
         /\ r.print \in {None, r.seen}

VaultCore ==
  /\ CoreTypes /\ NothingBeforeRoot
  /\ StoredClean /\ SessionKeys
  /\ CoreReads /\ CoreRestore

(* The invariant the proofs use is the one TLC checks.                     *)
LEMMA CoreIsVaultInv == VaultCore <=> VaultInv
<1>1. CoreTypes <=> TypeOK
  BY DEF CoreTypes, TypeOK
<1>2. CoreReads <=> ReadsFit
  BY DEF CoreReads, ReadsFit
<1>3. CoreRestore <=> RestoreSound
  BY DEF CoreRestore, RestoreSound
<1>4. CoreTypes => (StoredClean <=> PersistedStateValid)
  BY CleanIsValid, CleanValidates DEF CoreTypes, StoredClean, PersistedStateValid
<1>5. ASSUME CoreTypes, NothingBeforeRoot, StoredClean, SessionKeys PROVE SessionReads
  <2>. SUFFICES ASSUME NEW s \in Sessions, ~stray, session[s] # None, session[s].era = installs
                PROVE  /\ session[s].key = live.root.key
                       /\ \A i \in Live(live) : live.items[i].at = "active" =>
                            /\ HistoryOpens(live, session[s].key, i)
                            /\ ExportsAttachments(live, session[s].key, i)
    BY DEF SessionReads
  <2>1. session[s].key = live.root.key
    BY <1>5 DEF SessionKeys
  <2>2. live.root # None
    BY <1>5 DEF NothingBeforeRoot
  <2>3. IsDatabase(live) /\ Clean(live, live.root.key)
    BY <1>5, <2>2 DEF CoreTypes, StoredClean
  <2>. QED  BY <2>1, <2>3, CleanReads
<1>6. SessionReads => SessionKeys
  BY DEF SessionReads, SessionKeys
<1>. QED  BY <1>1, <1>2, <1>3, <1>4, <1>5, <1>6 DEF VaultCore, VaultInv

LEMMA CoreInit == Init => VaultCore
<1>. SUFFICES ASSUME Init PROVE VaultCore
  OBVIOUS
<1>1. IsDatabase(Foreign) /\ Foreign.root # None /\ Foreign.kit \in {None, Foreign.root.key}
  BY NativeVaultAssumption
<1>2. CoreTypes
  BY <1>1, BlankDatabase DEF Init, CoreTypes
<1>3. NothingBeforeRoot
  BY <1>1 DEF Init, NothingBeforeRoot
<1>4. Blank.root = None
  BY DEF Blank
<1>5. StoredClean
  BY <1>4 DEF Init, StoredClean
<1>6. SessionKeys /\ CoreReads
  BY DEF Init, SessionKeys, CoreReads
<1>7. CoreRestore
  BY <1>1 DEF Init, CoreRestore
<1>. QED  BY <1>2, <1>3, <1>5, <1>6, <1>7 DEF VaultCore

(* An idle session belongs to a vault that has a root key.                  *)
LEMMA IdleSession ==
  ASSUME VaultCore, NEW s \in Sessions
  PROVE  /\ session[s] # None => session[s] \in Session /\ session[s].key \in Keys
                                 /\ session[s].era \in Nat /\ session[s].era <= installs
         /\ session[s] # None \/ call[s] # None \/ plan[s] # None => live.root # None
         /\ view[s] # None => view[s] \in View /\ Seen(view[s])
         /\ call[s] # None => call[s] \in Call /\ WriteFits(call[s])
         /\ plan[s] # None => plan[s] \in Plan /\ WriteFits(plan[s])
BY DEF VaultCore, CoreTypes, CoreReads, NothingBeforeRoot, Session

LEMMA SealedRow ==
  ASSUME NEW k \in Keys, NEW n \in Nat, NEW at \in {"active", "trashed", "tombstone"},
         NEW body \in Nat, NEW files \in SUBSET Files
  PROVE  LET row == EncryptItemState(k, n, at, body, files)
         IN  /\ row \in Row /\ row # None
             /\ row.revision = n /\ row.key = k /\ row.at = at /\ row.files = files
BY NoneAssumption DEF EncryptItemState, Row

(* What an operation of the user starts from: the row it looked at is still *)
(* there.                                                                   *)
LEMMA LooksAt ==
  ASSUME VaultCore, NEW s \in Sessions, NEW at, Looks(s, at)
  PROVE  /\ session[s] \in Session /\ session[s].key \in Keys /\ call[s] = None
         /\ view[s] \in View /\ view[s].item \in Items /\ view[s].row \in Row
         /\ Seen(view[s])
         /\ view[s].row.revision \in Nat /\ view[s].row.files \in SUBSET Files
         /\ live.items[view[s].item] # None /\ live.items[view[s].item] \in Row
         /\ live.items[view[s].item].revision = view[s].row.revision
         /\ live.items[view[s].item].at = at
         /\ live.items[view[s].item].files \in SUBSET Files
         /\ live.items[view[s].item].body \in Nat
         /\ live.root # None
<1>1. session[s] \in Session /\ view[s] \in View /\ call[s] = None /\ live.root # None
      /\ Seen(view[s]) /\ session[s].key \in Keys
  BY IdleSession DEF Looks, Idle
<1>2. view[s].item \in Items /\ view[s].row \in Row
  BY <1>1 DEF View
<1>3. /\ live.items[view[s].item] # None
      /\ live.items[view[s].item].revision = view[s].row.revision
      /\ live.items[view[s].item].at = at
  BY DEF Looks, DecryptsItem
<1>4. live \in Tables
  BY DatabaseParts DEF VaultCore, CoreTypes
<1>5. live.items[view[s].item] \in Row
  BY <1>2, <1>3, <1>4, ItemFields
<1>. QED  BY <1>1, <1>2, <1>3, <1>5 DEF Row

(* What an operation of the user hands to its transaction fits.             *)
LEMMA NextRow ==
  ASSUME VaultCore, NEW s \in Sessions, NEW at, Looks(s, at),
         NEW to \in {"active", "trashed", "tombstone"}, NEW body \in Nat,
         NEW files \in SUBSET Files
  PROVE  /\ Next1(s, to, body, files) \in Row
         /\ Next1(s, to, body, files).revision = view[s].row.revision + 1
         /\ Next1(s, to, body, files).at = to
         /\ Next1(s, to, body, files).files = files
<1>1. view[s].row.revision + 1 \in Nat /\ session[s].key \in Keys
  BY LooksAt
<1>. QED  BY <1>1, SealedRow DEF Next1

Marks == [Files -> FileRow \cup {None}]

LEMMA WriteMade ==
  ASSUME NEW kind \in Kinds, NEW i \in Items, NEW n \in Nat, NEW row \in Row,
         NEW file \in Files \cup {None}, NEW marks \in Marks
  PROVE  /\ Writes(kind, i, n, row, file, marks) \in Write
         /\ Writes(kind, i, n, row, file, marks).kind = kind
         /\ Writes(kind, i, n, row, file, marks).item = i
         /\ Writes(kind, i, n, row, file, marks).expected = n
         /\ Writes(kind, i, n, row, file, marks).row = row
         /\ Writes(kind, i, n, row, file, marks).file = file
         /\ Writes(kind, i, n, row, file, marks).marks = marks
BY DEF Writes, Write, Marks

(* A write made of the row that was looked at fits it.                     *)
LEMMA BegunFits ==
  ASSUME VaultCore, NEW s \in Sessions, NEW at, Looks(s, at), NEW w \in Write,
         w.item = view[s].item, w.expected = view[s].row.revision,
         w.row.revision = w.expected + 1, Continues(w, live.items[w.item])
  PROVE  /\ \A x \in {[write |-> w, base |-> view[s], era |-> installs]} :
              x \in Call /\ x # None /\ WriteFits(x)
         /\ \A x \in {[write |-> w, base |-> view[s], era |-> installs, encrypted |-> FALSE]} :
              x \in Plan /\ x # None /\ WriteFits(x)
<1>1. PICK v \in View : v = view[s]
  BY LooksAt
<1>2. /\ v.row.revision \in Nat /\ installs \in Nat
      /\ Seen(v) /\ live.items[v.item] # None /\ live.items[v.item].revision = v.row.revision
  BY <1>1, LooksAt DEF VaultCore, CoreTypes
<1>3. PICK x : x = [write |-> w, base |-> v, era |-> installs]
  OBVIOUS
<1>4. PICK y : y = [write |-> w, base |-> v, era |-> installs, encrypted |-> FALSE]
  OBVIOUS
<1>5. x \in Call /\ x # None
  BY <1>2, <1>3, NoSessionAssumption DEF Call
<1>6. y \in Plan /\ y # None
  <2>1. y \in Plan
    BY <1>2, <1>4 DEF Plan
  <2>. QED  BY <2>1, NoSessionAssumption
<1>7. ASSUME NEW z \in {x, y} PROVE WriteFits(z)
  <2>1. z.write = w /\ z.base = v /\ z.era = installs
    BY <1>3, <1>4
  <2>. QED  BY <1>1, <1>2, <2>1 DEF WriteFits
<1>. QED  BY <1>1, <1>3, <1>4, <1>5, <1>6, <1>7

BeginsWrite(s) ==
  \/ UpdateItemCall(s) \/ TrashItem(s) \/ RestoreItem(s) \/ PurgeItem(s)
  \/ \E f \in Files : DeleteAttachment(s, f)

(* The reads before a write, for every operation but an import.            *)
LEMMA BeginsFits ==
  ASSUME VaultCore, NEW s \in Sessions, BeginsWrite(s)
  PROVE  /\ \E x \in Call :
              /\ x # None /\ WriteFits(x) /\ x.write.kind # "attach"
              /\ call' = [call EXCEPT ![s] = x]
         /\ call[s] = None /\ live.root # None
         /\ UNCHANGED <<live, copy, session, view, plan, staged, minted, installs, stray>>
         /\ bodies' \in Nat
<1>. DEFINE i == view[s].item
            Fit(kind, to, body, files, marks) ==
              [write |-> Writes(kind, i, view[s].row.revision, Next1(s, to, body, files),
                                None, marks),
               base |-> view[s], era |-> installs]
            Goal ==
              /\ \E x \in Call :
                   /\ x # None /\ WriteFits(x) /\ x.write.kind # "attach"
                   /\ call' = [call EXCEPT ![s] = x]
              /\ call[s] = None /\ live.root # None
              /\ UNCHANGED <<live, copy, session, view, plan, staged, minted, installs, stray>>
              /\ bodies' \in Nat
<1>1. bodies \in Nat /\ NoFiles \in Marks /\ live \in Tables
  BY DatabaseParts DEF VaultCore, CoreTypes, NoFiles, Marks
<1>2. \A files \in SUBSET Files : MarksOf(files) \in Marks
  BY <1>1 DEF MarksOf, Tables, Marks
<1>3. ASSUME NEW at, Looks(s, at),
             NEW kind \in Kinds \ {"attach"}, NEW to \in {"active", "trashed", "tombstone"},
             NEW body \in Nat, NEW files \in SUBSET Files,
             NEW marks \in Marks,
             \A w \in {Writes(kind, i, view[s].row.revision, Next1(s, to, body, files), None, marks)} :
               w.row.at = to /\ w.row.files = files /\ w.kind = kind /\ w.marks = marks
                 => Continues(w, live.items[i]),
             call' = [call EXCEPT ![s] = Fit(kind, to, body, files, marks)],
             UNCHANGED <<live, copy, session, view, plan, staged, minted, installs, stray>>,
             bodies' \in Nat
      PROVE  Goal
  <2>1. PICK w : w = Writes(kind, i, view[s].row.revision, Next1(s, to, body, files), None, marks)
    OBVIOUS
  <2>2. /\ w \in Write /\ w.kind = kind /\ w.item = i
        /\ w.expected = view[s].row.revision /\ w.row.revision = w.expected + 1
        /\ w.row.at = to /\ w.row.files = files /\ w.marks = marks
    <3>1. PICK row : row = Next1(s, to, body, files)
      OBVIOUS
    <3>2. /\ row \in Row /\ row.revision = view[s].row.revision + 1 /\ row.at = to
          /\ row.files = files
      BY <1>3, <3>1, NextRow
    <3>3. /\ i \in Items /\ view[s].row.revision \in Nat
          /\ kind \in Kinds /\ None \in Files \cup {None}
      BY <1>3, LooksAt
    <3>4. PICK n \in Nat : n = view[s].row.revision
      BY <3>3
    <3>5. w = Writes(kind, i, n, row, None, marks)
      BY <2>1, <3>1, <3>4
    <3>6. /\ w \in Write /\ w.kind = kind /\ w.item = i
          /\ w.expected = n /\ w.row = row /\ w.marks = marks
      <4>1. /\ kind \in Kinds /\ i \in Items /\ n \in Nat /\ row \in Row
            /\ None \in Files \cup {None} /\ marks \in Marks
        BY <3>2, <3>3, <3>4
      <4>2. w \in Write
        BY <3>5, <4>1, WriteMade
      <4>3. /\ w.kind = kind /\ w.item = i /\ w.expected = n
            /\ w.row = row /\ w.marks = marks
        BY <3>5 DEF Writes
      <4>. QED  BY <4>2, <4>3
    <3>. QED  BY <3>2, <3>4, <3>6
  <2>3. Continues(w, live.items[w.item])
    BY <1>3, <2>1, <2>2
  <2>4. PICK x : x = [write |-> w, base |-> view[s], era |-> installs]
    OBVIOUS
  <2>5. x \in Call /\ x # None /\ WriteFits(x)
    BY <1>3, <2>2, <2>3, <2>4, BegunFits
  <2>6. x.write.kind # "attach"
    BY <2>2, <2>4
  <2>7. call' = [call EXCEPT ![s] = x]
    BY <1>3, <2>1, <2>4
  <2>8. call[s] = None /\ live.root # None
    BY <1>3, LooksAt
  <2>. QED  BY <1>3, <2>5, <2>6, <2>7, <2>8
<1>4. CASE UpdateItemCall(s)
  <2>1. Looks(s, "active")
    BY <1>4 DEF UpdateItemCall
  <2>2. view[s].row.files \in SUBSET Files /\ live.items[i].at = "active"
    BY <2>1, LooksAt
  <2>3. view[s].row.files = live.items[i].files
    BY <1>4 DEF UpdateItemCall
  <2>4. /\ bodies' \in Nat
        /\ UNCHANGED <<live, copy, session, view, plan, staged, minted, installs, stray>>
    BY <1>1, <1>4 DEF UpdateItemCall, Begun, Begins
  <2>5. PICK body \in Nat : body = bodies'
    BY <2>4
  <2>6. call' = [call EXCEPT ![s] = Fit("edit", "active", body, view[s].row.files, NoFiles)]
    BY <1>4, <2>5 DEF UpdateItemCall, Begins
  <2>7. \A w : w.row.at = "active" /\ w.row.files = view[s].row.files /\ w.kind = "edit"
                 => Continues(w, live.items[i])
    BY <2>2, <2>3 DEF Continues
  <2>. HIDE DEF Fit
  <2>8. "edit" \in Kinds \ {"attach"}
    BY DEF Kinds
  <2>. QED  BY <1>1, <1>3, <2>1, <2>2, <2>4, <2>5, <2>6, <2>7, <2>8
<1>5. ASSUME NEW from \in {"active", "trashed"}, NEW to \in {"active", "trashed"} \ {from},
             Looks(s, from), Begun, UNCHANGED bodies,
             Begins(s, "update", Next1(s, to, live.items[i].body, live.items[i].files), NoFiles)
      PROVE  Goal
  <2>1. live.items[i].body \in Nat /\ live.items[i].files \in SUBSET Files /\ live.items[i].at = from
    BY <1>5, LooksAt
  <2>2. /\ bodies' \in Nat
        /\ UNCHANGED <<live, copy, session, view, plan, staged, minted, installs, stray>>
        /\ call' = [call EXCEPT ![s] =
             Fit("update", to, live.items[i].body, live.items[i].files, NoFiles)]
    BY <1>1, <1>5 DEF Begun, Begins
  <2>3. \A w : w.row.at = to /\ w.row.files = live.items[i].files /\ w.kind = "update"
                 => Continues(w, live.items[i])
    BY <2>1 DEF Continues
  <2>. HIDE DEF Fit
  <2>4. "update" \in Kinds \ {"attach"}
    BY DEF Kinds
  <2>. QED  BY <1>1, <1>3, <1>5, <2>1, <2>2, <2>3, <2>4
<1>6. CASE TrashItem(s)
  BY <1>5, <1>6 DEF TrashItem
<1>7. CASE RestoreItem(s)
  BY <1>5, <1>7 DEF RestoreItem
<1>8. CASE PurgeItem(s)
  <2>1. Looks(s, "trashed")
    BY <1>8 DEF PurgeItem
  <2>2. live.items[i].files \in SUBSET Files /\ live.items[i].at = "trashed"
    BY <2>1, LooksAt
  <2>3. PICK marks : marks = MarksOf(live.items[i].files)
    OBVIOUS
  <2>4. marks \in Marks
    BY <1>2, <2>2, <2>3
  <2>5. /\ bodies' \in Nat
        /\ UNCHANGED <<live, copy, session, view, plan, staged, minted, installs, stray>>
        /\ call' = [call EXCEPT ![s] = Fit("purge", "tombstone", 0, {}, marks)]
    BY <1>1, <1>8, <2>3 DEF PurgeItem, Begun, Begins
  <2>6. \A f \in live.items[i].files : live.files[f] # None
    BY <1>8 DEF PurgeItem, OpensAttachment
  <2>7. {f \in Files : marks[f] # None} = live.items[i].files
    BY <2>2, <2>3, <2>6 DEF MarksOf
  <2>8. \A w : w.row.at = "tombstone" /\ w.row.files = {} /\ w.kind = "purge" /\ w.marks = marks
                 => Continues(w, live.items[i])
    BY <2>2, <2>7 DEF Continues, Marked
  <2>. HIDE DEF Fit
  <2>9. "purge" \in Kinds \ {"attach"} /\ {} \in SUBSET Files /\ 0 \in Nat
    BY DEF Kinds
  <2>. QED  BY <1>3, <2>1, <2>4, <2>5, <2>8, <2>9
<1>9. ASSUME NEW f \in Files, DeleteAttachment(s, f) PROVE Goal
  <2>1. Looks(s, "active")
    BY <1>9 DEF DeleteAttachment
  <2>2. /\ live.items[i].files \in SUBSET Files /\ live.items[i].at = "active"
        /\ live.items[i].body \in Nat
    BY <2>1, LooksAt
  <2>3. PICK marks : marks = MarksOf({f})
    OBVIOUS
  <2>4. marks \in Marks
    BY <1>2, <2>3
  <2>5. /\ bodies' \in Nat
        /\ UNCHANGED <<live, copy, session, view, plan, staged, minted, installs, stray>>
        /\ call' = [call EXCEPT ![s] =
             Fit("detach", "active", live.items[i].body, live.items[i].files \ {f}, marks)]
    BY <1>1, <1>9, <2>3 DEF DeleteAttachment, Begun, Begins
  <2>6. live.files[f] # None /\ f \in live.items[i].files
    BY <1>9 DEF DeleteAttachment, OpensAttachment
  <2>7. {g \in Files : marks[g] # None} = {f}
    BY <2>3, <2>6 DEF MarksOf
  <2>8. \A w : w.row.at = "active" /\ w.row.files = live.items[i].files \ {f} /\ w.kind = "detach"
               /\ w.marks = marks
                 => Continues(w, live.items[i])
    BY <2>2, <2>6, <2>7 DEF Continues, Marked
  <2>. HIDE DEF Fit
  <2>9. "detach" \in Kinds \ {"attach"} /\ live.items[i].files \ {f} \in SUBSET Files
    BY <2>2 DEF Kinds
  <2>. QED  BY <1>3, <2>1, <2>2, <2>4, <2>5, <2>8, <2>9
<1>. QED  BY <1>4, <1>6, <1>7, <1>8, <1>9 DEF BeginsWrite

(* The reads before an import.                                             *)
LEMMA PreparesFits ==
  ASSUME VaultCore, NEW s \in Sessions, PrepareAttachmentImport(s)
  PROVE  /\ \E x \in Plan :
              x # None /\ WriteFits(x) /\ plan' = [plan EXCEPT ![s] = x]
         /\ live.root # None
         /\ UNCHANGED <<live, copy, session, view, call, staged, bodies, installs, stray>>
         /\ minted' \in Nat
<1>1. Looks(s, "active") /\ minted' = minted + 1 /\ minted < MaxFiles /\ minted \in Nat
  BY DEF PrepareAttachmentImport, VaultCore, CoreTypes
<1>2. PICK file \in Files : file = minted'
  BY <1>1, NativeVaultAssumption
<1>3. PICK i \in Items : i = view[s].item
  BY <1>1, LooksAt
<1>4. PICK row \in Row : row = live.items[i]
  BY <1>1, <1>3, LooksAt
<1>5. /\ row.at = "active" /\ row.files \in SUBSET Files /\ row.body \in Nat
      /\ row.revision = view[s].row.revision /\ live.root # None
  BY <1>1, <1>3, <1>4, LooksAt
<1>6. NoFiles \in Marks
  BY DEF NoFiles, Marks
<1>7. PICK w : w = Writes("attach", i, view[s].row.revision,
                          Next1(s, "active", row.body, row.files \cup {file}), file, NoFiles)
  OBVIOUS
<1>8. /\ w \in Write /\ w.kind = "attach" /\ w.item = i
      /\ w.expected = view[s].row.revision /\ w.row.revision = w.expected + 1
      /\ w.row.at = "active" /\ w.row.files = row.files \cup {file} /\ w.file = file
  <2>1. "attach" \in Kinds /\ row.files \cup {file} \in SUBSET Files
    BY <1>5 DEF Kinds
  <2>2. PICK next : next = Next1(s, "active", row.body, row.files \cup {file})
    OBVIOUS
  <2>3. /\ next \in Row /\ next.revision = view[s].row.revision + 1 /\ next.at = "active"
        /\ next.files = row.files \cup {file}
    BY <1>1, <1>5, <2>1, <2>2, NextRow
  <2>4. PICK n \in Nat : n = view[s].row.revision
    BY <1>1, LooksAt
  <2>5. w = Writes("attach", i, n, next, file, NoFiles)
    BY <1>7, <2>2, <2>4
  <2>6. /\ w \in Write /\ w.kind = "attach" /\ w.item = i
        /\ w.expected = n /\ w.row = next /\ w.file = file
    BY <1>6, <2>1, <2>3, <2>4, <2>5, WriteMade
  <2>. QED  BY <2>3, <2>4, <2>6
<1>9. PICK x : x = [write |-> w, base |-> view[s], era |-> installs, encrypted |-> FALSE]
  OBVIOUS
<1>10. x \in Plan /\ x # None /\ WriteFits(x)
  <2>1. Continues(w, live.items[w.item])
    BY <1>4, <1>5, <1>8 DEF Continues
  <2>. QED  BY <1>1, <1>3, <1>8, <1>9, <2>1, BegunFits
<1>11. plan' = [plan EXCEPT ![s] = x]
  BY <1>2, <1>3, <1>4, <1>5, <1>7, <1>9 DEF PrepareAttachmentImport
<1>12. \E z \in Plan : z # None /\ WriteFits(z) /\ plan' = [plan EXCEPT ![s] = z]
  BY <1>10, <1>11
<1>13. minted' \in Nat /\ UNCHANGED <<live, copy, session, view, call, staged, bodies, installs, stray>>
  BY <1>1 DEF PrepareAttachmentImport
<1>. QED  BY <1>5, <1>12, <1>13, Zenon

-----------------------------------------------------------------------------
(* What was read and sealed stays fit, whatever the others do.              *)

ItemsMove ==
  \A i \in Items :
    live.items[i] # None =>
      /\ live'.items[i] # None
      /\ live'.items[i] = live.items[i] \/ live'.items[i].revision > live.items[i].revision

LEMMA LiveRow ==
  ASSUME CoreTypes, NEW i \in Items, live.items[i] # None
  PROVE  live.items[i] \in Row /\ live.items[i].revision \in Nat
BY DatabaseParts, ItemFields DEF CoreTypes

LEMMA LiveRowNext ==
  ASSUME CoreTypes', NEW i \in Items, live'.items[i] # None
  PROVE  live'.items[i] \in Row /\ live'.items[i].revision \in Nat
BY DatabaseParts, ItemFields DEF CoreTypes

(* What was looked at stays recognisable by its revision until an install. *)
LEMMA SeenLater ==
  ASSUME CoreTypes, CoreTypes', ItemsMove, installs' = installs,
         NEW v \in View, Seen(v)
  PROVE  Seen(v)'
<1>1. v.item \in Items /\ v.row \in Row /\ v.row.revision \in Nat /\ v.era \in Nat
  BY DEF View, Row
<1>2. v.era <= installs'
  BY DEF Seen
<1>3. SUFFICES ASSUME v.era = installs
               PROVE  /\ live'.items[v.item] # None
                      /\ v.row.revision <= live'.items[v.item].revision
                      /\ v.row.revision = live'.items[v.item].revision => v.row = live'.items[v.item]
  BY <1>2 DEF Seen
<1>4. /\ live.items[v.item] # None /\ v.row.revision <= live.items[v.item].revision
      /\ v.row.revision = live.items[v.item].revision => v.row = live.items[v.item]
  BY <1>3 DEF Seen
<1>5. /\ live'.items[v.item] # None
      /\ \/ live'.items[v.item] = live.items[v.item]
         \/ live'.items[v.item].revision > live.items[v.item].revision
  BY <1>1, <1>4 DEF ItemsMove
<1>6. live.items[v.item].revision \in Nat /\ live'.items[v.item].revision \in Nat
  BY <1>1, <1>4, <1>5, LiveRow, LiveRowNext
<1>. QED  BY <1>1, <1>4, <1>5, <1>6

(* A write that fitted the row it would replace still does, or is refused. *)
LEMMA WriteFitsLater ==
  ASSUME CoreTypes, CoreTypes', ItemsMove, installs' = installs,
         NEW x \in Call \cup Plan, WriteFits(x)
  PROVE  WriteFits(x)'
<1>1. x.base \in View /\ x.write \in Write /\ x.era \in Nat
  BY DEF Call, Plan
<1>2. x.write.item \in Items /\ x.write.expected \in Nat
  BY <1>1, WriteFields
<1>3. PICK v \in View : v = x.base
  BY <1>1
<1>4. Seen(v)'
  BY <1>3, SeenLater DEF WriteFits
<1>5. /\ x.base.item = x.write.item /\ x.base.row.revision = x.write.expected
      /\ x.write.row.revision = x.write.expected + 1
      /\ x.era <= installs'
  BY DEF WriteFits
<1>6. ASSUME x.era = installs
      PROVE  /\ live'.items[x.write.item] # None
             /\ x.write.expected <= live'.items[x.write.item].revision
             /\ x.write.expected = live'.items[x.write.item].revision =>
                  Continues(x.write, live'.items[x.write.item])
  <2>1. PICK i \in Items : i = x.write.item
    BY <1>2
  <2>2. /\ live.items[i] # None /\ x.write.expected <= live.items[i].revision
        /\ x.write.expected = live.items[i].revision => Continues(x.write, live.items[i])
    BY <1>6, <2>1 DEF WriteFits
  <2>3. /\ live'.items[i] # None
        /\ live'.items[i] = live.items[i] \/ live'.items[i].revision > live.items[i].revision
    BY <2>2 DEF ItemsMove
  <2>4. live.items[i].revision \in Nat /\ live'.items[i].revision \in Nat
    BY <2>2, <2>3, LiveRow, LiveRowNext
  <2>. QED  BY <1>2, <2>1, <2>2, <2>3, <2>4
<1>7. (Seen(x.base))'
  BY <1>3, <1>4 DEF Seen
<1>. QED  BY <1>5, <1>6, <1>7 DEF WriteFits

(* After an install nothing that was read before is current.                *)
LEMMA OldAfterInstall ==
  ASSUME CoreTypes, installs' = installs + 1
  PROVE  /\ \A v \in View : Seen(v) => Seen(v)'
         /\ \A x \in Call \cup Plan : WriteFits(x) => WriteFits(x)'
<1>1. installs \in Nat
  BY DEF CoreTypes
<1>2. ASSUME NEW v \in View, Seen(v) PROVE Seen(v)'
  <2>1. v.era \in Nat /\ v.era <= installs
    BY <1>2 DEF View, Seen
  <2>. QED  BY <1>1, <2>1 DEF Seen
<1>3. ASSUME NEW x \in Call \cup Plan, WriteFits(x) PROVE WriteFits(x)'
  <2>1. PICK v \in View : v = x.base
    BY DEF Call, Plan
  <2>2. Seen(v)'
    BY <1>2, <1>3, <2>1 DEF WriteFits
  <2>3. Seen(x.base)'
    BY <2>1, <2>2 DEF Seen
  <2>4. x.era \in Nat /\ x.era <= installs
    BY <1>3 DEF Call, Plan, WriteFits
  <2>. QED  BY <1>1, <1>3, <2>3, <2>4 DEF WriteFits
<1>. QED  BY <1>2, <1>3

(* Both, also when an install makes what was read before it old.           *)
LEMMA StaysFit ==
  ASSUME CoreTypes, CoreTypes', (ItemsMove /\ installs' = installs) \/ installs' = installs + 1
  PROVE  /\ \A v \in View : Seen(v) => Seen(v)'
         /\ \A x \in Call \cup Plan : WriteFits(x) => WriteFits(x)'
BY SeenLater, WriteFitsLater, OldAfterInstall

(* A step that reads nothing new, or what fits, keeps all reads fitting.   *)
LEMMA ReadsStay ==
  ASSUME VaultCore, CoreTypes',
         (ItemsMove /\ installs' = installs) \/ installs' = installs + 1,
         \A s \in Sessions : session'[s] \in {session[s], None} \/ session'[s].era = installs',
         \A s \in Sessions : \A v \in {view'[s]} : v \in {view[s], None} \/ Seen(v),
         \A s \in Sessions : \A x \in {call'[s], plan'[s]} :
           x \in {call[s], plan[s], None} \/ WriteFits(x)
  PROVE  CoreReads'
<1>1. installs \in Nat /\ CoreTypes /\ CoreReads
  BY DEF VaultCore, CoreTypes
<1>2. ASSUME NEW s \in Sessions, session'[s] # None PROVE session'[s].era <= installs'
  <2>1. CASE session'[s] = session[s]
    <3>1. session[s].era \in Nat /\ session[s].era <= installs
      BY <1>2, <2>1, IdleSession
    <3>. QED  BY <1>1, <2>1, <3>1
  <2>2. CASE session'[s].era = installs'
    <3>1. installs' \in Nat
      BY <1>1
    <3>. QED  BY <2>2, <3>1
  <2>. QED  BY <1>2, <2>1, <2>2
<1>3. ASSUME NEW s \in Sessions, NEW v \in {view'[s]}, v # None PROVE Seen(v)'
  <2>1. v \in View
    BY <1>3 DEF CoreTypes
  <2>2. Seen(v)
    <3>1. CASE v = view[s]
      BY <1>1, <1>3, <3>1 DEF CoreReads
    <3>2. CASE Seen(v)
      BY <3>2
    <3>. QED  BY <1>3, <3>1, <3>2
  <2>. QED  BY <1>1, <2>1, <2>2, StaysFit
<1>4. ASSUME NEW s \in Sessions, NEW x \in {call'[s], plan'[s]}, x # None PROVE WriteFits(x)'
  <2>1. x \in Call \cup Plan
    BY <1>4 DEF CoreTypes
  <2>2. WriteFits(x)
    <3>1. CASE x \in {call[s], plan[s]}
      BY <1>1, <1>4, <3>1 DEF CoreReads
    <3>2. CASE WriteFits(x)
      BY <3>2
    <3>. QED  BY <1>4, <3>1, <3>2
  <2>. QED  BY <1>1, <2>1, <2>2, StaysFit
<1>. QED  BY <1>2, <1>3, <1>4 DEF CoreReads

(* A step of a session that touches neither file.                           *)
LEMMA SideStep ==
  ASSUME VaultCore, CoreTypes',
         UNCHANGED <<live, copy, staged, installs, stray>>, live.root # None,
         \A s \in Sessions :
           \/ session'[s] \in {session[s], None}
           \/ session'[s].era = installs /\ (~stray => session'[s].key = live.root.key),
         \A s \in Sessions : \A v \in {view'[s]} : v \in {view[s], None} \/ Seen(v),
         \A s \in Sessions : \A x \in {call'[s], plan'[s]} :
           x \in {call[s], plan[s], None} \/ WriteFits(x)
  PROVE  VaultCore'
<1>1. ItemsMove
  BY DEF ItemsMove
<1>2. CoreReads'
  BY <1>1, ReadsStay
<1>3. NothingBeforeRoot'
  BY DEF VaultCore, NothingBeforeRoot
<1>4. StoredClean'
  BY DEF VaultCore, StoredClean
<1>5. SessionKeys'
  BY DEF VaultCore, SessionKeys
<1>6. CoreRestore'
  BY DEF VaultCore, CoreRestore
<1>. QED  BY <1>2, <1>3, <1>4, <1>5, <1>6 DEF VaultCore

(* A write to the database.                                                 *)
LEMMA LiveStep ==
  ASSUME VaultCore, CoreTypes',
         UNCHANGED <<copy, staged, installs, view, plan>>, stray => stray',
         ItemsMove, live'.root # None,
         StoredClean', SessionKeys',
         \A s \in Sessions : session'[s] \in {session[s], None} \/ session'[s].era = installs,
         \A s \in Sessions : call'[s] \in {call[s], None}
  PROVE  VaultCore'
<1>1. CoreReads'
  BY ReadsStay
<1>2. NothingBeforeRoot'
  BY DEF VaultCore, NothingBeforeRoot
<1>3. CoreRestore'
  BY DEF VaultCore, CoreRestore
<1>. QED  BY <1>1, <1>2, <1>3 DEF VaultCore

(* A step of a backup or of a restore that is being prepared.               *)
LEMMA CopyStep ==
  ASSUME VaultCore, CoreTypes',
         UNCHANGED <<live, session, view, plan, call, installs>>, stray => stray',
         copy'.root # None, CoreRestore'
  PROVE  VaultCore'
<1>1. ItemsMove
  BY DEF ItemsMove
<1>2. CoreReads'
  BY <1>1, ReadsStay
<1>3. NothingBeforeRoot'
  BY DEF VaultCore, NothingBeforeRoot
<1>4. StoredClean'
  BY DEF VaultCore, StoredClean
<1>5. SessionKeys'
  BY DEF VaultCore, SessionKeys
<1>. QED  BY <1>2, <1>3, <1>4, <1>5 DEF VaultCore

-----------------------------------------------------------------------------
(* The steps of sessions that write nothing.                                *)

LEMMA OpenedTyped ==
  ASSUME CoreTypes, NEW s \in Sessions, NEW k \in Keys, Opened(s, k)
  PROVE  /\ session' \in [Sessions -> Session \cup {None}]
         /\ session'[s] # None /\ session'[s].key = k /\ session'[s].era = installs
         /\ \A t \in Sessions \ {s} : session'[t] = session[t]
<1>1. PICK x : x = [key |-> k, era |-> installs]
  OBVIOUS
<1>2. x \in Session /\ x # None
  BY <1>1, NoSessionAssumption DEF Session, CoreTypes
<1>3. session' = [session EXCEPT ![s] = x] /\ session \in [Sessions -> Session \cup {None}]
  BY <1>1 DEF Opened, CoreTypes
<1>. QED  BY <1>1, <1>2, <1>3

(* A session is opened with the root key of the database.                  *)
LEMMA UnlockSteps ==
  ASSUME VaultCore, NEW s \in Sessions, NEW k \in Keys, Opened(s, k),
         live.root # None, ~stray => k = live.root.key,
         UNCHANGED <<live, copy, view, plan, call, staged, bodies, minted, installs, stray>>
  PROVE  VaultCore'
<1>1. /\ session' \in [Sessions -> Session \cup {None}]
      /\ session'[s].key = k /\ session'[s].era = installs
      /\ \A t \in Sessions \ {s} : session'[t] = session[t]
  BY OpenedTyped DEF VaultCore
<1>2. CoreTypes'
  BY <1>1 DEF VaultCore, CoreTypes
<1>. QED  BY <1>1, <1>2, SideStep

LEMMA UnlockStep ==
  ASSUME VaultCore, NEW s \in Sessions, NEW p \in Passphrases, Unlock(s, p)
  PROVE  VaultCore'
<1>1. live.root # None /\ live \in Tables
  BY DatabaseParts DEF Unlock, OpensWith, VaultCore, CoreTypes
<1>2. PICK k \in Keys : k = live.root.key
  BY <1>1 DEF Tables, Wrap
<1>. QED  BY <1>1, <1>2, UnlockSteps DEF Unlock

LEMMA UnlockWithRecoveryKitStep ==
  ASSUME VaultCore, NEW s \in Sessions, UnlockWithRecoveryKit(s)
  PROVE  VaultCore'
<1>1. live.kit # None /\ live \in Tables
  BY DatabaseParts DEF UnlockWithRecoveryKit, VaultCore, CoreTypes
<1>2. PICK k \in Keys : k = live.kit
  BY <1>1 DEF Tables
<1>3. live.root # None
  <2>1. Blank.kit = None
    BY DEF Blank
  <2>. QED  BY <1>1, <2>1 DEF VaultCore, NothingBeforeRoot
<1>4. ~stray => k = live.root.key
  BY <1>1, <1>2, <1>3 DEF VaultCore, StoredClean
<1>. QED  BY <1>2, <1>3, <1>4, UnlockSteps DEF UnlockWithRecoveryKit

LEMMA LockStep ==
  ASSUME VaultCore, NEW s \in Sessions, Lock(s)
  PROVE  VaultCore'
<1>1. live.root # None
  BY IdleSession DEF Lock, Idle
<1>2. CoreTypes'
  BY DEF Lock, VaultCore, CoreTypes
<1>3. \A t \in Sessions : session'[t] \in {session[t], None} /\ view'[t] \in {view[t], None}
  BY DEF Lock, VaultCore, CoreTypes
<1>. QED  BY <1>1, <1>2, <1>3, SideStep DEF Lock

LEMMA GetItemStep ==
  ASSUME VaultCore, NEW s \in Sessions, NEW i \in Items, GetItemWithRevision(s, i)
  PROVE  VaultCore'
<1>1. live.root # None /\ live.items[i] # None
  BY IdleSession DEF GetItemWithRevision, Idle, DecryptsItem
<1>2. live.items[i] \in Row /\ live.items[i].revision \in Nat
  BY <1>1, LiveRow DEF VaultCore
<1>3. PICK v : v = [item |-> i, row |-> live.items[i], era |-> installs]
  OBVIOUS
<1>4. v \in View /\ installs \in Nat
  BY <1>2, <1>3 DEF View, VaultCore, CoreTypes
<1>5. Seen(v)
  BY <1>1, <1>2, <1>3, <1>4 DEF Seen
<1>6. view' = [view EXCEPT ![s] = v] /\ view \in [Sessions -> View \cup {None}]
  BY <1>3 DEF GetItemWithRevision, VaultCore, CoreTypes
<1>7. CoreTypes'
  BY <1>4, <1>6 DEF GetItemWithRevision, VaultCore, CoreTypes
<1>8. \A t \in Sessions : \A u \in {view'[t]} : u \in {view[t], None} \/ Seen(u)
  BY <1>5, <1>6
<1>. QED  BY <1>1, <1>7, <1>8, SideStep DEF GetItemWithRevision

LEMMA BeginsStep ==
  ASSUME VaultCore, NEW s \in Sessions, BeginsWrite(s)
  PROVE  VaultCore'
<1>1. PICK x \in Call : x # None /\ WriteFits(x) /\ call' = [call EXCEPT ![s] = x]
  BY BeginsFits
<1>2. /\ live.root # None /\ bodies' \in Nat
      /\ UNCHANGED <<live, copy, session, view, plan, staged, minted, installs, stray>>
  BY BeginsFits
<1>3. call \in [Sessions -> Call \cup {None}]
  BY DEF VaultCore, CoreTypes
<1>4. CoreTypes'
  BY <1>1, <1>2, <1>3 DEF VaultCore, CoreTypes
<1>5. \A t \in Sessions : \A y \in {call'[t], plan'[t]} :
        y \in {call[t], plan[t], None} \/ WriteFits(y)
  BY <1>1, <1>2, <1>3
<1>. QED  BY <1>2, <1>4, <1>5, SideStep

LEMMA PrepareImportStep ==
  ASSUME VaultCore, NEW s \in Sessions, PrepareAttachmentImport(s)
  PROVE  VaultCore'
<1>1. PICK x \in Plan : x # None /\ WriteFits(x) /\ plan' = [plan EXCEPT ![s] = x]
  BY PreparesFits
<1>2. /\ live.root # None /\ minted' \in Nat
      /\ UNCHANGED <<live, copy, session, view, call, staged, bodies, installs, stray>>
  BY PreparesFits
<1>3. plan \in [Sessions -> Plan \cup {None}]
  BY DEF VaultCore, CoreTypes
<1>4. CoreTypes'
  BY <1>1, <1>2, <1>3 DEF VaultCore, CoreTypes
<1>5. \A t \in Sessions : \A y \in {call'[t], plan'[t]} :
        y \in {call[t], plan[t], None} \/ WriteFits(y)
  BY <1>1, <1>2, <1>3
<1>. QED  BY <1>2, <1>4, <1>5, SideStep

(* A plan that has been encrypted, or was handed to its transaction, writes *)
(* what it was prepared to write.                                           *)
LEMMA PlanWrites ==
  ASSUME VaultCore, NEW s \in Sessions, plan[s] # None
  PROVE  /\ \A x \in {[plan[s] EXCEPT !.encrypted = TRUE]} : x \in Plan /\ x # None /\ WriteFits(x)
         /\ \A x \in {[write |-> plan[s].write, base |-> plan[s].base, era |-> plan[s].era]} :
              x \in Call /\ x # None /\ WriteFits(x)
<1>1. PICK y \in Plan : y = plan[s] /\ WriteFits(y)
  BY IdleSession
<1>2. PICK z : z = [y EXCEPT !.encrypted = TRUE]
  OBVIOUS
<1>3. PICK x : x = [write |-> y.write, base |-> y.base, era |-> y.era]
  OBVIOUS
<1>4. /\ z \in Plan /\ z.write = y.write /\ z.base = y.base /\ z.era = y.era
  BY <1>2 DEF Plan
<1>5. x \in Call /\ x.write = y.write /\ x.base = y.base /\ x.era = y.era
  BY <1>3 DEF Plan, Call
<1>6. WriteFits(z) /\ WriteFits(x)
  BY <1>1, <1>4, <1>5 DEF WriteFits
<1>. QED  BY <1>1, <1>2, <1>3, <1>4, <1>5, <1>6, NoSessionAssumption

LEMMA EncryptSourceStep ==
  ASSUME VaultCore, NEW s \in Sessions, EncryptSource(s)
  PROVE  VaultCore'
<1>1. plan[s] # None /\ live.root # None
  BY IdleSession DEF EncryptSource
<1>2. PICK x : x = [plan[s] EXCEPT !.encrypted = TRUE]
  OBVIOUS
<1>3. x \in Plan /\ WriteFits(x)
  BY <1>1, <1>2, PlanWrites
<1>4. plan' = [plan EXCEPT ![s] = x] /\ plan \in [Sessions -> Plan \cup {None}]
  BY <1>2 DEF EncryptSource, VaultCore, CoreTypes
<1>5. CoreTypes'
  BY <1>3, <1>4 DEF EncryptSource, VaultCore, CoreTypes
<1>6. UNCHANGED <<live, copy, session, view, call, staged, installs, stray>>
  BY DEF EncryptSource
<1>7. \A t \in Sessions : \A y \in {call'[t], plan'[t]} :
        y \in {call[t], plan[t], None} \/ WriteFits(y)
  BY <1>3, <1>4, <1>6
<1>. QED  BY <1>1, <1>5, <1>6, <1>7, SideStep

LEMMA DropPlanStep ==
  ASSUME VaultCore, NEW s \in Sessions, DropPlan(s)
  PROVE  VaultCore'
<1>1. plan[s] # None /\ live.root # None
  BY IdleSession DEF DropPlan
<1>2. CoreTypes'
  BY DEF DropPlan, VaultCore, CoreTypes
<1>3. \A t \in Sessions : plan'[t] \in {plan[t], None}
  BY DEF DropPlan, VaultCore, CoreTypes
<1>4. UNCHANGED <<live, copy, session, view, call, staged, installs, stray>>
  BY DEF DropPlan
<1>. QED  BY <1>1, <1>2, <1>3, <1>4, SideStep

LEMMA CommitImportStep ==
  ASSUME VaultCore, NEW s \in Sessions, CommitAttachmentImport(s)
  PROVE  VaultCore'
<1>1. plan[s] # None /\ live.root # None
  BY IdleSession DEF CommitAttachmentImport
<1>2. PICK x : x = [write |-> plan[s].write, base |-> plan[s].base, era |-> plan[s].era]
  OBVIOUS
<1>3. x \in Call /\ WriteFits(x)
  BY <1>1, <1>2, PlanWrites
<1>4. /\ call' = [call EXCEPT ![s] = x] /\ call \in [Sessions -> Call \cup {None}]
      /\ plan' = [plan EXCEPT ![s] = None] /\ plan \in [Sessions -> Plan \cup {None}]
  BY <1>2 DEF CommitAttachmentImport, VaultCore, CoreTypes
<1>5. UNCHANGED <<live, copy, session, view, staged, bodies, minted, installs, stray>>
  BY DEF CommitAttachmentImport
<1>6. CoreTypes'
  BY <1>3, <1>4, <1>5 DEF VaultCore, CoreTypes
<1>7. \A t \in Sessions : \A y \in {call'[t], plan'[t]} :
        y \in {call[t], plan[t], None} \/ WriteFits(y)
  BY <1>3, <1>4
<1>. QED  BY <1>1, <1>5, <1>6, <1>7, SideStep

-----------------------------------------------------------------------------
(* The steps that write to the database.                                    *)

(* What a database must be to be the next one.                              *)
LEMMA LiveTyped ==
  ASSUME CoreTypes, NEW d, IsDatabase(d), live' = d,
         UNCHANGED <<copy, view, plan, staged, minted, installs>>,
         session' \in [Sessions -> Session \cup {None}], call' \in [Sessions -> Call \cup {None}],
         bodies' \in Nat, stray' \in BOOLEAN
  PROVE  CoreTypes'
BY DEF CoreTypes

LEMMA CreateStep ==
  ASSUME VaultCore, NEW s \in Sessions, NEW p \in Passphrases, NEW k \in Keys, Create(s, p, k)
  PROVE  VaultCore'
<1>1. /\ live = Blank /\ \A t \in Sessions : session[t] = None /\ call[t] = None
      /\ live' = InitializeRootWrap(live, k, p) /\ Opened(s, k)
      /\ UNCHANGED <<copy, view, plan, call, staged, bodies, minted, installs, stray>>
  BY DEF Create, VaultCore, NothingBeforeRoot
<1>2. PICK d : d = ReplaceRootWrap(Blank, k, p)
  OBVIOUS
<1>3. /\ IsDatabase(d) /\ live' = d /\ d.root # None /\ d.root.key = k
      /\ d.kit = Blank.kit /\ d.items = Blank.items /\ d.history = Blank.history
      /\ d.files = Blank.files
  BY <1>1, <1>2, BlankDatabase, RewrappedDatabase
<1>4. /\ session' \in [Sessions -> Session \cup {None}]
      /\ session'[s].key = k /\ session'[s].era = installs
      /\ \A t \in Sessions \ {s} : session'[t] = None
  BY <1>1, OpenedTyped DEF VaultCore
<1>5. CoreTypes'
  BY <1>1, <1>3, <1>4, LiveTyped DEF VaultCore, CoreTypes
<1>6. ItemsMove
  BY <1>1, <1>3 DEF ItemsMove
<1>7. Clean(d, k) /\ d.kit = None
  BY <1>3, BlankDatabase, CleanContents DEF Blank
<1>8. StoredClean'
  BY <1>3, <1>7 DEF StoredClean
<1>9. SessionKeys'
  BY <1>3, <1>4 DEF SessionKeys
<1>10. \A t \in Sessions : session'[t] \in {session[t], None} \/ session'[t].era = installs
  BY <1>4
<1>. QED  BY <1>1, <1>3, <1>5, <1>6, <1>8, <1>9, <1>10, LiveStep

(* A write to the secrets by a session whose key is the vault's.            *)
LEMMA SecretsStep ==
  ASSUME VaultCore, NEW s \in Sessions, session[s] # None,
         NEW d, IsDatabase(d), live' = d,
         d.items = live.items, d.history = live.history, d.files = live.files, d.root # None,
         session[s].key = live.root.key =>
           d.root.key = live.root.key /\ d.kit \in {live.kit, live.root.key},
         stray' = (stray \/ session[s].key # live.root.key),
         UNCHANGED <<copy, session, view, plan, call, staged, bodies, minted, installs>>
  PROVE  VaultCore'
<1>1. CoreTypes'
  BY LiveTyped DEF VaultCore, CoreTypes
<1>2. live.root # None /\ ItemsMove
  BY IdleSession DEF ItemsMove
<1>3. ASSUME ~stray'
      PROVE  /\ ~stray /\ d.root.key = live.root.key
             /\ Clean(d, d.root.key) /\ d.kit \in {None, d.root.key}
  <2>1. ~stray /\ session[s].key = live.root.key
    BY <1>3
  <2>2. Clean(live, live.root.key) /\ live.kit \in {None, live.root.key}
    BY <1>2, <2>1 DEF VaultCore, StoredClean
  <2>3. Clean(d, live.root.key)
    BY <2>2, CleanContents
  <2>. QED  BY <2>1, <2>2, <2>3
<1>4. StoredClean'
  BY <1>3 DEF StoredClean
<1>5. SessionKeys'
  BY <1>3 DEF VaultCore, SessionKeys
<1>6. stray => stray'
  OBVIOUS
<1>. QED  BY <1>1, <1>2, <1>4, <1>5, <1>6, LiveStep

LEMMA ChangePassphraseStep ==
  ASSUME VaultCore, NEW s \in Sessions, NEW p \in Passphrases, ChangePassphrase(s, p)
  PROVE  VaultCore'
<1>1. session[s] # None /\ IsDatabase(live)
  BY DEF ChangePassphrase, Idle, VaultCore, CoreTypes
<1>2. PICK k \in Keys : k = session[s].key
  BY <1>1, IdleSession
<1>3. PICK d : d = ReplaceRootWrap(live, k, p)
  OBVIOUS
<1>4. /\ IsDatabase(d) /\ d.root # None /\ d.root.key = k
      /\ d.kit = live.kit /\ d.items = live.items /\ d.history = live.history /\ d.files = live.files
  BY <1>1, <1>3, RewrappedDatabase
<1>5. /\ live' = d /\ stray' = (stray \/ k # live.root.key)
      /\ UNCHANGED <<copy, session, view, plan, call, staged, bodies, minted, installs>>
  BY <1>2, <1>3 DEF ChangePassphrase
<1>. QED  BY <1>1, <1>2, <1>4, <1>5, SecretsStep

LEMMA InstallRecoveryKitStep ==
  ASSUME VaultCore, NEW s \in Sessions, InstallRecoveryKit(s)
  PROVE  VaultCore'
<1>1. session[s] # None /\ IsDatabase(live)
  BY DEF InstallRecoveryKit, Idle, VaultCore, CoreTypes
<1>2. PICK k \in Keys : k = session[s].key
  BY <1>1, IdleSession
<1>3. PICK d : d = StoreRecoveryWrap(live, k)
  OBVIOUS
<1>4. /\ IsDatabase(d) /\ d.kit = k
      /\ d.root = live.root /\ d.items = live.items /\ d.history = live.history /\ d.files = live.files
  BY <1>1, <1>3, KitStoredDatabase
<1>5. /\ live' = d /\ stray' = (stray \/ k # live.root.key)
      /\ UNCHANGED <<copy, session, view, plan, call, staged, bodies, minted, installs>>
  BY <1>2, <1>3 DEF InstallRecoveryKit
<1>6. live.root # None
  BY <1>1, IdleSession
<1>. QED  BY <1>1, <1>2, <1>4, <1>5, <1>6, SecretsStep

(* A write to the contents under the key of the vault.                      *)
LEMMA ContentsStep ==
  ASSUME VaultCore, CoreTypes', NEW d, live' = d, d.root = live.root, d.kit = live.kit,
         live.root # None, ItemsMove, stray => stray',
         ~stray' /\ Clean(live, live.root.key) => Clean(d, live.root.key),
         UNCHANGED <<copy, session, view, plan, staged, installs>>,
         \A s \in Sessions : call'[s] \in {call[s], None}
  PROVE  VaultCore'
<1>1. StoredClean'
  BY DEF VaultCore, StoredClean
<1>2. SessionKeys'
  BY DEF VaultCore, SessionKeys
<1>. QED  BY <1>1, <1>2, LiveStep

LEMMA PutItemStep ==
  ASSUME VaultCore, NEW s \in Sessions, NEW i \in Items, PutItem(s, i)
  PROVE  VaultCore'
<1>1. session[s] # None /\ IsDatabase(live) /\ CanInsertItem(live, i) /\ live.root # None
  BY IdleSession DEF PutItem, Idle, VaultCore, CoreTypes
<1>2. PICK k \in Keys : k = session[s].key
  BY <1>1, IdleSession
<1>3. PICK body \in Nat : body = bodies'
  BY DEF PutItem, VaultCore, CoreTypes
<1>4. PICK row : row = EncryptItemState(k, 1, "active", body, {})
  OBVIOUS
<1>5. row \in Row /\ row.key = k /\ row.files = {}
  BY <1>4, SealedRow
<1>6. PICK d : d = InsertItem(live, i, row)
  OBVIOUS
<1>7. /\ IsDatabase(d) /\ d.root = live.root /\ d.kit = live.kit
      /\ d.items = [live.items EXCEPT ![i] = row]
      /\ \A key : Clean(live, key) /\ k = key => Clean(d, key)
  BY <1>1, <1>5, <1>6, InsertedClean
<1>8. /\ live' = d /\ stray' = (stray \/ k # live.root.key)
      /\ UNCHANGED <<copy, session, view, plan, call, staged, minted, installs>>
  BY <1>2, <1>3, <1>4, <1>6 DEF PutItem
<1>9. CoreTypes'
  BY <1>3, <1>7, <1>8, LiveTyped DEF VaultCore, CoreTypes
<1>10. ItemsMove
  BY <1>1, <1>7, <1>8, DatabaseParts DEF ItemsMove, CanInsertItem, Tables
<1>11. stray => stray'
  BY <1>8
<1>12. ~stray' /\ Clean(live, live.root.key) => Clean(d, live.root.key)
  BY <1>7, <1>8
<1>. QED  BY <1>1, <1>7, <1>8, <1>9, <1>10, <1>11, <1>12, ContentsStep

(* A fenced commit of a call is one that fits the row it replaces.          *)
LEMMA FencedCallFits ==
  ASSUME VaultCore, NEW s \in Sessions, call[s] # None,
         NEW x, x = call[s], NEW w, w = x.write, CanCommit(live, w)
  PROVE  /\ w \in Write /\ x.base \in View /\ x.base.item = w.item
         /\ x.base.row.revision = w.expected /\ Seen(x.base)
         /\ w.row.revision = w.expected + 1
         /\ ~Unfenced(w.row.key, x.era) => Fitting(live, w, live.root.key)
<1>1. x \in Call /\ WriteFits(x)
  BY IdleSession
<1>2. w \in Write /\ x.base \in View
  BY <1>1 DEF Call
<1>3. live.items[w.item].revision = w.expected
  BY CanCommitCurrent
<1>. QED  BY <1>1, <1>2, <1>3 DEF WriteFits, Unfenced, Fitting

LEMMA CommitCallStep ==
  ASSUME VaultCore, NEW s \in Sessions, CommitCall(s)
  PROVE  VaultCore'
<1>1. PICK x : x = call[s]
  OBVIOUS
<1>2. PICK w : w = x.write
  OBVIOUS
<1>3. /\ x # None /\ live.root # None /\ IsDatabase(live)
      /\ call' = [call EXCEPT ![s] = None]
      /\ UNCHANGED <<copy, session, view, plan, staged, bodies, minted, installs>>
  BY <1>1, IdleSession DEF CommitCall, VaultCore, CoreTypes
<1>4. /\ call' \in [Sessions -> Call \cup {None}]
      /\ \A t \in Sessions : call'[t] \in {call[t], None}
  BY <1>3 DEF VaultCore, CoreTypes
<1>5. CASE CanCommit(live, w)
  <2>1. PICK d : d = Committed(live, w)
    OBVIOUS
  <2>2. live' = d /\ stray' = (stray \/ Unfenced(w.row.key, x.era))
    BY <1>1, <1>2, <1>5, <2>1 DEF CommitCall
  <2>3. /\ w \in Write /\ w.row.revision = w.expected + 1
        /\ ~Unfenced(w.row.key, x.era) => Fitting(live, w, live.root.key)
    BY <1>1, <1>2, <1>3, <1>5, FencedCallFits
  <2>4. /\ IsDatabase(d) /\ d.root = live.root /\ d.kit = live.kit
        /\ d.items = [live.items EXCEPT ![w.item] = w.row]
    BY <1>3, <1>5, <2>1, <2>3, CommittedDatabase
  <2>5. stray' \in BOOLEAN /\ (stray => stray')
    BY <2>2 DEF VaultCore, CoreTypes
  <2>6. CoreTypes'
    BY <1>3, <1>4, <2>2, <2>4, <2>5, LiveTyped DEF VaultCore, CoreTypes
  <2>7. ItemsMove
    <3>1. /\ live.items[w.item].revision = w.expected /\ w.expected \in Nat /\ w.item \in Items
          /\ w.row # None
      BY <1>5, <2>3, CanCommitCurrent, WriteFields, NoneAssumption
    <3>2. live.items \in [Items -> Row \cup {None}]
      BY <1>3, DatabaseParts DEF Tables
    <3>3. live'.items[w.item] = w.row /\ \A i \in Items \ {w.item} : live'.items[i] = live.items[i]
      BY <2>2, <2>4, <3>1, <3>2
    <3>4. w.row.revision > live.items[w.item].revision
      BY <2>3, <3>1
    <3>. QED  BY <3>1, <3>3, <3>4 DEF ItemsMove
  <2>8. ~stray' /\ Clean(live, live.root.key) => Clean(d, live.root.key)
    BY <1>3, <1>5, <2>1, <2>2, <2>3, CommittedClean
  <2>. QED  BY <1>3, <1>4, <2>2, <2>4, <2>5, <2>6, <2>7, <2>8, ContentsStep
<1>6. CASE ~CanCommit(live, w)
  <2>1. UNCHANGED <<live, stray>>
    BY <1>1, <1>2, <1>6 DEF CommitCall
  <2>2. CoreTypes'
    BY <1>3, <1>4, <2>1 DEF VaultCore, CoreTypes
  <2>3. \A t \in Sessions : \A y \in {call'[t], plan'[t]} :
          y \in {call[t], plan[t], None} \/ WriteFits(y)
    BY <1>3, <1>4
  <2>. QED  BY <1>3, <2>1, <2>2, <2>3, SideStep
<1>. QED  BY <1>5, <1>6

-----------------------------------------------------------------------------
(* The steps of backups and restores.                                       *)

LEMMA BackupStep ==
  ASSUME VaultCore, NEW s \in Sessions, BackupDatabaseTo(s)
  PROVE  VaultCore'
<1>1. /\ live.root # None /\ copy' = live
      /\ UNCHANGED <<live, session, view, plan, call, staged, bodies, minted, installs, stray>>
  BY IdleSession DEF BackupDatabaseTo, Idle
<1>2. CoreTypes'
  BY <1>1 DEF VaultCore, CoreTypes
<1>3. CoreRestore'
  <2>1. ~stray => live.kit \in {None, live.root.key}
    BY <1>1 DEF VaultCore, StoredClean
  <2>. QED  BY <1>1, <2>1 DEF VaultCore, CoreRestore
<1>. QED  BY <1>1, <1>2, <1>3, CopyStep

(* What a preparation puts down about the candidate it has validated.       *)
LEMMA PreparedStep ==
  ASSUME VaultCore, NEW k \in Keys, Prepared(k), Validates(copy, k), ~stray => k = copy.root.key,
         UNCHANGED <<live, copy, session, view, plan, call, bodies, minted, installs, stray>>
  PROVE  VaultCore'
<1>1. PICK r : r = [key |-> k, seen |-> copy, print |-> None]
  OBVIOUS
<1>2. copy \in Tables /\ copy.root # None
  BY DatabaseParts DEF VaultCore, CoreTypes, NothingBeforeRoot
<1>3. r \in Restore /\ staged' = r
  BY <1>1, <1>2 DEF Restore, Prepared
<1>4. CoreTypes'
  BY <1>3 DEF VaultCore, CoreTypes
<1>5. r.seen = copy /\ r.key = k /\ r.print = None
  BY <1>1
<1>6. CoreRestore'
  BY <1>2, <1>3, <1>5 DEF VaultCore, CoreRestore
<1>. QED  BY <1>2, <1>4, <1>6, CopyStep

LEMMA PrepareRestoreStep ==
  ASSUME VaultCore, NEW p \in Passphrases, PrepareRestore(p)
  PROVE  VaultCore'
<1>1. copy.root # None /\ copy \in Tables
  BY DatabaseParts DEF VaultCore, CoreTypes, NothingBeforeRoot
<1>2. PICK k \in Keys : k = copy.root.key
  BY <1>1 DEF Tables, Wrap
<1>. QED  BY <1>2, PreparedStep DEF PrepareRestore

LEMMA PrepareWithKitStep ==
  ASSUME VaultCore, PrepareRestoreWithRecoveryKit
  PROVE  VaultCore'
<1>1. copy.kit # None /\ copy \in Tables
  BY DatabaseParts DEF VaultCore, CoreTypes, PrepareRestoreWithRecoveryKit
<1>2. PICK k \in Keys : k = copy.kit
  BY <1>1 DEF Tables
<1>3. ~stray => k = copy.root.key
  BY <1>1, <1>2 DEF VaultCore, CoreRestore
<1>. QED  BY <1>2, <1>3, PreparedStep DEF PrepareRestoreWithRecoveryKit

LEMMA RestoreFields ==
  ASSUME VaultCore, staged # None
  PROVE  /\ staged \in Restore /\ staged.key \in Keys /\ staged.seen \in Tables
         /\ staged.print \in Tables \cup {None}
         /\ copy \in Tables /\ copy # None /\ copy.root # None
         /\ staged = [key |-> staged.key, seen |-> staged.seen, print |-> staged.print]
<1>1. staged \in Restore /\ copy \in Tables /\ copy.root # None
  BY DatabaseParts DEF VaultCore, CoreTypes, NothingBeforeRoot
<1>. QED  BY <1>1, NoneAssumption DEF Restore

LEMMA FingerprintStep ==
  ASSUME VaultCore, FingerprintSource
  PROVE  VaultCore'
<1>1. /\ staged # None /\ stray' = (stray \/ staged.seen # copy)
      /\ staged' = [staged EXCEPT !.print = copy]
      /\ UNCHANGED <<live, copy, session, view, plan, call, bodies, minted, installs>>
  BY DEF FingerprintSource
<1>2. PICK k, seen : k = staged.key /\ seen = staged.seen
  OBVIOUS
<1>3. k \in Keys /\ seen \in Tables /\ copy \in Tables /\ copy.root # None
  BY <1>1, <1>2, RestoreFields
<1>4. PICK r : r = [key |-> k, seen |-> seen, print |-> copy]
  OBVIOUS
<1>5. staged' = r /\ r \in Restore
  BY <1>1, <1>2, <1>3, <1>4, RestoreFields DEF Restore
<1>6. CoreTypes'
  BY <1>1, <1>5 DEF VaultCore, CoreTypes
<1>7. CoreRestore'
  <2>1. SUFFICES ASSUME ~stray'
                 PROVE  /\ copy.kit \in {None, copy.root.key}
                        /\ Validates(seen, k) /\ seen.root # None /\ k = seen.root.key
                        /\ seen.kit \in {None, k}
                        /\ copy \in {None, seen}
    BY <1>1, <1>4, <1>5 DEF CoreRestore
  <2>2. ~stray /\ seen = copy
    BY <1>1, <1>2, <2>1
  <2>. QED  BY <1>1, <1>2, <2>2 DEF VaultCore, CoreRestore
<1>. QED  BY <1>1, <1>3, <1>6, <1>7, CopyStep

(* An unfenced restore aside, a candidate that still has its print is the   *)
(* one that was validated.                                                  *)
LEMMA MatchingCandidate ==
  ASSUME VaultCore, Matches, ~stray
  PROVE  /\ staged.seen = copy /\ Validates(copy, staged.key)
         /\ staged.key = copy.root.key /\ copy.kit \in {None, staged.key}
<1>1. staged # None /\ staged.print = copy
  BY DEF Matches
<1>2. copy # None
  BY <1>1, RestoreFields
<1>. QED  BY <1>1, <1>2 DEF VaultCore, CoreRestore

(* A validation looks at the contents and not at the secrets.              *)
LEMMA ValidatesContents ==
  ASSUME NEW c, NEW d, NEW k, IsDatabase(c), IsDatabase(d),
         c.items = d.items, c.history = d.history, c.files = d.files
  PROVE  Validates(c, k) <=> Validates(d, k)
<1>1. WithChunks(c) = WithChunks(d)
  BY DEF WithChunks, Stored
<1>2. Clean(c, k) <=> Clean(d, k)
  BY CleanContents
<1>3. WithinBudget(c) <=> WithinBudget(d)
  BY <1>1 DEF WithinBudget
<1>4. ItemsListed(c) <=> ItemsListed(d)
  BY DEF ItemsListed, Live
<1>. QED  BY <1>2, <1>3, <1>4, CleanValidates

LEMMA RewrapStep ==
  ASSUME VaultCore, NEW p \in Passphrases, RewrapCandidate(p)
  PROVE  VaultCore'
<1>1. /\ Matches /\ copy' = Rewrapped(copy, staged.key, p)
      /\ staged' = [key |-> staged.key, seen |-> copy', print |-> copy']
      /\ UNCHANGED <<live, session, view, plan, call, bodies, minted, installs, stray>>
  BY DEF RewrapCandidate
<1>2. staged # None
  BY <1>1 DEF Matches
<1>3. PICK k \in Keys : k = staged.key
  BY <1>2, RestoreFields
<1>4. PICK d : d = ReplaceRootWrap(copy, k, p)
  OBVIOUS
<1>5. /\ IsDatabase(d) /\ copy' = d /\ d.root # None /\ d.root.key = k
      /\ d.kit = copy.kit /\ d.items = copy.items /\ d.history = copy.history
      /\ d.files = copy.files /\ IsDatabase(copy)
  BY <1>1, <1>3, <1>4, RewrappedDatabase DEF VaultCore, CoreTypes
<1>6. PICK r : r = [key |-> k, seen |-> d, print |-> d]
  OBVIOUS
<1>7. staged' = r
  BY <1>1, <1>3, <1>5, <1>6
<1>8. r \in Restore
  <2>1. d \in Tables
    BY <1>5, DatabaseParts
  <2>. QED  BY <1>6, <2>1 DEF Restore
<1>9. CoreTypes'
  BY <1>1, <1>5, <1>7, <1>8 DEF VaultCore, CoreTypes
<1>10. CoreRestore'
  <2>1. SUFFICES ASSUME ~stray
                 PROVE  d.kit \in {None, k} /\ Validates(d, k)
    <3>1. r.seen = d /\ r.key = k /\ r.print = d
      BY <1>6
    <3>. QED  BY <1>1, <1>5, <1>7, <3>1 DEF CoreRestore
  <2>2. Validates(copy, k) /\ copy.kit \in {None, k}
    BY <1>1, <1>3, <2>1, MatchingCandidate
  <2>. QED  BY <1>5, <2>2, ValidatesContents
<1>. QED  BY <1>1, <1>5, <1>9, <1>10, CopyStep

LEMMA DropRestoreStep ==
  ASSUME VaultCore, DropRestore
  PROVE  VaultCore'
<1>1. /\ staged' = None
      /\ UNCHANGED <<live, copy, session, view, plan, call, bodies, minted, installs, stray>>
  BY DEF DropRestore
<1>2. CoreTypes' /\ CoreRestore' /\ copy.root # None
  BY <1>1 DEF VaultCore, CoreTypes, CoreRestore, NothingBeforeRoot
<1>. QED  BY <1>1, <1>2, CopyStep

(* An install replaces the whole database by the candidate.                 *)
LEMMA InstallStep ==
  ASSUME VaultCore, Replaces,
         \A s \in Sessions :
           \/ session'[s] = session[s]
           \/ session'[s].key = staged.key /\ session'[s].era = installs',
         session' \in [Sessions -> Session \cup {None}]
  PROVE  VaultCore'
<1>1. /\ Matches /\ live' = ReplaceFromDatabase(live, copy)
      /\ installs' = installs + 1 /\ staged' = None
      /\ UNCHANGED <<copy, view, plan, call, bodies, minted, stray>>
  BY DEF Replaces
<1>2. IsDatabase(copy) /\ IsDatabase(live) /\ installs \in Nat /\ copy.root # None
  BY DEF VaultCore, CoreTypes, NothingBeforeRoot
<1>3. live' = copy
  BY <1>1, <1>2, ReplacedDatabase
<1>4. CoreTypes'
  BY <1>1, <1>2, <1>3 DEF VaultCore, CoreTypes
<1>5. CoreReads'
  <2>1. \A s \in Sessions : \A v \in {view'[s]} : v \in {view[s], None} \/ Seen(v)
    BY <1>1
  <2>2. \A s \in Sessions : \A x \in {call'[s], plan'[s]} :
          x \in {call[s], plan[s], None} \/ WriteFits(x)
    BY <1>1
  <2>. QED  BY <1>1, <1>4, <2>1, <2>2, ReadsStay
<1>6. NothingBeforeRoot'
  BY <1>1, <1>2, <1>3 DEF NothingBeforeRoot
<1>7. ASSUME ~stray
      PROVE  /\ Clean(copy, copy.root.key) /\ copy.kit \in {None, copy.root.key}
             /\ staged.key = copy.root.key
  <2>1. Validates(copy, copy.root.key) /\ copy.kit \in {None, copy.root.key}
        /\ staged.key = copy.root.key
    BY <1>1, <1>7, MatchingCandidate
  <2>. QED  BY <1>2, <2>1, CleanValidates
<1>8. StoredClean'
  BY <1>1, <1>3, <1>7 DEF StoredClean
<1>9. SessionKeys'
  <2>1. \A s \in Sessions : session[s] # None => session[s].era # installs'
    <3>1. ASSUME NEW s \in Sessions, session[s] # None PROVE session[s].era # installs'
      <4>1. session[s].era \in Nat /\ session[s].era <= installs
        BY <3>1, IdleSession
      <4>. QED  BY <1>1, <1>2, <4>1
    <3>. QED  BY <3>1
  <2>. QED  BY <1>1, <1>3, <1>7, <2>1 DEF SessionKeys
<1>10. CoreRestore'
  BY <1>1, <1>7 DEF CoreRestore, VaultCore
<1>. QED  BY <1>4, <1>5, <1>6, <1>8, <1>9, <1>10 DEF VaultCore

LEMMA InstallSteps ==
  ASSUME VaultCore, LockedInstall \/ \E s \in Sessions : CommitPreparedRestore(s)
  PROVE  VaultCore'
<1>1. session \in [Sessions -> Session \cup {None}] /\ installs \in Nat
  BY DEF VaultCore, CoreTypes
<1>2. CASE LockedInstall
  BY <1>1, <1>2, InstallStep DEF LockedInstall
<1>3. ASSUME NEW s \in Sessions, CommitPreparedRestore(s) PROVE VaultCore'
  <2>1. Replaces /\ installs' = installs + 1 /\ staged # None
    BY <1>3 DEF CommitPreparedRestore, Replaces, Matches
  <2>2. PICK x : x = [key |-> staged.key, era |-> installs + 1]
    OBVIOUS
  <2>3. x \in Session /\ x.key = staged.key /\ x.era = installs'
    <3>1. staged.key \in Keys /\ installs + 1 \in Nat
      BY <1>1, <2>1, RestoreFields
    <3>. QED  BY <2>1, <2>2, <3>1 DEF Session
  <2>4. session' = [session EXCEPT ![s] = x]
    BY <1>3, <2>1, <2>2 DEF CommitPreparedRestore
  <2>5. session' \in [Sessions -> Session \cup {None}]
    BY <1>1, <2>3, <2>4
  <2>6. \A t \in Sessions :
          \/ session'[t] = session[t]
          \/ session'[t].key = staged.key /\ session'[t].era = installs'
    BY <1>1, <2>3, <2>4
  <2>. QED  BY <2>1, <2>5, <2>6, InstallStep
<1>. QED  BY <1>2, <1>3

(* Every step.                                                              *)
LEMMA CoreStep ==
  ASSUME VaultCore, [Next]_vars
  PROVE  VaultCore'
<1>1. CASE UNCHANGED vars
  <2>1. UNCHANGED <<live, copy, session, view, plan, call, staged, bodies, minted, installs, stray>>
    BY <1>1 DEF vars
  <2>2. CoreTypes' /\ CoreRestore' /\ copy.root # None
    BY <2>1 DEF VaultCore, CoreTypes, CoreRestore, NothingBeforeRoot
  <2>. QED  BY <2>1, <2>2, CopyStep
<1>2. ASSUME NEW s \in Sessions, NEW p \in Passphrases, NEW k \in Keys, Create(s, p, k)
      PROVE  VaultCore'
  BY <1>2, CreateStep
<1>3. ASSUME NEW s \in Sessions, NEW p \in Passphrases, Unlock(s, p) \/ ChangePassphrase(s, p)
      PROVE  VaultCore'
  BY <1>3, UnlockStep, ChangePassphraseStep
<1>4. ASSUME NEW s \in Sessions,
             UnlockWithRecoveryKit(s) \/ Lock(s) \/ InstallRecoveryKit(s) \/ BackupDatabaseTo(s)
      PROVE  VaultCore'
  BY <1>4, UnlockWithRecoveryKitStep, LockStep, InstallRecoveryKitStep, BackupStep
<1>5. ASSUME NEW s \in Sessions, NEW i \in Items, GetItemWithRevision(s, i) \/ PutItem(s, i)
      PROVE  VaultCore'
  BY <1>5, GetItemStep, PutItemStep
<1>6. ASSUME NEW s \in Sessions, BeginsWrite(s) \/ CommitCall(s)
      PROVE  VaultCore'
  BY <1>6, BeginsStep, CommitCallStep
<1>7. ASSUME NEW s \in Sessions,
             PrepareAttachmentImport(s) \/ EncryptSource(s) \/ DropPlan(s) \/ CommitAttachmentImport(s)
      PROVE  VaultCore'
  BY <1>7, PrepareImportStep, EncryptSourceStep, DropPlanStep, CommitImportStep
<1>8. ASSUME NEW p \in Passphrases, PrepareRestore(p) \/ RewrapCandidate(p)
      PROVE  VaultCore'
  BY <1>8, PrepareRestoreStep, RewrapStep
<1>9. CASE PrepareRestoreWithRecoveryKit \/ FingerprintSource \/ DropRestore
  BY <1>9, PrepareWithKitStep, FingerprintStep, DropRestoreStep
<1>10. CASE LockedInstall \/ \E s \in Sessions : CommitPreparedRestore(s)
  BY <1>10, InstallSteps
<1>. QED  BY <1>1, <1>2, <1>3, <1>4, <1>5, <1>6, <1>7, <1>8, <1>9, <1>10 DEF Next, BeginsWrite

(* Whatever sessions interleave, files that only fenced writes and installs *)
(* have touched are valid, whoever may write to the database reads all of   *)
(* it, and what was read, sealed and prepared for it still fits.            *)
THEOREM VaultInvariant == Spec => []VaultInv
<1>1. Init => VaultCore
  BY CoreInit
<1>2. VaultCore /\ [Next]_vars => VaultCore'
  BY CoreStep
<1>. QED  BY <1>1, <1>2, CoreIsVaultInv, PTL DEF Spec

LEMMA VaultCoreInvariant == Spec => []VaultCore
<1>1. Init => VaultCore
  BY CoreInit
<1>2. VaultCore /\ [Next]_vars => VaultCore'
  BY CoreStep
<1>. QED  BY <1>1, <1>2, PTL DEF Spec

-----------------------------------------------------------------------------
(* What a transaction or an install does to what was there.                 *)

(* Only the commit of a call ends it.                                       *)
LEMMA EndsByCommit ==
  ASSUME VaultCore, Next, NEW s \in Sessions, call[s] # None, call'[s] = None
  PROVE  CommitCall(s)
<1>1. call \in [Sessions -> Call \cup {None}]
  BY DEF VaultCore, CoreTypes
<1>2. ASSUME NEW t \in Sessions, BeginsWrite(t) PROVE FALSE
  <2>1. PICK x \in Call : x # None /\ call' = [call EXCEPT ![t] = x]
    BY <1>2, BeginsFits
  <2>. QED  BY <1>1, <2>1
<1>3. ASSUME NEW t \in Sessions, CommitAttachmentImport(t) PROVE FALSE
  <2>1. call[t] = None /\ plan[t] # None
    BY <1>3 DEF CommitAttachmentImport, Idle
  <2>. QED  BY <1>1, <1>3, <2>1 DEF CommitAttachmentImport
<1>4. ASSUME NEW t \in Sessions, CommitCall(t) PROVE CommitCall(s)
  <2>1. call' = [call EXCEPT ![t] = None]
    BY <1>4 DEF CommitCall
  <2>2. t = s
    BY <1>1, <2>1
  <2>. QED  BY <1>4, <2>2
<1>5. call' # call
  OBVIOUS
<1>. QED  BY <1>2, <1>3, <1>4, <1>5
          DEF Next, BeginsWrite, Create, Unlock, ChangePassphrase, UnlockWithRecoveryKit, Lock,
              GetItemWithRevision, PutItem, PrepareAttachmentImport, EncryptSource, DropPlan,
              InstallRecoveryKit, BackupDatabaseTo, CommitPreparedRestore, PrepareRestore,
              RewrapCandidate, PrepareRestoreWithRecoveryKit, FingerprintSource, DropRestore,
              LockedInstall, Replaces

(* What another session saved since the user looked is never overwritten:   *)
(* the transaction compares the revision, and a revision means one row.     *)
THEOREM NothingIsOverwritten == Spec => NoLostUpdate
<1>1. ASSUME VaultCore, [Next]_vars
      PROVE  [\A s \in Sessions : Commits(s) /\ call[s].base.era = installs =>
                live.items[call[s].base.item] = call[s].base.row]_vars
  <2>. SUFFICES ASSUME Next, NEW s \in Sessions, Commits(s), call[s].base.era = installs
                PROVE  live.items[call[s].base.item] = call[s].base.row
    BY <1>1
  <2>1. CommitCall(s) /\ call[s] # None /\ live' # live
    BY <1>1, EndsByCommit DEF Commits
  <2>2. PICK x, w : x = call[s] /\ w = x.write
    OBVIOUS
  <2>3. CanCommit(live, w)
    BY <2>1, <2>2 DEF CommitCall
  <2>4. /\ x.base.item = w.item /\ x.base.row.revision = w.expected /\ Seen(x.base)
    BY <1>1, <2>1, <2>2, <2>3, FencedCallFits
  <2>5. live.items[w.item].revision = w.expected
    BY <2>3, CanCommitCurrent
  <2>. QED  BY <2>2, <2>4, <2>5 DEF Seen
<1>. QED  BY <1>1, VaultCoreInvariant, PTL DEF Spec, NoLostUpdate

(* Only installs count as installs, and what they put in place is what was  *)
(* validated.                                                               *)
THEOREM OnlyValidatedIsInstalled == Spec => InstallsWhatWasValidated
<1>1. ASSUME VaultCore, [Next]_vars
      PROVE  [installs' # installs /\ ~stray' =>
                /\ staged.seen = live' /\ Validates(live', staged.key)]_vars
  <2>. SUFFICES ASSUME Next, installs' # installs, ~stray'
                PROVE  staged.seen = live' /\ Validates(live', staged.key)
    BY <1>1
  <2>1. Replaces
    BY DEF Next, Create, Unlock, ChangePassphrase, UnlockWithRecoveryKit, Lock,
           GetItemWithRevision, PutItem, PrepareAttachmentImport, EncryptSource, DropPlan,
           InstallRecoveryKit, BackupDatabaseTo, CommitPreparedRestore, PrepareRestore,
           RewrapCandidate, PrepareRestoreWithRecoveryKit, FingerprintSource, DropRestore,
           LockedInstall, UpdateItemCall, TrashItem, RestoreItem, PurgeItem, DeleteAttachment,
           Begun, CommitCall, CommitAttachmentImport
  <2>2. Matches /\ live' = ReplaceFromDatabase(live, copy) /\ stray' = stray
    BY <2>1 DEF Replaces
  <2>3. live' = copy
    BY <1>1, <2>2, ReplacedDatabase DEF VaultCore, CoreTypes
  <2>4. staged.seen = copy /\ Validates(copy, staged.key)
    BY <1>1, <2>2, MatchingCandidate
  <2>. QED  BY <2>3, <2>4
<1>. QED  BY <1>1, VaultCoreInvariant, PTL DEF Spec, InstallsWhatWasValidated

SameContents ==
  live'.items = live.items /\ live'.history = live.history /\ live'.files = live.files

(* The steps that change the contents of the database.                      *)
LEMMA ContentsChange ==
  ASSUME VaultCore, Next
  PROVE  \/ SameContents
         \/ Replaces
         \/ \E s \in Sessions, i \in Items : PutItem(s, i)
         \/ \E s \in Sessions : CommitCall(s) /\ CanCommit(live, call[s].write)
<1>1. IsDatabase(live)
  BY DEF VaultCore, CoreTypes
<1>2. ASSUME NEW s \in Sessions, NEW p \in Passphrases, NEW k \in Keys, Create(s, p, k)
      PROVE  SameContents
  <2>1. PICK d : d = ReplaceRootWrap(live, k, p)
    OBVIOUS
  <2>2. /\ d = InitializeRootWrap(live, k, p)
        /\ d.items = live.items /\ d.history = live.history /\ d.files = live.files
    BY <1>1, <2>1, RewrappedDatabase
  <2>. QED  BY <1>2, <2>2 DEF Create, SameContents
<1>3. ASSUME NEW s \in Sessions, NEW p \in Passphrases, ChangePassphrase(s, p)
      PROVE  SameContents
  <2>1. session[s] # None
    BY <1>3 DEF ChangePassphrase, Idle
  <2>2. PICK k \in Keys : k = session[s].key
    BY <2>1, IdleSession
  <2>3. PICK d : d = ReplaceRootWrap(live, k, p)
    OBVIOUS
  <2>4. d.items = live.items /\ d.history = live.history /\ d.files = live.files
    BY <1>1, <2>3, RewrappedDatabase
  <2>. QED  BY <1>3, <2>2, <2>3, <2>4 DEF ChangePassphrase, SameContents
<1>4. ASSUME NEW s \in Sessions, InstallRecoveryKit(s)
      PROVE  SameContents
  <2>1. session[s] # None
    BY <1>4 DEF InstallRecoveryKit, Idle
  <2>2. PICK k \in Keys : k = session[s].key
    BY <2>1, IdleSession
  <2>3. PICK d : d = StoreRecoveryWrap(live, k)
    OBVIOUS
  <2>4. d.items = live.items /\ d.history = live.history /\ d.files = live.files
    BY <1>1, <2>3, KitStoredDatabase
  <2>. QED  BY <1>4, <2>2, <2>3, <2>4 DEF InstallRecoveryKit, SameContents
<1>5. live' = live => SameContents
  BY DEF SameContents
<1>6. ASSUME live' # live
      PROVE  \/ \E s \in Sessions, p \in Passphrases, k \in Keys : Create(s, p, k)
             \/ \E s \in Sessions, p \in Passphrases : ChangePassphrase(s, p)
             \/ \E s \in Sessions : InstallRecoveryKit(s)
             \/ Replaces
             \/ \E s \in Sessions, i \in Items : PutItem(s, i)
             \/ \E s \in Sessions : CommitCall(s) /\ CanCommit(live, call[s].write)
  BY <1>6 DEF Next, Unlock, UnlockWithRecoveryKit, Lock,
           GetItemWithRevision, PrepareAttachmentImport, EncryptSource, DropPlan,
           BackupDatabaseTo, CommitPreparedRestore, PrepareRestore,
           RewrapCandidate, PrepareRestoreWithRecoveryKit, FingerprintSource, DropRestore,
           LockedInstall, UpdateItemCall, TrashItem, RestoreItem, PurgeItem, DeleteAttachment,
           Begun, CommitCall, CommitAttachmentImport
<1>. QED  BY <1>2, <1>3, <1>4, <1>5, <1>6

(* What a fenced transaction does to the history of a clean database.       *)
LEMMA CommitKeepsNewest ==
  ASSUME NEW d, IsDatabase(d), NEW w \in Write, CanCommit(d, w), NEW k, Clean(d, k),
         Fitting(d, w, k), NEW c, c = Committed(d, w)
  PROVE  /\ \A i \in Live(d) :
              d.items[i].at = "active" /\ c.items[i].at = "active" =>
                {a.row : a \in {b \in c.history \ d.history : b.item = i}} =
                  {d.items[i]} \ {c.items[i]}
         /\ \A a \in d.history \ c.history :
              \/ c.items[a.item].at = "tombstone"
              \/ Cardinality({b \in c.history :
                     b.item = a.item /\ b.row.revision > a.row.revision}) = HistoryPerItem
              \/ Cardinality({b \in c.history : b.n > a.n}) = HistoryRows
<1>1. /\ IsDatabase(c) /\ c.items = [d.items EXCEPT ![w.item] = w.row]
      /\ c.history = NewHistory(d, w)
  BY CommittedDatabase
<1>2. /\ w.item \in Items /\ w.item \in Live(d) /\ c.items[w.item] = w.row
      /\ \A i \in Live(d) \ {w.item} : c.items[i] = d.items[i]
      /\ w.kind \in Kinds
  BY RefersAfter, WriteFields
<1>3. Fitting(d, w, k) /\ w.row.revision = w.expected + 1 /\ Continues(w, d.items[w.item])
  BY DEF Fitting
<1>4. /\ d.items[w.item] # w.row
      /\ \A i \in Live(d) : i \in Items
  <2>1. d.items[w.item].revision = w.expected /\ w.expected \in Nat
    BY CanCommitCurrent, WriteFields
  <2>. QED  BY <1>3, <2>1 DEF Live
<1>5. CASE w.kind = "update"
  <2>1. c.history = d.history
    BY <1>1, <1>5 DEF NewHistory
  <2>2. ~(d.items[w.item].at = "active" /\ c.items[w.item].at = "active")
    BY <1>2, <1>3, <1>5 DEF Continues
  <2>. QED  BY <1>2, <2>1, <2>2
<1>6. CASE w.kind = "purge"
  <2>1. c.history = {a \in d.history : a.item # w.item}
    BY <1>1, <1>6 DEF NewHistory
  <2>2. c.items[w.item].at = "tombstone"
    BY <1>2, <1>3, <1>6 DEF Continues
  <2>. QED  BY <1>2, <2>1, <2>2
<1>7. CASE w.kind \in {"edit", "attach", "detach"}
  <2>1. PICK e : e = ArchivedRow(d, w)
    OBVIOUS
  <2>2. /\ e.item = w.item /\ e.row = d.items[w.item]
        /\ e.row.revision = w.expected
    BY <2>1, CanCommitCurrent DEF ArchivedRow
  <2>3. /\ e \notin d.history /\ IsHistory(d.history) /\ IsHistory(d.history \cup {e})
        /\ \A a \in d.history : a.n < e.n /\ a.n \in Nat
        /\ e.n \in Nat
    <3>1. e \in Archived /\ e \notin d.history /\ IsHistory(d.history \cup {e})
          /\ \A a \in d.history : a.n < e.n
      BY <1>7, <2>1, ArchivingGrows
    <3>2. IsHistory(d.history)
      BY DatabaseParts
    <3>. QED  BY <3>1, <3>2, ArchivedFields DEF IsHistory
  <2>4. PICK g : g = d.history \cup {e}
    OBVIOUS
  <2>5. c.history = Pruned(g, w.item)
    BY <1>1, <1>7, <2>1, <2>4 DEF NewHistory
  <2>6. e \in c.history
    <3>1. \A a \in g : a.n <= e.n
      BY <2>3, <2>4
    <3>2. \A a \in g : a.item = e.item => a.row.revision <= e.row.revision
      <4>1. ASSUME NEW a \in d.history, a.item = e.item PROVE a.row.revision <= e.row.revision
        <5>1. a.row.revision < d.items[a.item].revision /\ a.row.revision \in Nat
          BY <2>3, ArchivedFields DEF Clean, KeptRow, IsHistory
        <5>2. e.row.revision \in Nat
          BY <2>2, WriteFields
        <5>. QED  BY <2>2, <4>1, <5>1, <5>2
      <4>2. e.row.revision <= e.row.revision
        BY <2>2, WriteFields
      <4>. QED  BY <2>4, <4>1, <4>2
    <3>3. e \in g /\ IsHistory(g)
      BY <2>3, <2>4
    <3>. QED  BY <2>5, <3>1, <3>2, <3>3, NewestKept
  <2>7. c.history \ d.history = {e}
    <3>1. c.history \subseteq g
      BY <2>5 DEF Pruned, Mine
    <3>. QED  BY <2>3, <2>4, <2>6, <3>1
  <2>8. ASSUME NEW i \in Live(d)
        PROVE  {a.row : a \in {b \in c.history \ d.history : b.item = i}} =
                 {d.items[i]} \ {c.items[i]}
    <3>1. CASE i = w.item
      <4>1. {b \in c.history \ d.history : b.item = i} = {e}
        BY <2>2, <2>7, <3>1
      <4>. QED  BY <1>2, <1>4, <2>2, <3>1, <4>1
    <3>2. CASE i # w.item
      <4>1. {b \in c.history \ d.history : b.item = i} = {}
        BY <2>2, <2>7, <3>2
      <4>. QED  BY <1>2, <3>2, <4>1
    <3>. QED  BY <3>1, <3>2
  <2>9. ASSUME NEW a \in d.history \ c.history
        PROVE  \/ Cardinality({b \in c.history :
                     b.item = a.item /\ b.row.revision > a.row.revision}) = HistoryPerItem
               \/ Cardinality({b \in c.history : b.n > a.n}) = HistoryRows
    <3>1. Short(d.history)
      BY DEF Clean
    <3>2. e.item \in Items
      BY <1>2, <2>2
    <3>3. PICK h, old : h = c.history /\ old = d.history
      OBVIOUS
    <3>4. /\ IsHistory(old) /\ Short(old) /\ e \notin old /\ IsHistory(old \cup {e})
          /\ h = Pruned(old \cup {e}, e.item)
      BY <2>2, <2>3, <2>4, <2>5, <3>1, <3>3
    <3>6. a \in (old \cup {e}) \ h
      BY <3>3
    <3>5. Cardinality(Revised(h, a)) = HistoryPerItem \/ Cardinality(Younger(h, a)) = HistoryRows
      BY <3>2, <3>4, <3>6, DropsOldest
    <3>. QED  BY <3>3, <3>5 DEF Revised, Younger
  <2>. QED  BY <2>8, <2>9
<1>. QED  BY <1>2, <1>5, <1>6, <1>7 DEF Kinds

(* An edit is kept in the history until its item is purged, or until enough *)
(* younger rows fill a limit.                                               *)
THEOREM EditsAreKept == Spec => HistoryKeepsNewest
<1>1. ASSUME VaultCore, [Next]_vars
      PROVE  [installs' = installs /\ ~stray' =>
                /\ \A i \in Live(live) :
                     live.items[i].at = "active" /\ live'.items[i].at = "active" =>
                       {a.row : a \in {b \in live'.history \ live.history : b.item = i}} =
                         {live.items[i]} \ {live'.items[i]}
                /\ \A a \in live.history \ live'.history :
                     \/ live'.items[a.item].at = "tombstone"
                     \/ Cardinality({b \in live'.history :
                            b.item = a.item /\ b.row.revision > a.row.revision}) = HistoryPerItem
                     \/ Cardinality({b \in live'.history : b.n > a.n}) = HistoryRows]_vars
  <2>. DEFINE Kept ==
         /\ \A i \in Live(live) :
              live.items[i].at = "active" /\ live'.items[i].at = "active" =>
                {a.row : a \in {b \in live'.history \ live.history : b.item = i}} =
                  {live.items[i]} \ {live'.items[i]}
         /\ \A a \in live.history \ live'.history :
              \/ live'.items[a.item].at = "tombstone"
              \/ Cardinality({b \in live'.history :
                     b.item = a.item /\ b.row.revision > a.row.revision}) = HistoryPerItem
              \/ Cardinality({b \in live'.history : b.n > a.n}) = HistoryRows
  <2>. SUFFICES ASSUME Next, installs' = installs, ~stray'
                PROVE  Kept
    BY <1>1
  <2>1. ASSUME live'.history = live.history, \A i \in Live(live) : live'.items[i] = live.items[i]
        PROVE  Kept
    BY <2>1
  <2>. HIDE DEF Kept
  <2>2. CASE SameContents
    BY <2>1, <2>2 DEF SameContents
  <2>3. CASE Replaces
    <3>1. installs \in Nat
      BY <1>1 DEF VaultCore, CoreTypes
    <3>. QED  BY <2>3, <3>1 DEF Replaces
  <2>4. ASSUME NEW s \in Sessions, NEW i \in Items, PutItem(s, i) PROVE Kept
    <3>1. PICK row : row = EncryptItemState(session[s].key, 1, "active", bodies', {})
      OBVIOUS
    <3>2. live' = InsertItem(live, i, row) /\ live.items[i] = None
      BY <2>4, <3>1 DEF PutItem, CanInsertItem
    <3>3. live.items \in [Items -> Row \cup {None}] /\ live \in Tables
      BY <1>1, DatabaseParts DEF VaultCore, CoreTypes, Tables
    <3>4. live'.history = live.history /\ live'.items = [live.items EXCEPT ![i] = row]
      BY <3>2, <3>3 DEF InsertItem, Tables
    <3>5. \A j \in Live(live) : live'.items[j] = live.items[j]
      BY <3>2, <3>3, <3>4 DEF Live
    <3>. QED  BY <2>1, <3>4, <3>5
  <2>5. ASSUME NEW s \in Sessions, CommitCall(s), CanCommit(live, call[s].write) PROVE Kept
    <3>1. PICK x, w, c : x = call[s] /\ w = x.write /\ c = Committed(live, w)
      OBVIOUS
    <3>2. x # None /\ live' = c /\ stray' = (stray \/ Unfenced(w.row.key, x.era))
      BY <2>5, <3>1 DEF CommitCall
    <3>3. ~stray /\ ~Unfenced(w.row.key, x.era)
      BY <3>2
    <3>4. w \in Write /\ Fitting(live, w, live.root.key)
      BY <1>1, <2>5, <3>1, <3>2, <3>3, FencedCallFits
    <3>5. live.root # None
      BY <1>1, <3>1, <3>2, IdleSession
    <3>6. IsDatabase(live) /\ Clean(live, live.root.key)
      BY <1>1, <3>3, <3>5 DEF VaultCore, CoreTypes, StoredClean
    <3>7. PICK d, k : d = live /\ k = live.root.key
      OBVIOUS
    <3>8. /\ IsDatabase(d) /\ w \in Write /\ CanCommit(d, w) /\ Clean(d, k) /\ Fitting(d, w, k)
          /\ c = Committed(d, w)
      BY <2>5, <3>1, <3>4, <3>6, <3>7
    <3>9. /\ \A i \in Live(d) :
               d.items[i].at = "active" /\ c.items[i].at = "active" =>
                 {a.row : a \in {b \in c.history \ d.history : b.item = i}} =
                   {d.items[i]} \ {c.items[i]}
          /\ \A a \in d.history \ c.history :
               \/ c.items[a.item].at = "tombstone"
               \/ Cardinality({b \in c.history :
                      b.item = a.item /\ b.row.revision > a.row.revision}) = HistoryPerItem
               \/ Cardinality({b \in c.history : b.n > a.n}) = HistoryRows
      BY <3>8, CommitKeepsNewest
    <3>. QED  BY <3>2, <3>7, <3>9 DEF Kept
  <2>. QED  BY <1>1, <2>2, <2>3, <2>4, <2>5, ContentsChange
<1>. QED  BY <1>1, VaultCoreInvariant, PTL DEF Spec, HistoryKeepsNewest

-----------------------------------------------------------------------------
(* The storage that attachments fill, and the imports that were measured    *)
(* and have yet to fill it.                                                 *)

Chunks == WithChunks(live)

Importing ==
  {s \in Sessions : call[s] # None /\ call[s].era = installs /\ call[s].write.kind = "attach"}

BudgetHeld ==
  ~stray => \A C \in {Chunks}, M \in {Importing} :
              Cardinality(C) + Cardinality(M) <= FileBudget + Cardinality(Sessions) - 1

LEMMA ChunkSets ==
  /\ IsFiniteSet(Chunks) /\ IsFiniteSet(Importing) /\ IsFiniteSet(Sessions)
  /\ Importing \subseteq Sessions
  /\ Cardinality(Sessions) \in Nat \ {0} /\ FileBudget \in Nat
<1>1. IsFiniteSet(Sessions) /\ IsFiniteSet(Files) /\ Sessions # {} /\ FileBudget \in Nat
  BY NativeVaultAssumption, DatabaseAssumption
<1>2. Chunks \subseteq Files /\ Importing \subseteq Sessions
  BY DEF Chunks, WithChunks, Stored, Importing
<1>3. IsFiniteSet(Chunks) /\ IsFiniteSet(Importing) /\ Cardinality(Sessions) \in Nat
  BY <1>1, <1>2, SmallerSet
<1>4. Cardinality(Sessions) # 0
  BY <1>1, FS_EmptySet
<1>. QED  BY <1>1, <1>2, <1>3, <1>4

(* A step after which no more is stored and no more is on its way.          *)
LEMMA BudgetKept ==
  ASSUME BudgetHeld, Chunks' \subseteq Chunks, Importing' \subseteq Importing, stray => stray'
  PROVE  BudgetHeld'
<1>1. PICK C, M, D, N : C = Chunks /\ M = Importing /\ D = Chunks' /\ N = Importing'
  OBVIOUS
<1>2. /\ IsFiniteSet(C) /\ IsFiniteSet(M) /\ D \subseteq C /\ N \subseteq M
      /\ Cardinality(Sessions) \in Nat /\ FileBudget \in Nat
  BY <1>1, ChunkSets
<1>3. /\ Cardinality(D) <= Cardinality(C) /\ Cardinality(N) <= Cardinality(M)
      /\ {Cardinality(C), Cardinality(D), Cardinality(M), Cardinality(N)} \subseteq Nat
  BY <1>2, SmallerSet
<1>4. ASSUME ~stray'
      PROVE  Cardinality(D) + Cardinality(N) <= FileBudget + Cardinality(Sessions) - 1
  <2>1. Cardinality(C) + Cardinality(M) <= FileBudget + Cardinality(Sessions) - 1
    BY <1>1, <1>4 DEF BudgetHeld
  <2>. QED  BY <1>2, <1>3, <2>1
<1>. QED  BY <1>1, <1>4 DEF BudgetHeld

(* The steps that change which writes are on their way.                     *)
LEMMA CallsChange ==
  ASSUME Next
  PROVE  /\ stray => stray'
         /\ \/ call' = call /\ installs' = installs
            \/ Replaces
            \/ \E s \in Sessions : BeginsWrite(s)
            \/ \E s \in Sessions : CommitAttachmentImport(s)
            \/ \E s \in Sessions : CommitCall(s)
<1>1. stray => stray'
  BY DEF Next, Create, Unlock, ChangePassphrase, UnlockWithRecoveryKit, Lock,
         GetItemWithRevision, PutItem, PrepareAttachmentImport, EncryptSource, DropPlan,
         InstallRecoveryKit, BackupDatabaseTo, CommitPreparedRestore, PrepareRestore,
         RewrapCandidate, PrepareRestoreWithRecoveryKit, FingerprintSource, DropRestore,
         LockedInstall, Replaces, UpdateItemCall, TrashItem, RestoreItem, PurgeItem,
         DeleteAttachment, Begun, CommitCall, CommitAttachmentImport
<1>2. ASSUME call' # call \/ installs' # installs
      PROVE  \/ Replaces
             \/ \E s \in Sessions : BeginsWrite(s)
             \/ \E s \in Sessions : CommitAttachmentImport(s)
             \/ \E s \in Sessions : CommitCall(s)
  BY <1>2 DEF Next, Create, Unlock, ChangePassphrase, UnlockWithRecoveryKit, Lock,
         GetItemWithRevision, PutItem, PrepareAttachmentImport, EncryptSource, DropPlan,
         InstallRecoveryKit, BackupDatabaseTo, CommitPreparedRestore, PrepareRestore,
         RewrapCandidate, PrepareRestoreWithRecoveryKit, FingerprintSource, DropRestore,
         LockedInstall, BeginsWrite
<1>. QED  BY <1>1, <1>2

(* An import that is measured fits with no other on its way.                *)
LEMMA MeasuredImport ==
  ASSUME NEW s \in Sessions, CommitAttachmentImport(s)
  PROVE  BudgetHeld'
<1>1. PICK C, N : C = Chunks /\ N = Importing'
  OBVIOUS
<1>2. Chunks' = C /\ Cardinality(C) + 1 <= FileBudget
  BY <1>1 DEF CommitAttachmentImport, Chunks
<1>3. /\ N \subseteq Sessions /\ IsFiniteSet(Sessions) /\ IsFiniteSet(C)
      /\ Cardinality(Sessions) \in Nat /\ FileBudget \in Nat
  BY <1>1, ChunkSets DEF Importing
<1>4. /\ Cardinality(N) <= Cardinality(Sessions)
      /\ Cardinality(N) \in Nat /\ Cardinality(C) \in Nat
  BY <1>3, SmallerSet
<1>5. Cardinality(C) + Cardinality(N) <= FileBudget + Cardinality(Sessions) - 1
  BY <1>2, <1>3, <1>4
<1>. QED  BY <1>1, <1>2, <1>5 DEF BudgetHeld

(* What a transaction stores.                                               *)
LEMMA CommittedChunks ==
  ASSUME NEW d, IsDatabase(d), NEW w \in Write, CanCommit(d, w), NEW c, c = Committed(d, w)
  PROVE  /\ w.kind # "attach" => WithChunks(c) \subseteq WithChunks(d)
         /\ w.kind = "attach" => WithChunks(c) \subseteq WithChunks(d) \cup {w.file}
<1>1. c.files = NewFiles(d, w) /\ d.files \in [Files -> FileRow \cup {None}]
  BY CommittedDatabase, DatabaseParts DEF Tables
<1>2. CASE w.kind \in {"update", "edit"}
  <2>1. c.files = d.files
    BY <1>1, <1>2 DEF NewFiles
  <2>. QED  BY <1>2, <2>1 DEF WithChunks, Stored
<1>3. CASE w.kind = "attach"
  <2>1. \A f \in Files \ {w.file} : c.files[f] = d.files[f]
    BY <1>1, <1>3 DEF NewFiles
  <2>. QED  BY <1>3, <2>1 DEF WithChunks, Stored
<1>4. CASE w.kind \in {"detach", "purge"}
  <2>1. ASSUME NEW f \in Files PROVE c.files[f] = d.files[f] \/ ~c.files[f].chunks
    <3>1. CASE f \in Marked(w)
      <4>1. c.files[f] = SealTombstone(w.marks[f], w.row.key)
        BY <1>1, <1>4, <3>1 DEF NewFiles
      <4>. QED  BY <3>1, <4>1, SealedTombstone, WriteFields
    <3>2. CASE f \notin Marked(w)
      BY <1>1, <1>4, <3>2 DEF NewFiles
    <3>. QED  BY <3>1, <3>2
  <2>. QED  BY <1>4, <2>1 DEF WithChunks, Stored
<1>. QED  BY <1>2, <1>3, <1>4, WriteFields DEF Kinds

(* A transaction stores what it was measured for, or less.                 *)
LEMMA CommittedBudget ==
  ASSUME VaultCore, BudgetHeld, NEW s \in Sessions, CommitCall(s)
  PROVE  BudgetHeld'
<1>1. PICK x, w : x = call[s] /\ w = x.write
  OBVIOUS
<1>2. /\ x # None /\ call' = [call EXCEPT ![s] = None] /\ installs' = installs
      /\ call \in [Sessions -> Call \cup {None}]
  BY <1>1 DEF CommitCall, VaultCore, CoreTypes
<1>3. Importing' = Importing \ {s}
  BY <1>2 DEF Importing
<1>4. CASE ~CanCommit(live, w)
  <2>1. UNCHANGED <<live, stray>>
    BY <1>1, <1>4 DEF CommitCall
  <2>. QED  BY <1>3, <2>1, BudgetKept DEF Chunks
<1>5. CASE CanCommit(live, w)
  <2>1. PICK d, c : d = live /\ c = Committed(d, w)
    OBVIOUS
  <2>2. live' = c /\ stray' = (stray \/ Unfenced(w.row.key, x.era))
    BY <1>1, <1>5, <2>1 DEF CommitCall
  <2>3. w \in Write /\ IsDatabase(d) /\ CanCommit(d, w)
    BY <1>1, <1>2, <1>5, <2>1, FencedCallFits DEF VaultCore, CoreTypes
  <2>4. CASE w.kind # "attach"
    <3>1. WithChunks(c) \subseteq WithChunks(d)
      BY <2>1, <2>3, <2>4, CommittedChunks
    <3>2. Chunks' \subseteq Chunks
      BY <2>1, <2>2, <3>1 DEF Chunks, WithChunks, Stored
    <3>. QED  BY <1>3, <2>2, <3>2, BudgetKept
  <2>5. CASE w.kind = "attach"
    <3>1. PICK C, M, D, N : C = Chunks /\ M = Importing /\ D = Chunks' /\ N = Importing'
      OBVIOUS
    <3>2. WithChunks(c) \subseteq WithChunks(d) \cup {w.file}
      BY <2>1, <2>3, <2>5, CommittedChunks
    <3>3. D \subseteq C \cup {w.file}
      BY <2>1, <2>2, <3>1, <3>2 DEF Chunks, WithChunks, Stored
    <3>4. IsFiniteSet(C) /\ IsFiniteSet(M) /\ Cardinality(Sessions) \in Nat /\ FileBudget \in Nat
      BY <3>1, ChunkSets
    <3>5. ASSUME ~stray'
          PROVE  Cardinality(D) + Cardinality(N) <= FileBudget + Cardinality(Sessions) - 1
      <4>1. ~stray /\ x.era = installs
        BY <2>2, <3>5 DEF Unfenced
      <4>2. s \in M /\ N = M \ {s}
        BY <1>1, <1>2, <1>3, <2>5, <3>1, <4>1 DEF Importing
      <4>3. Cardinality(N) = Cardinality(M) - 1 /\ Cardinality(M) \in Nat
        BY <3>4, <4>2, FS_RemoveElement, FS_CardinalityType
      <4>4. Cardinality(D) <= Cardinality(C) + 1 /\ {Cardinality(C), Cardinality(D)} \subseteq Nat
        <5>1. PICK G : G = C \cup {w.file}
          OBVIOUS
        <5>2. IsFiniteSet(G) /\ Cardinality(G) = (IF w.file \in C THEN Cardinality(C) ELSE Cardinality(C) + 1)
          BY <3>4, <5>1, FS_AddElement
        <5>3. /\ Cardinality(D) <= Cardinality(G)
              /\ {Cardinality(C), Cardinality(D), Cardinality(G)} \subseteq Nat
          BY <3>3, <3>4, <5>1, <5>2, SmallerSet
        <5>. QED  BY <5>2, <5>3
      <4>5. Cardinality(C) + Cardinality(M) <= FileBudget + Cardinality(Sessions) - 1
        BY <3>1, <4>1 DEF BudgetHeld
      <4>. QED  BY <3>4, <4>3, <4>4, <4>5
    <3>. QED  BY <3>1, <3>5 DEF BudgetHeld
  <2>. QED  BY <2>4, <2>5
<1>. QED  BY <1>4, <1>5

(* What is installed has been measured, and what was on its way before it   *)
(* is not fenced.                                                           *)
LEMMA InstalledBudget ==
  ASSUME VaultCore, Replaces
  PROVE  BudgetHeld'
<1>1. /\ Matches /\ live' = ReplaceFromDatabase(live, copy)
      /\ installs' = installs + 1 /\ call' = call /\ stray' = stray
  BY DEF Replaces
<1>2. IsDatabase(copy) /\ IsDatabase(live) /\ installs \in Nat
      /\ call \in [Sessions -> Call \cup {None}]
  BY DEF VaultCore, CoreTypes
<1>3. live' = copy
  BY <1>1, <1>2, ReplacedDatabase
<1>4. ASSUME NEW t \in Sessions, call[t] # None PROVE call[t].era # installs'
  <2>1. PICK x \in Call : x = call[t] /\ x.era <= installs
    BY <1>4, IdleSession DEF WriteFits
  <2>. QED  BY <1>1, <1>2, <2>1 DEF Call
<1>5. Importing' = {}
  BY <1>1, <1>4 DEF Importing
<1>6. PICK D : D = Chunks'
  OBVIOUS
<1>7. D = WithChunks(copy)
  BY <1>3, <1>6 DEF Chunks, WithChunks, Stored
<1>8. ASSUME ~stray
      PROVE  Cardinality(D) + Cardinality({}) <= FileBudget + Cardinality(Sessions) - 1
  <2>1. Cardinality(D) <= FileBudget
    BY <1>1, <1>7, <1>8, MatchingCandidate DEF Validates, ContentsValid, WithinBudget
  <2>2. Cardinality({}) = 0
    BY FS_EmptySet
  <2>3. D \subseteq Files /\ IsFiniteSet(Files)
    BY <1>7, DatabaseAssumption DEF WithChunks, Stored
  <2>4. Cardinality(D) \in Nat /\ Cardinality(Sessions) \in Nat \ {0} /\ FileBudget \in Nat
    BY <2>3, SmallerSet, ChunkSets
  <2>. QED  BY <2>1, <2>2, <2>4
<1>. QED  BY <1>1, <1>5, <1>6, <1>8 DEF BudgetHeld

LEMMA BudgetStep ==
  ASSUME VaultCore, BudgetHeld, [Next]_vars
  PROVE  BudgetHeld'
<1>1. CASE UNCHANGED vars
  <2>1. UNCHANGED <<live, call, installs, stray>>
    BY <1>1 DEF vars
  <2>2. Chunks' = Chunks /\ Importing' = Importing
    BY <2>1 DEF Chunks, Importing
  <2>. QED  BY <2>1, <2>2, BudgetKept
<1>2. CASE Next
  <2>1. stray => stray'
    BY <1>2, CallsChange
  <2>2. CASE Replaces
    BY <2>2, InstalledBudget
  <2>3. ASSUME NEW s \in Sessions, CommitCall(s) PROVE BudgetHeld'
    BY <2>3, CommittedBudget
  <2>4. ASSUME NEW s \in Sessions, CommitAttachmentImport(s) PROVE BudgetHeld'
    BY <2>4, MeasuredImport
  <2>5. ASSUME NEW s \in Sessions, BeginsWrite(s) PROVE BudgetHeld'
    <3>1. PICK x \in Call : x # None /\ x.write.kind # "attach" /\ call' = [call EXCEPT ![s] = x]
      BY <2>5, BeginsFits
    <3>2. UNCHANGED <<live, installs, stray>> /\ call \in [Sessions -> Call \cup {None}]
      BY <2>5, BeginsFits DEF VaultCore, CoreTypes
    <3>3. Importing' \subseteq Importing
      BY <3>1, <3>2 DEF Importing
    <3>. QED  BY <2>1, <3>2, <3>3, BudgetKept DEF Chunks
  <2>6. CASE call' = call /\ installs' = installs
    <3>1. Importing' = Importing
      BY <2>6 DEF Importing
    <3>2. CASE SameContents
      BY <2>1, <3>1, <3>2, BudgetKept DEF SameContents, Chunks, WithChunks, Stored
    <3>3. ASSUME NEW s \in Sessions, NEW i \in Items, PutItem(s, i) PROVE BudgetHeld'
      <4>1. PICK row : row = EncryptItemState(session[s].key, 1, "active", bodies', {})
        OBVIOUS
      <4>2. live' = InsertItem(live, i, row) /\ live \in Tables
        BY <3>3, <4>1, DatabaseParts DEF PutItem, VaultCore, CoreTypes
      <4>3. live'.files = live.files
        BY <4>2 DEF InsertItem, Tables
      <4>. QED  BY <2>1, <3>1, <4>3, BudgetKept DEF Chunks, WithChunks, Stored
    <3>. QED  BY <1>2, <2>2, <2>3, <3>2, <3>3, ContentsChange
  <2>. QED  BY <1>2, <2>2, <2>3, <2>4, <2>5, <2>6, CallsChange
<1>. QED  BY <1>1, <1>2

(* Imports measure the storage before their transactions fill it: it is     *)
(* exceeded by at most one import of every other session, for any number of *)
(* sessions.                                                                *)
THEOREM BudgetIsHeld == Spec => []BudgetOvershoot
<1>1. Init => BudgetHeld
  <2>. SUFFICES ASSUME Init PROVE BudgetHeld
    OBVIOUS
  <2>1. Chunks = {} /\ Importing = {}
    BY BlankDatabase DEF Init, Chunks, Importing
  <2>2. Cardinality({}) = 0
    BY FS_EmptySet
  <2>3. Cardinality(Sessions) \in Nat \ {0} /\ FileBudget \in Nat
    BY ChunkSets
  <2>4. Cardinality({}) + Cardinality({}) <= FileBudget + Cardinality(Sessions) - 1
    BY <2>2, <2>3
  <2>. QED  BY <2>1, <2>4 DEF BudgetHeld
<1>2. VaultCore /\ BudgetHeld /\ [Next]_vars => BudgetHeld'
  BY BudgetStep
<1>3. BudgetHeld => BudgetOvershoot
  <2>. SUFFICES ASSUME BudgetHeld, ~stray PROVE BudgetOvershoot
    BY DEF BudgetOvershoot
  <2>1. PICK C, M : C = Chunks /\ M = Importing
    OBVIOUS
  <2>2. Cardinality(C) + Cardinality(M) <= FileBudget + Cardinality(Sessions) - 1
    BY <2>1 DEF BudgetHeld
  <2>3. IsFiniteSet(C) /\ IsFiniteSet(M) /\ Cardinality(Sessions) \in Nat /\ FileBudget \in Nat
    BY <2>1, ChunkSets
  <2>4. Cardinality(C) \in Nat /\ Cardinality(M) \in Nat
    BY <2>3, FS_CardinalityType
  <2>5. Cardinality(C) <= FileBudget + Cardinality(Sessions) - 1
    BY <2>2, <2>3, <2>4
  <2>. QED  BY <2>1, <2>5 DEF BudgetOvershoot, Chunks
<1>. QED  BY <1>1, <1>2, <1>3, VaultCoreInvariant, PTL DEF Spec

=============================================================================
