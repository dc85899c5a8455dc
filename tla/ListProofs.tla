----------------------------- MODULE ListProofs -----------------------------
(***************************************************************************)
(* What the operators of Lists return, for every set and every order.  A   *)
(* set is listed by rank: the ranks of a total order are distinct, so they *)
(* are all the numbers up to the size of the set, and the list holds every *)
(* member once.                                                            *)
(***************************************************************************)
EXTENDS Lists, FiniteSetTheorems, TLAPS

\* A leaf is tried with Zenon, then with the SMT solver.
USE ZenonT(5), SMTT(15)

\* The members of I up to i in the order R, a set of pairs.
UptoIn(R, I, i) == {j \in I : <<j, i>> \in R}
RankIn(R, I) == [i \in I |-> Cardinality(UptoIn(R, I, i))]

\* R orders I totally.
OrdersTotally(R, I) ==
    /\ \A i \in I : <<i, i>> \in R
    /\ \A i, j \in I : <<i, j>> \in R \/ <<j, i>> \in R
    /\ \A i, j \in I : <<i, j>> \in R /\ <<j, i>> \in R => i = j
    /\ \A i, j, k \in I : <<i, j>> \in R /\ <<j, k>> \in R => <<i, k>> \in R

\* Ranks in a total order are distinct numbers from one on.
LEMMA RanksAreDistinct ==
  ASSUME NEW I, IsFiniteSet(I), NEW R, OrdersTotally(R, I)
  PROVE  /\ RankIn(R, I) \in [I -> 1 .. Cardinality(I)]
         /\ \A i, j \in I : RankIn(R, I)[i] = RankIn(R, I)[j] => i = j
<1>1. ASSUME NEW i \in I
      PROVE  /\ UptoIn(R, I, i) \in SUBSET I /\ i \in UptoIn(R, I, i) /\ IsFiniteSet(UptoIn(R, I, i))
             /\ Cardinality(UptoIn(R, I, i)) \in 1 .. Cardinality(I)
  <2>1. UptoIn(R, I, i) \in SUBSET I /\ i \in UptoIn(R, I, i) BY DEF UptoIn, OrdersTotally
  <2>2. IsFiniteSet(UptoIn(R, I, i)) /\ Cardinality(UptoIn(R, I, i)) <= Cardinality(I)
    BY <2>1, FS_Subset
  <2>3. Cardinality(I) \in Nat /\ Cardinality(UptoIn(R, I, i)) \in Nat BY <2>2, FS_CardinalityType
  <2>4. Cardinality(UptoIn(R, I, i)) # 0 BY <2>1, <2>2, FS_EmptySet
  <2> QED BY <2>1, <2>2, <2>3, <2>4
<1>2. ASSUME NEW i \in I, NEW j \in I, <<i, j>> \in R,
             Cardinality(UptoIn(R, I, i)) = Cardinality(UptoIn(R, I, j))
      PROVE  i = j
  <2>1. UptoIn(R, I, i) \in SUBSET UptoIn(R, I, j) BY <1>2 DEF UptoIn, OrdersTotally
  <2>2. UptoIn(R, I, i) = UptoIn(R, I, j) BY <1>1, <1>2, <2>1, FS_Subset
  <2>3. <<j, i>> \in R BY <1>1, <2>2 DEF UptoIn
  <2> QED BY <1>2, <2>3 DEF OrdersTotally
<1>3. \A i, j \in I : Cardinality(UptoIn(R, I, i)) = Cardinality(UptoIn(R, I, j)) => i = j
  BY <1>2 DEF OrdersTotally
<1> QED BY <1>1, <1>3 DEF RankIn

\* order lists the members of I, each once.
ListsOnce(order, I) ==
    /\ order \in [1 .. Cardinality(I) -> I]
    /\ \A k, l \in 1 .. Cardinality(I) : order[k] = order[l] => k = l
    /\ \A i \in I : \E k \in 1 .. Cardinality(I) : order[k] = i

\* Distinct ranks arrange a set.
LEMMA ArrangeLists ==
  ASSUME NEW I, IsFiniteSet(I), NEW rank \in [I -> 1 .. Cardinality(I)],
         \A i, j \in I : rank[i] = rank[j] => i = j
  PROVE  ListsOnce(Arrange(rank, I), I)
<1> DEFINE n == Cardinality(I)
           order == Arrange(rank, I)
<1>1. n \in Nat BY FS_CardinalityType
<1>2. IsFiniteSet(1 .. n) /\ Cardinality(1 .. n) = n BY <1>1, FS_Interval
<1>3. rank \in Injection(I, 1 .. n) BY DEF Injection, IsInjective
<1>4. rank \in Surjection(I, 1 .. n) BY <1>2, <1>3, FS_Injection
<1>5. \A k \in 1 .. n : \E i \in I : rank[i] = k BY <1>4 DEF Surjection
<1>6. \A k \in 1 .. n : order[k] \in I /\ rank[order[k]] = k BY <1>5 DEF Arrange
<1>7. order \in [1 .. n -> I] BY <1>6 DEF Arrange
<1>8. \A i \in I : rank[i] \in 1 .. n /\ order[rank[i]] = i BY <1>6
<1> HIDE DEF order
<1>9. \A k, l \in 1 .. n : order[k] = order[l] => k = l BY <1>6
<1>10. \A i \in I : \E k \in 1 .. n : order[k] = i BY <1>8
<1> QED BY <1>7, <1>9, <1>10 DEF ListsOnce, order

\* A set of numbers in order.
LEMMA AscendingLists ==
  ASSUME NEW I, IsFiniteSet(I), I \subseteq Nat
  PROVE  ListsOnce(Ascending(I), I)
<1> DEFINE R == {p \in I \X I : p[1] <= p[2]}
<1>1. OrdersTotally(R, I) BY DEF OrdersTotally
<1>2. RankIn(R, I) = [i \in I |-> Cardinality({j \in I : j <= i})]
  <2>1. ASSUME NEW i \in I PROVE UptoIn(R, I, i) = {j \in I : j <= i} BY DEF UptoIn
  <2> QED BY <2>1 DEF RankIn
<1> HIDE DEF R
<1>3. ListsOnce(Arrange(RankIn(R, I), I), I) BY <1>1, RanksAreDistinct, ArrangeLists
<1> QED BY <1>2, <1>3 DEF Ascending

\* The members of a sequence.
LEMMA SeqMembers ==
  ASSUME NEW S, NEW s \in Seq(S)
  PROVE  /\ DOMAIN s = 1 .. Len(s) /\ Len(s) \in Nat /\ Cardinality(DOMAIN s) = Len(s)
         /\ \A i \in 1 .. Len(s) : s[i] \in S
<1>1. DOMAIN s = 1 .. Len(s) /\ Len(s) \in Nat OBVIOUS
<1>2. Cardinality(DOMAIN s) = Len(s) BY <1>1, FS_Interval
<1> QED BY <1>1, <1>2
=============================================================================
