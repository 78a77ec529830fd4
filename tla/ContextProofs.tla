---------------------------- MODULE ContextProofs ----------------------------
(***************************************************************************)
(* Proofs about ContextProcess, for all histories and configurations.      *)
(*                                                                         *)
(* TrimByToken and every round of FINAL_GUARD keep the system messages and *)
(* the tail of the others from the start of a group on.  WholeTail says    *)
(* what such a cut preserves; it is reflexive and transitive, so the list  *)
(* is always a whole tail of the list after the summary step (CutInv).     *)
(*                                                                         *)
(* Of the token counts the proofs need that a part of a list counts at     *)
(* most what the list counts; the sections on sums derive it from the      *)
(* definition of SumFunctionOnSet.                                         *)
(***************************************************************************)
EXTENDS ContextProcess, FiniteSetTheorems, WellFoundedInduction, TLAPS

\* List L keeps the system messages of K and the end of the others, and does
\* not separate a call from its answers.
WholeTail(K, L) ==
    /\ L \subseteq K
    /\ Systems(L) = Systems(K)
    /\ \A i \in Others(L), j \in Others(K) : j > i => j \in L
    /\ \A c, i \in K : Answers(K, c, i) => (c \in L <=> i \in L)
    /\ Others(K) # {} => Others(L) # {}

CutInv == WholeTail(base, kept)

BaseInv == \A i \in Positions : Kind(i) = "system" => i \in base

LEMMA PositionsNat == TypeOK => Positions \subseteq Nat
  BY DEF TypeOK, Positions

\* A cut at the start of a group is a whole tail.
LEMMA CutWhole ==
    ASSUME NEW K \in SUBSET Nat, NEW g \in Starts(K)
    PROVE  WholeTail(K, KeepFrom(K, g))
  <1> DEFINE L == KeepFrom(K, g)
  <1>0. g \in Others(K) /\ \A c \in Others(K) : ~Answers(K, c, g)
    BY DEF Starts
  <1>1. L \subseteq K /\ Systems(L) = Systems(K) /\ Others(L) = From(K, g)
    BY DEF KeepFrom, From, Systems, Others
  <1>2. \A i \in Others(L), j \in Others(K) : j > i => j \in L
    <2>1. SUFFICES ASSUME NEW i \in Others(L), NEW j \in Others(K), j > i PROVE j \in L
      OBVIOUS
    <2>2. i >= g /\ i \in Nat /\ j \in Nat /\ g \in Nat
      BY <1>0, <1>1, <2>1 DEF From, Others
    <2>3. j \in From(K, g)
      BY <2>1, <2>2 DEF From
    <2>4. QED
      BY <2>3 DEF KeepFrom
  <1>3. ASSUME NEW c \in K, NEW i \in K, Answers(K, c, i)
        PROVE  c \in L <=> i \in L
    <2>1. c \in Others(K) /\ i \in Others(K) /\ c < i
      BY <1>3 DEF Answers
    <2>2. \A j \in Others(K) : j \in L <=> j >= g
      BY DEF KeepFrom, From, Systems, Others
    <2>3. c >= g => i >= g
      BY <1>0, <2>1 DEF Others
    <2>4. ASSUME i >= g, ~(c >= g) PROVE FALSE
      <3>1. c < g /\ (g = i \/ g < i)
        BY <1>0, <2>1, <2>4 DEF Others
      <3>2. Kind(g) = "tool"
        BY <1>0, <1>3, <3>1 DEF Answers
      <3>3. \A j \in Others(K) : c < j /\ j < g => j < i
        BY <1>0, <2>1, <3>1 DEF Others
      <3>4. Answers(K, c, g)
        BY <1>0, <1>3, <3>1, <3>2, <3>3 DEF Answers
      <3>5. QED
        BY <1>0, <2>1, <3>4
    <2>5. QED
      BY <2>1, <2>2, <2>3, <2>4
  <1>4. g \in Others(L)
    BY <1>0, <1>1 DEF From, Others
  <1>5. QED
    BY <1>1, <1>2, <1>3, <1>4 DEF WholeTail

LEMMA WholeTailReflexive ==
    ASSUME NEW K PROVE WholeTail(K, K)
  BY DEF WholeTail, Others

LEMMA WholeTailTransitive ==
    ASSUME NEW K \in SUBSET Nat, NEW L, NEW M, WholeTail(K, L), WholeTail(L, M)
    PROVE  WholeTail(K, M)
  <1>1. M \subseteq L /\ L \subseteq K /\ Systems(M) = Systems(K)
    BY DEF WholeTail
  <1>2. Others(L) \subseteq Others(K) /\ Others(M) \subseteq Others(L)
    BY <1>1 DEF Others, Systems
  <1>3. \A i \in Others(M), j \in Others(K) : j > i => j \in M
    <2>1. SUFFICES ASSUME NEW i \in Others(M), NEW j \in Others(K), j > i
                   PROVE  j \in M
      OBVIOUS
    <2>2. j \in L
      BY <1>2, <2>1 DEF WholeTail
    <2>3. j \in Others(L)
      BY <1>1, <2>2 DEF Others, Systems
    <2>4. QED
      BY <2>1, <2>3 DEF WholeTail
  <1>4. ASSUME NEW c \in K, NEW i \in K, Answers(K, c, i)
        PROVE  c \in M <=> i \in M
    <2>1. c \in L <=> i \in L
      BY <1>4 DEF WholeTail
    <2>2. CASE c \in L
      <3>1. c \in Others(L) /\ i \in Others(L)
        BY <1>4, <2>1, <2>2 DEF Answers, Others, Systems
      <3>2. Answers(L, c, i)
        BY <1>2, <1>4, <3>1 DEF Answers
      <3>3. QED
        BY <2>1, <2>2, <3>2 DEF WholeTail
    <2>3. CASE c \notin L
      BY <1>1, <2>1, <2>3
    <2>4. QED
      BY <2>2, <2>3
  <1>5. Others(K) # {} => Others(M) # {}
    BY DEF WholeTail
  <1>6. QED
    BY <1>1, <1>3, <1>4, <1>5 DEF WholeTail

-----------------------------------------------------------------------------
LEMMA InitTypeOK == Init => TypeOK
  BY ContextAssumption DEF Init, TypeOK

\* A cut adds nothing to a list.
LEMMA CutSubset == ASSUME NEW K, NEW g PROVE KeepFrom(K, g) \subseteq K
  BY DEF KeepFrom, Systems, From, Others

LEMMA NextTypeOK == TypeOK /\ [Next]_vars => TypeOK'
  <1>1. SUFFICES ASSUME TypeOK, [Next]_vars PROVE TypeOK'
    OBVIOUS
  <1>2. CASE UNCHANGED vars
    BY <1>1, <1>2 DEF TypeOK, vars, Positions
  <1>3. CASE Measure
    BY <1>1, <1>3 DEF Measure, TypeOK, Positions
  <1>4. CASE Summarize
    <2>1. Systems(kept) \union {0} \union Retained \subseteq {0} \union Positions
      BY <1>1 DEF TypeOK, Systems, Retained, Recent, Others
    <2>2. summary' \in Nat
      BY <1>4, ContextAssumption DEF Summarize
    <2>3. QED
      BY <1>1, <1>4, <2>1, <2>2 DEF Summarize, TypeOK, Positions
  <1>5. CASE SkipSummary
    BY <1>1, <1>5 DEF SkipSummary, TypeOK, Positions
  <1>6. CASE Trim
    <2>1. kept' \subseteq kept
      BY <1>6, CutSubset DEF Trim
    <2>2. QED
      BY <1>1, <1>6, <2>1 DEF Trim, TypeOK, Positions
  <1>7. CASE SkipTrim
    BY <1>1, <1>7 DEF SkipTrim, TypeOK, Positions
  <1>8. CASE GuardReturn
    BY <1>1, <1>8 DEF GuardReturn, TypeOK, Positions
  <1>9. CASE GuardDrop
    <2>1. kept' \subseteq kept
      BY <1>9, CutSubset DEF GuardDrop
    <2>2. rounds' \in 0..GuardRounds
      BY <1>1, <1>9, ContextAssumption DEF GuardDrop, TypeOK
    <2>3. QED
      BY <1>1, <1>9, <2>1, <2>2 DEF GuardDrop, TypeOK, Positions
  <1>10. QED
    BY <1>1, <1>2, <1>3, <1>4, <1>5, <1>6, <1>7, <1>8, <1>9 DEF Next

\* Every variable of a call of Process keeps its shape.
THEOREM TypeCorrect == Spec => []TypeOK
  BY InitTypeOK, NextTypeOK, PTL DEF Spec

-----------------------------------------------------------------------------
\* The lists of a state that has the same messages: a summary only adds 0.
LEMMA SameMessages ==
    ASSUME UNCHANGED <<history, kept, base>>, CutInv PROVE CutInv'
  BY DEF CutInv, WholeTail, Systems, Others, Answers, Kind

LEMMA CutStep ==
    ASSUME TypeOK, CutInv, UNCHANGED <<history, base>>,
           NEW g \in Starts(kept), kept' = KeepFrom(kept, g)
    PROVE  CutInv'
  <1>1. kept \in SUBSET Nat /\ base \in SUBSET Nat
    BY PositionsNat DEF TypeOK
  <1>2. WholeTail(kept, KeepFrom(kept, g))
    BY <1>1, CutWhole
  <1>3. WholeTail(base, KeepFrom(kept, g))
    BY <1>1, <1>2, WholeTailTransitive DEF CutInv
  <1>4. QED
    BY <1>3 DEF CutInv, WholeTail, Systems, Others, Answers, Kind

LEMMA NextCutInv == TypeOK /\ CutInv /\ [Next]_vars => CutInv'
  <1>1. SUFFICES ASSUME TypeOK, CutInv, [Next]_vars PROVE CutInv'
    OBVIOUS
  <1>2. CASE \/ UNCHANGED vars \/ Measure \/ SkipSummary \/ SkipTrim \/ GuardReturn
    BY <1>1, <1>2, SameMessages
    DEF vars, Measure, SkipSummary, SkipTrim, GuardReturn
  <1>3. CASE Summarize
    <2>1. base' = kept'
      BY <1>3 DEF Summarize
    <2>2. QED
      BY <2>1 DEF CutInv, WholeTail, Others
  <1>4. CASE Trim
    <2>1. CASE \E g \in Starts(kept) : kept' = KeepFrom(kept, g)
      BY <1>1, <1>4, <2>1, CutStep DEF Trim
    <2>2. CASE UNCHANGED kept
      BY <1>1, <1>4, <2>2, SameMessages DEF Trim
    <2>3. QED
      BY <1>4, <2>1, <2>2 DEF Trim
  <1>5. CASE GuardDrop
    <2>1. PICK g \in Starts(kept) : kept' = KeepFrom(kept, g)
      BY <1>5 DEF GuardDrop
    <2>2. QED
      BY <1>1, <1>5, <2>1, CutStep DEF GuardDrop
  <1>6. QED
    BY <1>1, <1>2, <1>3, <1>4, <1>5 DEF Next

LEMMA CutInvAlways == Spec => []CutInv
  <1>1. Init => CutInv
    BY WholeTailReflexive DEF Init, CutInv
  <1>2. QED
    BY <1>1, NextCutInv, TypeCorrect, PTL DEF Spec

\* TrimByToken and FINAL_GUARD keep a call and its answers together or drop
\* them together.
THEOREM PairsWholeAlways == Spec => []PairsWhole
  <1>1. CutInv => PairsWhole
    BY DEF CutInv, WholeTail, PairsWhole
  <1>2. QED
    BY <1>1, CutInvAlways, PTL

\* They keep the end of the conversation, without a hole, and never nothing.
THEOREM EndKeptAlways == Spec => []EndKept
  <1>1. CutInv => EndKept
    BY DEF CutInv, WholeTail, EndKept
  <1>2. QED
    BY <1>1, CutInvAlways, PTL

-----------------------------------------------------------------------------
LEMMA NextBaseInv == TypeOK /\ CutInv /\ BaseInv /\ [Next]_vars => BaseInv'
  <1>1. SUFFICES ASSUME TypeOK, CutInv, BaseInv, [Next]_vars PROVE BaseInv'
    OBVIOUS
  <1>2. CASE Summarize
    <2>1. \A i \in Positions : Kind(i) = "system" => i \in Systems(kept)
      BY <1>1 DEF BaseInv, CutInv, WholeTail, Systems
    <2>2. UNCHANGED history /\ \A i \in Systems(kept) : i \in base'
      BY <1>2 DEF Summarize
    <2>3. \A i \in Positions : Kind(i)' = Kind(i)
      BY <1>1, <2>2, PositionsNat DEF Kind, Positions, TypeOK
    <2>4. Positions' = Positions
      BY <2>2 DEF Positions
    <2>5. QED
      BY <2>1, <2>2, <2>3, <2>4 DEF BaseInv
  <1>3. CASE UNCHANGED <<history, base>>
    BY <1>1, <1>3 DEF BaseInv, Positions, Kind
  <1>4. Summarize \/ UNCHANGED <<history, base>>
    BY <1>1 DEF Next, vars, Measure, SkipSummary, Trim, SkipTrim, GuardReturn, GuardDrop
  <1>5. QED
    BY <1>2, <1>3, <1>4

\* A system message is never lost, whatever is summarised or dropped.
THEOREM SystemKeptAlways == Spec => []SystemKept
  <1>1. Init => BaseInv
    BY DEF Init, BaseInv
  <1>2. CutInv /\ BaseInv => SystemKept
    BY DEF CutInv, WholeTail, BaseInv, SystemKept, Systems
  <1>3. QED
    BY <1>1, <1>2, NextBaseInv, TypeCorrect, CutInvAlways, PTL DEF Spec

\* System messages and the end of the conversation stay.
THEOREM WantedKeptAlways == Spec => []WantedKept
  <1>1. SystemKept /\ EndKept => WantedKept
    BY DEF WantedKept
  <1>2. QED
    BY <1>1, SystemKeptAlways, EndKeptAlways, PTL

-----------------------------------------------------------------------------
LEMMA NextFits == FitsOrLastGroup /\ [Next]_vars => FitsOrLastGroup'
  <1>1. SUFFICES ASSUME FitsOrLastGroup, [Next]_vars PROVE FitsOrLastGroup'
    OBVIOUS
  <1>2. CASE Measure
    <2>1. pc' = "done" => ~TooLong
      BY <1>2 DEF Measure, TooLong
    <2>2. TooLong' = TooLong
      BY <1>2 DEF Measure, TooLong, Tokens, Size, Positions
    <2>3. QED
      BY <2>1, <2>2 DEF FitsOrLastGroup
  <1>3. CASE UNCHANGED vars \/ SkipTrim \/ GuardReturn
    <2>1. UNCHANGED <<history, config, kept, summary, rounds>>
      BY <1>3 DEF vars, SkipTrim, GuardReturn
    <2>2. TooLong' = TooLong /\ Starts(kept)' = Starts(kept)
      BY <2>1 DEF TooLong, Tokens, Size, Positions, Starts, Others, Systems, Answers, Kind
    <2>3. pc' = "done" /\ TooLong =>
             rounds = GuardRounds \/ Cardinality(Starts(kept)) <= 1
      BY <1>1, <1>3 DEF FitsOrLastGroup, vars, SkipTrim, GuardReturn
    <2>4. QED
      BY <2>1, <2>2, <2>3 DEF FitsOrLastGroup
  <1>4. CASE Summarize \/ SkipSummary \/ Trim \/ GuardDrop
    BY <1>4 DEF Summarize, SkipSummary, Trim, GuardDrop, FitsOrLastGroup
  <1>5. QED
    BY <1>1, <1>2, <1>3, <1>4 DEF Next

\* The result exceeds the window only if one group is left or the rounds of
\* FINAL_GUARD were used up.
THEOREM FitsOrLastGroupAlways == Spec => []FitsOrLastGroup
  <1>1. Init => FitsOrLastGroup
    BY DEF Init, FitsOrLastGroup
  <1>2. QED
    BY <1>1, NextFits, PTL DEF Spec

-----------------------------------------------------------------------------
(* Sums.  SumFunctionOnSet is defined by recursion: every fact about it is *)
(* an induction over the size of the set, done on the set of the sizes for *)
(* which the fact holds.                                                   *)

\* The element a sum takes next.
Taken(s) == CHOOSE x \in s : TRUE

\* G gives the sum of f over every set of SS.
GivesSums(f, SS, G) ==
    /\ G \in [SS -> Nat]
    /\ \A s \in SS : G[s] = IF s = {} THEN 0 ELSE f[Taken(s)] + G[s \ {Taken(s)}]

\* The subsets of D with at most n elements.
Small(D, n) == {s \in SUBSET D : Cardinality(s) <= n}

\* A non-empty set of numbers has a least.
LEMMA Least ==
    ASSUME NEW T, T \subseteq Nat, T # {}
    PROVE  \E x \in T : \A y \in T : x <= y
  <1> DEFINE R == OpToRel(<, Nat)
  <1>1. IsWellFoundedOn(R, Nat)
    BY NatLessThanWellFounded
  <1>2. \A x, y \in Nat : x < y => <<x, y>> \in R
    BY DEF OpToRel
  <1> HIDE DEF R
  <1>3. PICK x \in T : \A y \in T : <<y, x>> \notin R
    BY <1>1, WFMin
  <1>4. ASSUME NEW y \in T PROVE x <= y
    <2>1. x \in Nat /\ y \in Nat /\ ~(y < x)
      BY <1>2, <1>3
    <2>2. QED
      BY <2>1
  <1>5. QED
    BY <1>4

\* A set of numbers that has 0 and the successor of each of its members has all.
LEMMA AllNat ==
    ASSUME NEW T, T \subseteq Nat, 0 \in T, \A n \in T : n + 1 \in T
    PROVE  T = Nat
  <1>1. SUFFICES ASSUME Nat \ T # {} PROVE FALSE
    OBVIOUS
  <1>2. PICK x \in Nat \ T : \A y \in Nat \ T : x <= y
    BY <1>1, Least
  <1>3. x - 1 \in Nat /\ x = (x - 1) + 1
    BY <1>2
  <1>4. x - 1 \in T
    BY <1>2, <1>3
  <1>5. QED
    BY <1>2, <1>3, <1>4

LEMMA TakenIn == \A s : s # {} => Taken(s) \in s
  BY DEF Taken

LEMMA SmallerSet ==
    ASSUME NEW D, IsFiniteSet(D), NEW n \in Nat,
           NEW s \in Small(D, n + 1), NEW x \in s
    PROVE  s \ {x} \in Small(D, n)
  <1>1. IsFiniteSet(s)
    BY FS_Subset DEF Small
  <1>2. Cardinality(s) \in Nat /\ Cardinality(s \ {x}) = Cardinality(s) - 1
    BY <1>1, FS_CardinalityType, FS_RemoveElement
  <1>3. QED
    BY <1>2 DEF Small

LEMMA SmallMore ==
    ASSUME NEW D, IsFiniteSet(D), NEW n \in Nat
    PROVE  Small(D, n) \subseteq Small(D, n + 1)
  <1>1. \A s \in SUBSET D : Cardinality(s) \in Nat
    BY FS_Subset, FS_CardinalityType
  <1>2. QED
    BY <1>1 DEF Small

LEMMA SmallNone ==
    ASSUME NEW D, IsFiniteSet(D)
    PROVE  Small(D, 0) = {{}}
  <1>1. \A s \in SUBSET D : IsFiniteSet(s) /\ Cardinality(s) \in Nat
    BY FS_Subset, FS_CardinalityType
  <1>2. QED
    BY <1>1, FS_EmptySet DEF Small

LEMMA SumsStep ==
    ASSUME NEW D, IsFiniteSet(D), NEW f \in [D -> Nat], NEW n \in Nat,
           NEW G, GivesSums(f, Small(D, n), G)
    PROVE  \E H : GivesSums(f, Small(D, n + 1), H)
  <1> DEFINE H == [s \in Small(D, n + 1) |->
                     IF s = {} THEN 0 ELSE f[Taken(s)] + G[s \ {Taken(s)}]]
  <1>1. \A s \in Small(D, n + 1) : s # {} =>
            /\ Taken(s) \in s /\ f[Taken(s)] \in Nat
            /\ s \ {Taken(s)} \in Small(D, n)
            /\ s \ {Taken(s)} \in Small(D, n + 1)
    BY TakenIn, SmallerSet, SmallMore DEF Small
  <1>2. \A s \in Small(D, n) : H[s] = G[s]
    BY SmallMore DEF GivesSums
  <1>3. \A s \in Small(D, n) : G[s] \in Nat
    BY DEF GivesSums
  <1>4. H \in [Small(D, n + 1) -> Nat]
    BY <1>1, <1>3
  <1>5. \A s \in Small(D, n + 1) :
            H[s] = IF s = {} THEN 0 ELSE f[Taken(s)] + H[s \ {Taken(s)}]
    BY <1>1, <1>2
  <1> HIDE DEF H
  <1>6. QED
    BY <1>4, <1>5 DEF GivesSums

LEMMA SumsExist ==
    ASSUME NEW D, IsFiniteSet(D), NEW f \in [D -> Nat]
    PROVE  \E G : GivesSums(f, SUBSET D, G)
  <1> DEFINE T == {n \in Nat : \E G : GivesSums(f, Small(D, n), G)}
  <1>1. 0 \in T
    <2> DEFINE G == [s \in {{}} |-> 0]
    <2>1. GivesSums(f, {{}}, G)
      BY DEF GivesSums
    <2>2. QED
      BY <2>1, SmallNone
  <1>2. \A n \in T : n + 1 \in T
    BY SumsStep
  <1>3. T = Nat
    <2> HIDE DEF T
    <2>1. QED
      BY <1>1, <1>2, AllNat DEF T
  <1>4. Cardinality(D) \in Nat
    BY FS_CardinalityType
  <1>5. Small(D, Cardinality(D)) = SUBSET D
    BY FS_Subset DEF Small
  <1>6. Cardinality(D) \in T
    BY <1>3, <1>4
  <1>7. QED
    BY <1>5, <1>6

\* The sum over a part of D is one of the sums G gives.
LEMMA SumGiven ==
    ASSUME NEW D, IsFiniteSet(D), NEW f \in [D -> Nat],
           NEW G, GivesSums(f, SUBSET D, G), NEW K \in SUBSET D
    PROVE  SumFunctionOnSet(f, K) = G[K]
  <1> DEFINE Body(h) == [s \in SUBSET K |->
                 IF s = {} THEN 0 ELSE f[Taken(s)] + h[s \ {Taken(s)}]]
             h0 == [s \in SUBSET K |-> G[s]]
             sum == CHOOSE h : h = Body(h)
  <1>1. SumFunctionOnSet(f, K) = sum[K]
    BY DEF SumFunctionOnSet, FoldFunctionOnSet, MapThenFoldSet, Taken
  <1>2. \A s \in SUBSET K : s # {} => Taken(s) \in s /\ s \ {Taken(s)} \in SUBSET K
    BY TakenIn
  <1>3. h0 = Body(h0)
    <2>1. \A s \in SUBSET K : h0[s] = Body(h0)[s]
      BY <1>2 DEF GivesSums
    <2>2. QED
      BY <2>1
  <1>4. sum = Body(sum)
    <2> HIDE DEF Body, h0
    <2>1. QED
      BY <1>3
  <1> HIDE DEF sum
  <1>5. \A s \in SUBSET K :
           sum[s] = IF s = {} THEN 0 ELSE f[Taken(s)] + sum[s \ {Taken(s)}]
    BY <1>4
  <1> HIDE DEF Body
  <1> DEFINE T == {n \in Nat : \A s \in Small(K, n) : sum[s] = G[s]}
  <1>6. IsFiniteSet(K)
    BY FS_Subset
  <1>7. 0 \in T
    BY <1>5, <1>6, SmallNone DEF GivesSums
  <1>8. ASSUME NEW n \in T PROVE n + 1 \in T
    <2>1. ASSUME NEW s \in Small(K, n + 1), s # {} PROVE sum[s] = G[s]
      <3>1. s \in SUBSET K /\ s \in SUBSET D
        BY DEF Small
      <3>2. s \ {Taken(s)} \in Small(K, n)
        BY <1>6, <2>1, TakenIn, SmallerSet
      <3>3. sum[s \ {Taken(s)}] = G[s \ {Taken(s)}]
        BY <3>2
      <3>4. QED
        BY <1>5, <2>1, <3>1, <3>3 DEF GivesSums
    <2>2. sum[{}] = G[{}]
      BY <1>5 DEF GivesSums
    <2>3. \A s \in Small(K, n + 1) : sum[s] = G[s]
      BY <2>1, <2>2
    <2>4. n + 1 \in Nat
      OBVIOUS
    <2>5. QED
      BY <2>3, <2>4
  <1>9. T = Nat
    <2> HIDE DEF T
    <2>1. QED
      BY <1>7, <1>8, AllNat DEF T
  <1>10. Cardinality(K) \in Nat /\ K \in Small(K, Cardinality(K))
    BY <1>6, FS_CardinalityType DEF Small
  <1>11. QED
    BY <1>1, <1>9, <1>10

\* What is known of a sum before the order of its terms is known not to matter.
LEMMA SumTakes ==
    ASSUME NEW D, IsFiniteSet(D), NEW f \in [D -> Nat], NEW K \in SUBSET D
    PROVE  /\ SumFunctionOnSet(f, K) \in Nat
           /\ K = {} => SumFunctionOnSet(f, K) = 0
           /\ K # {} => SumFunctionOnSet(f, K) =
                   f[Taken(K)] + SumFunctionOnSet(f, K \ {Taken(K)})
  <1>1. PICK G : GivesSums(f, SUBSET D, G)
    BY SumsExist
  <1>2. SumFunctionOnSet(f, K) = G[K]
    BY <1>1, SumGiven
  <1>3. SumFunctionOnSet(f, K \ {Taken(K)}) = G[K \ {Taken(K)}]
    BY <1>1, SumGiven
  <1>4. QED
    BY <1>1, <1>2, <1>3 DEF GivesSums

\* Any of the terms may be taken out of a sum.
LEMMA SumRemove ==
    ASSUME NEW D, IsFiniteSet(D), NEW f \in [D -> Nat],
           NEW K \in SUBSET D, NEW x \in K
    PROVE  SumFunctionOnSet(f, K) = f[x] + SumFunctionOnSet(f, K \ {x})
  <1> DEFINE Sum(s) == SumFunctionOnSet(f, s)
             T == {n \in Nat : \A s \in Small(D, n) : \A y \in s :
                                  Sum(s) = f[y] + Sum(s \ {y})}
  <1>1. \A s \in SUBSET D : Sum(s) \in Nat
    BY SumTakes
  <1>2. \A s \in SUBSET D : s # {} => Sum(s) = f[Taken(s)] + Sum(s \ {Taken(s)})
    BY SumTakes
  <1> HIDE DEF Sum
  <1>3. 0 \in T
    BY SmallNone
  <1>4. ASSUME NEW n \in T PROVE n + 1 \in T
    <2>1. ASSUME NEW s \in Small(D, n + 1), NEW y \in s
          PROVE  Sum(s) = f[y] + Sum(s \ {y})
      <3> DEFINE t == Taken(s)
      <3>1. t \in s /\ s \in SUBSET D
        BY TakenIn DEF Small
      <3> HIDE DEF t
      <3>2. Sum(s) = f[t] + Sum(s \ {t})
        BY <1>2, <3>1 DEF t
      <3>3. CASE y # t
        <4>1. s \ {t} \in Small(D, n) /\ s \ {y} \in Small(D, n)
          BY <3>1, SmallerSet
        <4>2. Sum(s \ {t}) = f[y] + Sum((s \ {t}) \ {y})
          BY <3>3, <4>1
        <4>3. Sum(s \ {y}) = f[t] + Sum((s \ {y}) \ {t})
          BY <3>1, <3>3, <4>1
        <4> DEFINE rest == Sum((s \ {y}) \ {t})
        <4>4. (s \ {t}) \ {y} = (s \ {y}) \ {t}
          OBVIOUS
        <4>5. rest \in Nat /\ f[t] \in Nat /\ f[y] \in Nat
          BY <1>1, <3>1
        <4>6. Sum(s) = f[t] + (f[y] + rest) /\ Sum(s \ {y}) = f[t] + rest
          BY <3>2, <4>2, <4>3, <4>4
        <4> HIDE DEF rest
        <4>7. QED
          BY <4>5, <4>6
      <3>4. QED
        BY <3>2, <3>3
    <2>2. n + 1 \in Nat
      OBVIOUS
    <2>3. QED
      BY <2>1, <2>2
  <1>5. T = Nat
    <2> HIDE DEF T
    <2>1. QED
      BY <1>3, <1>4, AllNat DEF T
  <1>6. IsFiniteSet(K) /\ Cardinality(K) \in Nat /\ K \in Small(D, Cardinality(K))
    BY FS_Subset, FS_CardinalityType DEF Small
  <1>7. QED
    BY <1>5, <1>6 DEF Sum

\* A part of a sum is at most the whole.
LEMMA SumMonotone ==
    ASSUME NEW D, IsFiniteSet(D), NEW f \in [D -> Nat],
           NEW L \in SUBSET D, NEW K \in SUBSET L
    PROVE  SumFunctionOnSet(f, K) <= SumFunctionOnSet(f, L)
  <1> DEFINE Sum(s) == SumFunctionOnSet(f, s)
             T == {n \in Nat : \A s \in Small(D, n) : K \subseteq s => Sum(K) <= Sum(s)}
  <1>1. \A s \in SUBSET D : Sum(s) \in Nat
    BY SumTakes
  <1>2. ASSUME NEW s \in SUBSET D, NEW y \in s
        PROVE  Sum(s) = f[y] + Sum(s \ {y})
    BY SumRemove
  <1> HIDE DEF Sum
  <1>3. 0 \in T
    <2>1. \A s \in Small(D, 0) : K \subseteq s => K = s /\ s \in SUBSET D
      BY SmallNone
    <2>2. QED
      BY <1>1, <2>1
  <1>4. ASSUME NEW n \in T PROVE n + 1 \in T
    <2>1. ASSUME NEW s \in Small(D, n + 1), K \subseteq s, K # s
          PROVE  Sum(K) <= Sum(s)
      <3>1. PICK y \in s : y \notin K
        BY <2>1
      <3>2. s \ {y} \in Small(D, n) /\ s \in SUBSET D /\ y \in D
        BY SmallerSet DEF Small
      <3>3. Sum(K) <= Sum(s \ {y})
        BY <2>1, <3>1, <3>2
      <3>4. Sum(s) = f[y] + Sum(s \ {y}) /\ f[y] \in Nat
        BY <1>2, <3>2
      <3>5. Sum(K) \in Nat /\ Sum(s \ {y}) \in Nat
        BY <1>1, <3>2
      <3>6. QED
        BY <3>3, <3>4, <3>5
    <2>2. n + 1 \in Nat /\ Sum(K) \in Nat
      BY <1>1
    <2>3. QED
      BY <2>1, <2>2
  <1>5. T = Nat
    <2> HIDE DEF T
    <2>1. QED
      BY <1>3, <1>4, AllNat DEF T
  <1>6. IsFiniteSet(L) /\ Cardinality(L) \in Nat /\ L \in Small(D, Cardinality(L))
    BY FS_Subset, FS_CardinalityType DEF Small
  <1>7. QED
    BY <1>5, <1>6 DEF Sum

-----------------------------------------------------------------------------
(* Tokens.                                                                 *)

LEMMA SizeType ==
    TypeOK => /\ IsFiniteSet({0} \union Positions)
              /\ Size \in [{0} \union Positions -> Nat]
  <1>1. SUFFICES ASSUME TypeOK
                 PROVE  /\ IsFiniteSet({0} \union Positions)
                        /\ Size \in [{0} \union Positions -> Nat]
    OBVIOUS
  <1>2. Len(history) \in Nat /\ \A i \in Positions : history[i] \in Message
    BY <1>1 DEF TypeOK, Positions
  <1>3. IsFiniteSet(Positions)
    BY <1>2, FS_Interval DEF Positions
  <1>4. {0} \union Positions = Positions \union {0}
    OBVIOUS
  <1>5. IsFiniteSet({0} \union Positions)
    BY <1>3, <1>4, FS_AddElement
  <1>6. summary \in Nat /\ \A i \in Positions : history[i].tokens \in Nat
    BY <1>1, <1>2 DEF TypeOK, Message
  <1>7. QED
    BY <1>5, <1>6 DEF Size

\* A part of a list counts at most as many tokens as the list.
LEMMA TokensMonotone ==
    ASSUME TypeOK, NEW L \in SUBSET ({0} \union Positions), NEW K \in SUBSET L
    PROVE  /\ Tokens(K) \in Nat
           /\ Tokens(L) \in Nat
           /\ Tokens(K) <= Tokens(L)
  <1>1. K \in SUBSET ({0} \union Positions)
    OBVIOUS
  <1>2. QED
    BY <1>1, SizeType, SumTakes, SumMonotone DEF Tokens

\* The first message of a list that is not a system message starts a group.
LEMMA FirstStarts ==
    ASSUME NEW K \in SUBSET Nat, Others(K) # {}
    PROVE  \E m \in Starts(K) : \A j \in Others(K) : m <= j
  <1>1. Others(K) \subseteq Nat
    BY DEF Others
  <1>2. PICK m \in Others(K) : \A j \in Others(K) : m <= j
    BY <1>1, Least
  <1>3. \A c \in Others(K) : ~Answers(K, c, m)
    BY <1>1, <1>2 DEF Answers
  <1>4. QED
    BY <1>2, <1>3 DEF Starts

\* A whole tail has no groups of its own.
LEMMA TailStarts ==
    ASSUME NEW K \in SUBSET Nat, NEW L, WholeTail(K, L), NEW g \in Starts(K), g \in L
    PROVE  g \in Starts(L)
  <1>1. L \subseteq K /\ Others(L) \subseteq Others(K) /\ g \in Others(L)
    BY DEF WholeTail, Starts, Others, Systems
  <1>2. ASSUME NEW c \in Others(L), Answers(L, c, g) PROVE FALSE
    <2>1. \A j \in Others(K) : c < j => j \in Others(L)
      BY <1>1, <1>2 DEF WholeTail, Others, Systems
    <2>2. Answers(K, c, g)
      BY <1>1, <1>2, <2>1 DEF Answers
    <2>3. QED
      BY <1>1, <2>2 DEF Starts
  <1>3. QED
    BY <1>1, <1>2 DEF Starts

\* From a later message on there is less.
LEMMA FromShrinks ==
    ASSUME NEW K \in SUBSET Nat, NEW g \in K, NEW h \in K, h <= g
    PROVE  From(K, g) \subseteq From(K, h)
  <1>1. ASSUME NEW j \in Others(K), j >= g PROVE j >= h
    BY <1>1 DEF Others
  <1>2. QED
    BY <1>1 DEF From

-----------------------------------------------------------------------------
(* Nothing is dropped needlessly.                                          *)

\* Until TrimByToken runs the list is the one after the summary step.
Untrimmed == pc \in {"measure", "summarize", "trim"} => kept = base

SpaceInv == Untrimmed /\ DroppedForSpace

\* What depends on the history, the base and the sizes stays.
LEMMA SameSizes ==
    ASSUME UNCHANGED <<history, config, base, summary>>
    PROVE  /\ Starts(base)' = Starts(base)
           /\ \A g : Tokens(KeepFrom(base, g))' = Tokens(KeepFrom(base, g))
  <1>1. Positions' = Positions /\ Size' = Size /\ Systems(base)' = Systems(base)
    BY DEF Positions, Size, Systems, Kind
  <1>2. Others(base)' = Others(base)
    BY <1>1 DEF Others
  <1>3. \A c, i : Answers(base, c, i)' = Answers(base, c, i)
    BY <1>2 DEF Answers, Kind
  <1>4. QED
    BY <1>1, <1>2, <1>3 DEF Starts, Tokens, KeepFrom, From

LEMMA TrimSpace ==
    ASSUME TypeOK, SpaceInv, Trim PROVE DroppedForSpace'
  <1>1. kept = base /\ base \in SUBSET Nat /\ base \subseteq {0} \union Positions
    BY PositionsNat DEF SpaceInv, Untrimmed, Trim, TypeOK
  <1>2. UNCHANGED <<history, config, base, summary>>
    BY DEF Trim
  <1>3. ASSUME NEW h \in Starts(base), h \notin kept'
        PROVE  Tokens(KeepFrom(base, h)) > config.maxTokens
    <2>1. PICK g \in Starts(base) : CutAt(base, g) /\ kept' = KeepFrom(base, g)
      BY <1>1, <1>3 DEF Trim
    <2>2. g \in Others(base) /\ h \in Others(base) /\ g \in Nat /\ h \in Nat
      BY <1>1 DEF Starts, Others
    <2>3. h < g
      BY <1>3, <2>1, <2>2 DEF KeepFrom, From
    <2>4. From(base, g) \subseteq From(base, h)
      BY <1>1, <2>2, <2>3, FromShrinks DEF Others
    <2>5. From(base, h) \subseteq KeepFrom(base, h)
      BY DEF KeepFrom
    <2>6. KeepFrom(base, h) \subseteq {0} \union Positions
      BY <1>1, CutSubset
    <2>7. config.maxTokens \in Nat
      BY DEF TypeOK, Config
    <2>8. /\ Tokens(From(base, h)) \in Nat /\ Tokens(From(base, g)) \in Nat
          /\ Tokens(KeepFrom(base, h)) \in Nat
          /\ Tokens(From(base, g)) <= Tokens(From(base, h))
          /\ Tokens(From(base, h)) <= Tokens(KeepFrom(base, h))
      BY <2>4, <2>5, <2>6, TokensMonotone
    <2>9. Tokens(From(base, h)) > config.maxTokens \/ Tokens(From(base, g)) > config.maxTokens
      BY <2>1, <2>3 DEF CutAt
    <2>10. QED
      BY <2>7, <2>8, <2>9
  <1>4. QED
    BY <1>2, <1>3, SameSizes DEF DroppedForSpace

LEMMA DropSpace ==
    ASSUME TypeOK, CutInv, SpaceInv, GuardDrop PROVE DroppedForSpace'
  <1>1. base \in SUBSET Nat /\ base \subseteq {0} \union Positions /\ kept \subseteq base
    BY PositionsNat DEF TypeOK
  <1>2. UNCHANGED <<history, config, base, summary>>
    BY DEF GuardDrop
  <1>3. PICK f \in Starts(kept), g \in Starts(kept) :
            /\ f < g /\ \A h \in Starts(kept) : h < g => h = f
            /\ kept' = KeepFrom(kept, g)
    BY DEF GuardDrop
  <1>4. Others(kept) \subseteq Nat /\ f \in Others(kept) /\ g \in Others(kept)
    BY <1>1 DEF Starts, Others
  <1>5. \A j \in Others(kept) : f <= j
    <2>1. PICK m \in Starts(kept) : \A j \in Others(kept) : m <= j
      BY <1>1, <1>4, FirstStarts
    <2>2. m \in Others(kept) /\ m <= f
      BY <1>4, <2>1 DEF Starts
    <2>3. m = f
      BY <1>3, <1>4, <2>1, <2>2
    <2>4. QED
      BY <2>1, <2>3
  <1>6. kept \subseteq KeepFrom(base, f)
    BY <1>1, <1>5 DEF CutInv, WholeTail, KeepFrom, From, Others, Systems
  <1>7. Tokens(kept) <= Tokens(KeepFrom(base, f))
        /\ Tokens(kept) \in Nat /\ Tokens(KeepFrom(base, f)) \in Nat
    <2>1. KeepFrom(base, f) \in SUBSET ({0} \union Positions)
      BY <1>1, CutSubset
    <2>2. QED
      BY <1>6, <2>1, TokensMonotone
  <1>8. Tokens(kept) > config.maxTokens /\ config.maxTokens \in Nat
    BY <1>7 DEF GuardDrop, TooLong, TypeOK, Config
  <1>9. ASSUME NEW h \in Starts(base), h \notin kept'
        PROVE  Tokens(KeepFrom(base, h)) > config.maxTokens
    <2>1. CASE h \notin kept
      BY <2>1 DEF SpaceInv, DroppedForSpace
    <2>2. CASE h \in kept
      <3>1. h \in Starts(kept)
        BY <1>1, <2>2, TailStarts DEF CutInv
      <3>2. h \in Others(kept)
        BY <3>1 DEF Starts
      <3>3. h < g
        BY <1>3, <1>4, <1>9, <3>2 DEF KeepFrom, From
      <3>4. h = f
        BY <1>3, <3>1, <3>3
      <3>5. QED
        BY <1>7, <1>8, <3>4
    <2>3. QED
      BY <2>1, <2>2
  <1>10. QED
    BY <1>2, <1>9, SameSizes DEF DroppedForSpace

LEMMA NextSpaceInv == TypeOK /\ CutInv /\ SpaceInv /\ [Next]_vars => SpaceInv'
  <1>1. SUFFICES ASSUME TypeOK, CutInv, SpaceInv, [Next]_vars PROVE SpaceInv'
    OBVIOUS
  <1>2. CASE \/ UNCHANGED vars \/ Measure \/ SkipSummary \/ SkipTrim \/ GuardReturn
    <2>1. UNCHANGED <<history, config, kept, base, summary>>
      BY <1>2 DEF vars, Measure, SkipSummary, SkipTrim, GuardReturn
    <2>2. DroppedForSpace'
      BY <1>1, <2>1, SameSizes DEF SpaceInv, DroppedForSpace
    <2>3. Untrimmed'
      BY <1>1, <1>2, <2>1
      DEF SpaceInv, Untrimmed, vars, Measure, SkipSummary, SkipTrim, GuardReturn
    <2>4. QED
      BY <2>2, <2>3 DEF SpaceInv
  <1>3. CASE Summarize
    <2>1. base' = kept'
      BY <1>3 DEF Summarize
    <2>2. Starts(base)' \subseteq base'
      BY DEF Starts, Others
    <2>3. QED
      BY <2>1, <2>2 DEF SpaceInv, Untrimmed, DroppedForSpace
  <1>4. CASE Trim
    BY <1>1, <1>4, TrimSpace DEF Trim, SpaceInv, Untrimmed
  <1>5. CASE GuardDrop
    BY <1>1, <1>5, DropSpace DEF GuardDrop, SpaceInv, Untrimmed
  <1>6. QED
    BY <1>1, <1>2, <1>3, <1>4, <1>5 DEF Next

\* Nothing is dropped needlessly: with the last group dropped, whether by
\* TrimByToken or by FINAL_GUARD, the list would have exceeded the window.
THEOREM DroppedForSpaceAlways == Spec => []DroppedForSpace
  <1>1. Init => SpaceInv
    BY DEF Init, SpaceInv, Untrimmed, DroppedForSpace, Starts, Others
  <1>2. SpaceInv => DroppedForSpace
    BY DEF SpaceInv
  <1>3. QED
    BY <1>1, <1>2, NextSpaceInv, TypeCorrect, CutInvAlways, PTL DEF Spec

-----------------------------------------------------------------------------
(* TrimByToken has exactly one cut to make, and Process always goes on.    *)

\* A non-empty set of numbers with a bound has a greatest.
LEMMA Greatest ==
    ASSUME NEW T, T \subseteq Nat, T # {}, NEW b \in Nat, \A x \in T : x <= b
    PROVE  \E x \in T : \A y \in T : y <= x
  <1> DEFINE U == {n \in Nat : \A x \in T : x <= n}
  <1>1. PICK u \in U : \A n \in U : u <= n
    <2>1. U \subseteq Nat /\ U # {}
      OBVIOUS
    <2> HIDE DEF U
    <2>2. QED
      BY <2>1, Least
  <1>2. CASE u \in T
    BY <1>1, <1>2
  <1>3. CASE u \notin T
    <2>1. \A x \in T : x < u
      BY <1>1, <1>3
    <2>2. u \in Nat /\ u # 0
      <3>1. PICK y \in T : y \in Nat /\ y < u
        BY <2>1
      <3>2. u \in Nat
        OBVIOUS
      <3>3. QED
        BY <3>1, <3>2
    <2>3. u - 1 \in Nat /\ \A x \in T : x <= u - 1
      BY <2>1, <2>2
    <2>4. QED
      BY <1>1, <2>3
  <1>4. QED
    BY <1>2, <1>3

LEMMA StartsBounded ==
    ASSUME TypeOK, NEW K \in SUBSET ({0} \union Positions)
    PROVE  /\ Starts(K) \subseteq K /\ Starts(K) \subseteq Nat
           /\ Len(history) \in Nat
           /\ \A x \in Starts(K) : x <= Len(history)
  <1>1. Starts(K) \subseteq K
    BY DEF Starts, Others
  <1>2. Len(history) \in Nat
    BY DEF TypeOK
  <1>3. \A x \in {0} \union Positions : x \in Nat /\ x <= Len(history)
    BY <1>2 DEF Positions
  <1>4. QED
    BY <1>1, <1>2, <1>3

\* What the search for the cut compares.
LEMMA FromTokens ==
    ASSUME TypeOK, NEW K \in SUBSET ({0} \union Positions)
    PROVE  /\ config.maxTokens \in Nat
           /\ \A g : Tokens(From(K, g)) \in Nat
           /\ \A g, h \in Starts(K) : h <= g => Tokens(From(K, g)) <= Tokens(From(K, h))
  <1>1. config.maxTokens \in Nat
    BY DEF TypeOK, Config
  <1>2. ASSUME NEW g PROVE Tokens(From(K, g)) \in Nat
    <2>1. From(K, g) \in SUBSET K
      BY DEF From, Others
    <2>2. QED
      BY <2>1, TokensMonotone
  <1>3. ASSUME NEW g \in Starts(K), NEW h \in Starts(K), h <= g
        PROVE  Tokens(From(K, g)) <= Tokens(From(K, h))
    <2>1. K \in SUBSET Nat /\ g \in K /\ h \in K
      BY PositionsNat, StartsBounded
    <2>2. From(K, g) \subseteq From(K, h)
      BY <1>3, <2>1, FromShrinks
    <2>3. From(K, h) \subseteq K
      BY DEF From, Others
    <2>4. QED
      BY <2>2, <2>3, TokensMonotone
  <1>4. QED
    BY <1>1, <1>2, <1>3

\* The loop of TrimByToken always ends at a cut.
LEMMA CutExists ==
    ASSUME TypeOK, NEW K \in SUBSET ({0} \union Positions), Starts(K) # {}
    PROVE  \E g \in Starts(K) : CutAt(K, g)
  <1> DEFINE Sum(g) == Tokens(From(K, g))
             max == config.maxTokens
             Fits == {g \in Starts(K) : Sum(g) <= max}
  <1>1. /\ max \in Nat /\ \A g : Sum(g) \in Nat
        /\ \A g, h \in Starts(K) : h <= g => Sum(g) <= Sum(h)
    BY FromTokens
  <1>2. /\ Starts(K) \subseteq Nat /\ Len(history) \in Nat
        /\ \A x \in Starts(K) : x <= Len(history)
    BY StartsBounded
  <1>3. \A g : CutAt(K, g) <=>
            \/ /\ Sum(g) <= max
               /\ \A h \in Starts(K) : h < g => Sum(h) > max /\ Sum(g) > 0
            \/ /\ Sum(g) > max
               /\ \A h \in Starts(K) : h > g => Sum(h) = 0
    BY DEF CutAt
  <1> HIDE DEF Sum, max
  <1>4. CASE Fits = {}
    <2>1. PICK g \in Starts(K) : \A h \in Starts(K) : h <= g
      BY <1>2, Greatest
    <2>2. Sum(g) > max
      BY <1>1, <1>4
    <2>3. \A h \in Starts(K) : ~(h > g)
      BY <1>2, <2>1
    <2>4. QED
      BY <1>3, <2>2, <2>3
  <1>5. CASE Fits # {}
    <2>1. PICK g \in Fits : \A h \in Fits : g <= h
      BY <1>2, <1>5, Least
    <2>2. \A h \in Starts(K) : h < g => Sum(h) > max
      BY <1>1, <1>2, <2>1
    <2> DEFINE Before == {h \in Starts(K) : h < g}
    <2>3. CASE Before = {} \/ Sum(g) > 0
      BY <1>3, <2>1, <2>2, <2>3
    <2>4. CASE Before # {} /\ ~(Sum(g) > 0)
      <3>1. Before \subseteq Nat /\ \A x \in Before : x <= Len(history)
        BY <1>2
      <3>2. PICK f \in Before : \A h \in Before : h <= f
        BY <1>2, <2>4, <3>1, Greatest
      <3>3. Sum(f) > max
        BY <2>2, <3>2
      <3>4. ASSUME NEW h \in Starts(K), h > f PROVE Sum(h) = 0
        <4>1. g <= h
          BY <1>2, <2>1, <3>2, <3>4
        <4>2. Sum(h) <= Sum(g) /\ Sum(g) = 0
          BY <1>1, <2>1, <2>4, <4>1
        <4>3. QED
          BY <1>1, <4>2
      <3>5. QED
        BY <1>3, <3>2, <3>3, <3>4
    <2>5. QED
      BY <2>3, <2>4
  <1>6. QED
    BY <1>4, <1>5

LEMMA CutUnique ==
    ASSUME TypeOK, NEW K \in SUBSET ({0} \union Positions),
           NEW g \in Starts(K), NEW h \in Starts(K), CutAt(K, g), CutAt(K, h)
    PROVE  g = h
  <1>1. /\ config.maxTokens \in Nat
        /\ Tokens(From(K, g)) \in Nat /\ Tokens(From(K, h)) \in Nat
        /\ h <= g => Tokens(From(K, g)) <= Tokens(From(K, h))
        /\ g <= h => Tokens(From(K, h)) <= Tokens(From(K, g))
    BY FromTokens
  <1>2. g \in Nat /\ h \in Nat
    BY StartsBounded
  <1>3. CASE h < g
    BY <1>1, <1>2, <1>3 DEF CutAt
  <1>4. CASE g < h
    BY <1>1, <1>2, <1>4 DEF CutAt
  <1>5. QED
    BY <1>2, <1>3, <1>4

\* With two groups there is a first and a second.
LEMMA FirstTwo ==
    ASSUME TypeOK, NEW K \in SUBSET ({0} \union Positions), ~(Cardinality(Starts(K)) <= 1)
    PROVE  \E f, g \in Starts(K) : f < g /\ \A h \in Starts(K) : h < g => h = f
  <1> DEFINE S == Starts(K)
  <1>1. S \subseteq Nat
    BY StartsBounded
  <1>2. S # {} /\ \A x : S # {x}
    <2>1. Cardinality({}) = 0 /\ \A x : Cardinality({x}) = 1
      BY FS_EmptySet, FS_Singleton
    <2>2. Cardinality(S) # 0 /\ Cardinality(S) # 1
      OBVIOUS
    <2>3. QED
      BY <2>1, <2>2
  <1> HIDE DEF S
  <1>3. PICK f \in S : \A h \in S : f <= h
    BY <1>1, <1>2, Least
  <1>4. S \ {f} # {} /\ S \ {f} \subseteq Nat
    BY <1>1, <1>2, <1>3
  <1>5. PICK g \in S \ {f} : \A h \in S \ {f} : g <= h
    BY <1>4, Least
  <1>6. f < g /\ \A h \in S : h < g => h = f
    BY <1>1, <1>3, <1>5
  <1>7. QED
    BY <1>3, <1>5, <1>6 DEF S

\* Before its end Process has a step to take: TrimByToken has one cut to make
\* and no more, or no group to cut at; FINAL_GUARD has a group to drop whenever
\* it does not return.
CanGoOn ==
    /\ pc = "trim" /\ TooLong /\ Starts(kept) # {} =>
          \E g \in Starts(kept) :
              CutAt(kept, g) /\ \A h \in Starts(kept) : CutAt(kept, h) => h = g
    /\ pc = "guard" /\ TooLong =>
          \/ rounds = GuardRounds
          \/ Cardinality(Starts(kept)) <= 1
          \/ /\ rounds < GuardRounds
             /\ \E f, g \in Starts(kept) :
                    f < g /\ \A h \in Starts(kept) : h < g => h = f

\* TrimByToken is a function of the list, and no list stops FINAL_GUARD.
THEOREM CanGoOnAlways == Spec => []CanGoOn
  <1>1. ASSUME TypeOK PROVE CanGoOn
    <2>1. kept \in SUBSET ({0} \union Positions)
      BY <1>1 DEF TypeOK
    <2>2. Starts(kept) # {} =>
            \E g \in Starts(kept) :
              CutAt(kept, g) /\ \A h \in Starts(kept) : CutAt(kept, h) => h = g
      BY <1>1, <2>1, CutExists, CutUnique
    <2>3. ~(Cardinality(Starts(kept)) <= 1) =>
            \E f, g \in Starts(kept) : f < g /\ \A h \in Starts(kept) : h < g => h = f
      BY <1>1, <2>1, FirstTwo
    <2>4. rounds < GuardRounds \/ rounds = GuardRounds
      BY <1>1, ContextAssumption DEF TypeOK
    <2>5. QED
      BY <2>2, <2>3, <2>4 DEF CanGoOn
  <1>2. QED
    BY <1>1, TypeCorrect, PTL

\* How many steps are left at most.
StepsLeft ==
    CASE pc = "measure" -> GuardRounds + 4
      [] pc = "summarize" -> GuardRounds + 3
      [] pc = "trim" -> GuardRounds + 2
      [] pc = "guard" -> GuardRounds - rounds + 1
      [] OTHER -> 0

\* Every step of Process is one of the few it can take: the loop of FINAL_GUARD
\* is left after GuardRounds rounds, whatever the token counter says.
THEOREM StepsRunOut == Spec => [][StepsLeft' < StepsLeft /\ StepsLeft \in Nat]_vars
  <1>1. ASSUME TypeOK, TypeOK', Next
        PROVE  StepsLeft \in Nat /\ StepsLeft' < StepsLeft
    <2>1. rounds \in Nat /\ rounds <= GuardRounds /\ GuardRounds \in Nat
          /\ rounds' \in Nat /\ rounds' <= GuardRounds
      BY <1>1, ContextAssumption DEF TypeOK
    <2>2. CASE Measure
      BY <2>1, <2>2 DEF Measure, StepsLeft
    <2>3. CASE Summarize \/ SkipSummary
      BY <2>1, <2>3 DEF Summarize, SkipSummary, StepsLeft
    <2>4. CASE Trim \/ SkipTrim
      BY <2>1, <2>4 DEF Trim, SkipTrim, StepsLeft
    <2>5. CASE GuardReturn
      BY <2>1, <2>5 DEF GuardReturn, StepsLeft
    <2>6. CASE GuardDrop
      BY <2>1, <2>6 DEF GuardDrop, StepsLeft
    <2>7. QED
      BY <1>1, <2>2, <2>3, <2>4, <2>5, <2>6 DEF Next
  <1>2. QED
    BY <1>1, TypeCorrect, PTL DEF Spec

-----------------------------------------------------------------------------
(* The summary takes whole beginnings, too; it may cut through a group.    *)

\* The base is the history as it came, or a summary in place of a beginning.
BaseEnd ==
    /\ \A i \in base, j \in Positions :
          i # 0 /\ Kind(i) # "system" /\ j > i => j \in base
    /\ 0 \notin base => base = Positions

\* A call is never kept without its answers.  An answer is kept without its
\* call only after a summary has been made, and then nothing but such answers
\* stands before it, directly behind the summary.
SeparatedInFront ==
    \A c, i \in Positions :
        Answers(Positions, c, i) =>
            /\ c \in kept => i \in kept
            /\ i \in kept /\ c \notin kept =>
                  /\ 0 \in base
                  /\ \A j \in Others(kept) : j < i => j = 0 \/ Kind(j) = "tool"

LEMMA SummarizeBaseEnd ==
    ASSUME TypeOK, CutInv, BaseInv, BaseEnd, Summarize PROVE BaseEnd'
  <1>1. /\ base' = Systems(kept) \union {0} \union Retained
        /\ UNCHANGED history
    BY DEF Summarize
  <1>2. Positions' = Positions /\ \A i : Kind(i)' = Kind(i)
    BY <1>1 DEF Positions, Kind
  <1>3. ASSUME NEW i \in base', NEW j \in Positions,
               i # 0, Kind(i) # "system", j > i
        PROVE  j \in base'
    <2>1. i \in Retained /\ Retained = Recent
      BY <1>1, <1>3 DEF Systems, Retained
    <2>2. i \in Others(kept) /\ Tokens(From(kept, i)) <= config.maxTokens \div 2
      BY <2>1 DEF Recent
    <2>3. CASE Kind(j) = "system"
      <3>1. j \in Systems(base)
        BY <2>3 DEF BaseInv, Systems
      <3>2. QED
        BY <1>1, <3>1 DEF CutInv, WholeTail
    <2>4. CASE Kind(j) # "system"
      <3>1. i \in base /\ kept \subseteq base /\ kept \subseteq {0} \union Positions
        BY <2>2 DEF Others, TypeOK
      <3>2. j \in Others(base)
        BY <1>3, <2>4, <3>1 DEF BaseEnd, Others, Systems
      <3>3. j \in kept
        BY <1>3, <2>2, <3>2 DEF CutInv, WholeTail
      <3>4. j \in Others(kept)
        BY <2>4, <3>3 DEF Others, Systems
      <3>5. kept \in SUBSET Nat /\ i \in kept /\ i <= j
        BY <1>3, <2>2, <3>1, <3>3, PositionsNat DEF Others
      <3>6. From(kept, j) \subseteq From(kept, i) /\ From(kept, i) \subseteq kept
        BY <3>3, <3>5, FromShrinks DEF From, Others
      <3>7. /\ Tokens(From(kept, j)) \in Nat /\ Tokens(From(kept, i)) \in Nat
            /\ Tokens(From(kept, j)) <= Tokens(From(kept, i))
        BY <3>1, <3>6, TokensMonotone
      <3>8. config.maxTokens \div 2 \in Nat
        BY DEF TypeOK, Config
      <3>9. Tokens(From(kept, j)) <= config.maxTokens \div 2
        BY <2>2, <3>7, <3>8
      <3>10. j \in Recent
        BY <3>4, <3>9 DEF Recent
      <3>11. QED
        BY <1>1, <2>1, <3>10
    <2>5. QED
      BY <2>3, <2>4
  <1>4. QED
    BY <1>1, <1>2, <1>3 DEF BaseEnd

LEMMA NextBaseEnd ==
    TypeOK /\ CutInv /\ BaseInv /\ BaseEnd /\ [Next]_vars => BaseEnd'
  <1>1. SUFFICES ASSUME TypeOK, CutInv, BaseInv, BaseEnd, [Next]_vars PROVE BaseEnd'
    OBVIOUS
  <1>2. CASE UNCHANGED <<history, base>>
    BY <1>1, <1>2 DEF BaseEnd, Positions, Kind
  <1>3. Summarize \/ UNCHANGED <<history, base>>
    BY <1>1 DEF Next, vars, Measure, SkipSummary, Trim, SkipTrim, GuardReturn, GuardDrop
  <1>4. QED
    BY <1>1, <1>2, <1>3, SummarizeBaseEnd

\* Whatever is summarised and dropped, the model never sees a call without its
\* answers; where it sees an answer without its call, that is what the summary
\* has cut through, in front of everything else.
THEOREM SeparatedInFrontAlways == Spec => []SeparatedInFront
  <1>1. Init => BaseEnd /\ BaseInv
    BY DEF Init, BaseEnd, BaseInv
  <1>2. ASSUME TypeOK, CutInv, BaseInv, BaseEnd PROVE SeparatedInFront
    <2>1. SUFFICES ASSUME NEW c \in Positions, NEW i \in Positions,
                          Answers(Positions, c, i)
                   PROVE  /\ c \in kept => i \in kept
                          /\ i \in kept /\ c \notin kept =>
                                /\ 0 \in base
                                /\ \A j \in Others(kept) :
                                      j < i => j = 0 \/ Kind(j) = "tool"
      BY DEF SeparatedInFront
    <2>2. /\ c \in Nat /\ i \in Nat /\ 0 < c /\ c < i
          /\ Kind(c) = "call" /\ Kind(i) = "tool"
          /\ \A j \in Positions : Kind(j) # "system" /\ c < j /\ j < i => Kind(j) = "tool"
      <3>1. Positions \subseteq Nat /\ \A j \in Positions : 0 < j
        BY <1>2, PositionsNat DEF Positions, TypeOK
      <3>2. QED
        BY <2>1, <3>1 DEF Answers, Others, Systems
    <2>3. kept \subseteq base /\ kept \subseteq {0} \union Positions
          /\ base \subseteq {0} \union Positions
      BY <1>2 DEF TypeOK
    <2>4. \A j \in Others(kept), k \in Positions :
              j # 0 /\ Kind(k) # "system" /\ k > j => k \in kept
      <3>1. SUFFICES ASSUME NEW j \in Others(kept), NEW k \in Positions,
                            j # 0, Kind(k) # "system", k > j
                     PROVE  k \in kept
        OBVIOUS
      <3>2. j \in base /\ Kind(j) # "system"
        BY <2>3, <3>1 DEF Others, Systems
      <3>3. k \in Others(base)
        BY <1>2, <3>1, <3>2 DEF BaseEnd, Others, Systems
      <3>4. QED
        BY <1>2, <3>1, <3>3 DEF CutInv, WholeTail
    <2>5. c \in kept => i \in kept
      BY <2>2, <2>4 DEF Others, Systems
    <2>6. ASSUME i \in kept, c \notin kept PROVE 0 \in base
      <3>1. SUFFICES ASSUME base = Positions PROVE FALSE
        BY <1>2 DEF BaseEnd
      <3>2. QED
        BY <1>2, <2>1, <2>6, <3>1 DEF CutInv, WholeTail
    <2>7. ASSUME i \in kept, c \notin kept, NEW j \in Others(kept), j < i, j # 0
          PROVE  Kind(j) = "tool"
      <3>1. j \in Positions /\ j \in kept /\ Kind(j) # "system" /\ j \in Nat
        BY <1>2, <2>3, <2>7, PositionsNat DEF Others, Systems
      <3>2. ~(j < c) /\ j # c
        BY <2>2, <2>4, <2>7, <3>1
      <3>3. QED
        BY <2>2, <2>7, <3>1, <3>2
    <2>8. QED
      BY <2>5, <2>6, <2>7
  <1>3. QED
    BY <1>1, <1>2, NextBaseInv, NextBaseEnd, TypeCorrect, CutInvAlways, PTL DEF Spec
=============================================================================
