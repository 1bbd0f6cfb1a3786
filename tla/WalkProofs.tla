----------------------------- MODULE WalkProofs -----------------------------
(***************************************************************************)
(* What a walk along a list comes to: the streak's along the days that     *)
(* were practised, for every length of the window, the plans and the       *)
(* calendar, the seeder's along the lines of its files, for every bank and *)
(* every edition of it, and those along the frames of a minute, its        *)
(* stretches and its pauses, for every minute.                             *)
(***************************************************************************)
EXTENDS Streaks, Bank, Insights, Sums, SequenceTheorems

-----------------------------------------------------------------------------
(* The largest and the smallest of finitely many numbers, and the one with  *)
(* so many below it.                                                        *)

LEMMA MaxIs ==
  ASSUME NEW S \in SUBSET Int, IsFiniteSet(S), S # {}
  PROVE  Max(S) \in S /\ \A y \in S : Max(S) >= y
  <1> DEFINE Bad == {n \in Nat : \E T \in SUBSET S :
                       Cardinality(T) = n /\ T # {} /\ ~\E x \in T : \A y \in T : x >= y}
  <1>0. \A T \in SUBSET S : IsFiniteSet(T) /\ Cardinality(T) \in Nat
    BY FS_Subset, FS_CardinalityType
  <1>1. Bad = {}
    <2> SUFFICES ASSUME Bad # {} PROVE FALSE
      OBVIOUS
    <2>1. PICK n \in Bad : \A m \in Bad : n <= m
      BY LeastNat
    <2>2. PICK T \in SUBSET S : Cardinality(T) = n /\ T # {} /\ ~\E x \in T : \A y \in T : x >= y
      BY <2>1
    <2>3. PICK a \in T : TRUE
      BY <2>2
    <2> DEFINE U == T \ {a}
    <2>4. U \in SUBSET S /\ Cardinality(U) \in Nat /\ Cardinality(U) = n - 1
      BY <1>0, <2>2, <2>3, FS_RemoveElement
    <2>5. U # {}
      BY <2>2, <2>3
    <2>6. PICK x \in U : \A y \in U : x >= y
      <3>1. n - 1 \in Nat /\ n - 1 \notin Bad
        BY <2>1, <2>4
      <3> HIDE DEF U
      <3>2. QED
        BY <2>4, <2>5, <3>1
    <2>7. T \subseteq Int /\ x \in Int /\ a \in Int
      OBVIOUS
    <2>8. (\A y \in T : x >= y) \/ (\A y \in T : a >= y)
      <3>1. CASE x >= a
        <4>1. \A y \in T : x >= y
          BY <2>6, <3>1
        <4>2. QED
          BY <4>1
      <3>2. CASE ~(x >= a)
        <4>1. ASSUME NEW y \in T PROVE a >= y
          <5>1. y = a \/ (y \in U /\ x >= y)
            BY <2>6
          <5>2. QED
            BY <2>7, <3>2, <5>1
        <4>2. QED
          BY <4>1
      <3>3. QED
        BY <3>1, <3>2
    <2>9. QED
      BY <2>2, <2>3, <2>6, <2>8
  <1>2. \E x \in S : \A y \in S : x >= y
    BY <1>0, <1>1
  <1>3. QED
    BY <1>2, Zenon DEF Max

LEMMA MaxIsThe ==
  ASSUME NEW S \in SUBSET Int, NEW m \in S, \A y \in S : m >= y
  PROVE  Max(S) = m
  <1>1. \E x \in S : \A y \in S : x >= y
    OBVIOUS
  <1>2. Max(S) \in S /\ \A y \in S : Max(S) >= y
    BY <1>1, Zenon DEF Max
  <1>3. Max(S) \in Int /\ m \in Int /\ Max(S) >= m /\ m >= Max(S)
    BY <1>2
  <1>4. QED
    BY <1>3

LEMMA MinIsThe ==
  ASSUME NEW S \in SUBSET Int, NEW m \in S, \A y \in S : m <= y
  PROVE  Min(S) = m
  <1>1. \E x \in S : \A y \in S : x <= y
    OBVIOUS
  <1>2. Min(S) \in S /\ \A y \in S : Min(S) <= y
    BY <1>1, Zenon DEF Min
  <1>3. Min(S) \in Int /\ m \in Int /\ Min(S) <= m /\ m <= Min(S)
    BY <1>2
  <1>4. QED
    BY <1>3

LEMMA LessOfTwo ==
  ASSUME NEW a \in Int, NEW b \in Int
  PROVE  Min({a, b}) = IF a <= b THEN a ELSE b
  BY MinIsThe

LEMMA MoreOfTwo ==
  ASSUME NEW a \in Int, NEW b \in Int
  PROVE  Max({a, b}) = IF a >= b THEN a ELSE b
  BY MaxIsThe

LEMMA RankIs ==
  ASSUME NEW S \in SUBSET Int, IsFiniteSet(S), NEW k \in Nat, k < Cardinality(S)
  PROVE  \E x \in S : Cardinality({y \in S : y < x}) = k
  <1> DEFINE Ranks(T) == \A j \in Nat : j < Cardinality(T) =>
                            \E x \in T : Cardinality({y \in T : y < x}) = j
             Bad == {n \in Nat : \E T \in SUBSET S : Cardinality(T) = n /\ ~Ranks(T)}
  <1>0. \A T \in SUBSET S : IsFiniteSet(T) /\ Cardinality(T) \in Nat
    BY FS_Subset, FS_CardinalityType
  <1>1. Bad = {}
    <2> SUFFICES ASSUME Bad # {} PROVE FALSE
      OBVIOUS
    <2>1. PICK n \in Bad : \A m \in Bad : n <= m
      BY LeastNat
    <2>2. PICK T \in SUBSET S : Cardinality(T) = n /\ ~Ranks(T)
      BY <2>1
    <2>3. PICK j \in Nat : j < Cardinality(T) /\ ~\E x \in T : Cardinality({y \in T : y < x}) = j
      BY <2>2
    <2>4. T # {}
      <3> SUFFICES ASSUME T = {} PROVE FALSE
        OBVIOUS
      <3>1. Cardinality(T) = 0
        BY FS_EmptySet
      <3>2. QED
        BY <2>3, <3>1
    <2> DEFINE m == Max(T)
               U == T \ {m}
    <2>5. m \in T /\ T \in SUBSET Int /\ \A y \in T : m >= y
      <3>1. T \in SUBSET Int /\ IsFiniteSet(T)
        BY <1>0
      <3>2. QED
        BY <2>4, <3>1, MaxIs
    <2>6. U \in SUBSET S /\ Cardinality(U) \in Nat /\ Cardinality(U) = n - 1
      BY <1>0, <2>2, <2>5, FS_RemoveElement
    <2> HIDE DEF m
    <2>7. {y \in T : y < m} = U
      <3>1. ASSUME NEW y \in T PROVE y < m <=> y # m
        <4>1. y \in Int /\ m \in Int /\ m >= y
          BY <2>5
        <4>2. QED
          BY <4>1
      <3>2. QED
        BY <3>1
    <2>8. j # n - 1
      BY <2>3, <2>5, <2>6, <2>7
    <2>9. Ranks(U)
      <3>1. n - 1 \in Nat /\ n - 1 \notin Bad
        BY <2>1, <2>6
      <3> HIDE DEF Ranks, U
      <3>2. QED
        BY <2>6, <3>1
    <2>10. PICK x \in U : Cardinality({y \in U : y < x}) = j
      <3>1. j < Cardinality(U)
        BY <2>2, <2>3, <2>6, <2>8
      <3>2. QED
        BY <2>3, <2>9, <3>1
    <2>11. {y \in U : y < x} = {y \in T : y < x}
      BY <2>5
    <2>12. QED
      BY <2>3, <2>10, <2>11
  <1>2. Ranks(S)
    <2> HIDE DEF Ranks
    <2>1. QED
      BY <1>0, <1>1
  <1>3. QED
    BY <1>2

-----------------------------------------------------------------------------
(* The rule: the spacing the walk looks at is the window the rule names.    *)

LEMMA Sizes ==
  /\ Freezes \in Nat /\ Window \in Nat /\ FreeDays \in Nat /\ ProDaysMax \in Nat
  /\ 0 < Freezes /\ Freezes < Window /\ 0 < FreeDays /\ FreeDays <= ProDaysMax
  /\ Ahead \in Nat /\ LastDay \in Nat /\ LastDay + Ahead \in Nat
  /\ \A t \in Tracks : t \in Nat /\ FreeDays <= t
  BY RuleAssumption, ClockAssumption

\* No window that begins with one of these days holds too many of them.
Allowed(missed) == \A d \in missed : Cardinality(missed \cap (d .. d + Window - 1)) <= Freezes

LEMMA ApartIsAllowed ==
  ASSUME NEW H \in SUBSET Int, IsFiniteSet(H)
  PROVE  Apart(H, Window) <=> Allowed(H)
  <1>0. \A S : IsFiniteSet(H \cap S) /\ Cardinality(H \cap S) \in Nat
    BY FS_Subset, FS_CardinalityType
  <1>1. ASSUME Allowed(H), NEW early \in H, NEW late \in H,
               Cardinality(H \cap (early .. late - 1)) = Freezes, ~(late - early >= Window)
        PROVE  FALSE
    <2> DEFINE I == H \cap (early .. late - 1)
               W == H \cap (early .. early + Window - 1)
    <2>1. early \in Int /\ late \in Int
      OBVIOUS
    <2>2. I # {}
      BY <1>1, Sizes, FS_EmptySet
    <2>3. early < late
      BY <2>1, <2>2
    <2>4. late \notin I /\ I \cup {late} \subseteq W
      BY <1>1, <2>1, <2>3, Sizes
    <2>5. Cardinality(I \cup {late}) = Freezes + 1 /\ IsFiniteSet(W) /\ IsFiniteSet(I)
      <3>1. IsFiniteSet(I) /\ IsFiniteSet(W)
        BY <1>0
      <3> HIDE DEF I, W
      <3>2. Cardinality(I \cup {late}) = Cardinality(I) + 1
        BY <2>4, <3>1, FS_AddElement
      <3>3. Cardinality(I) = Freezes
        BY <1>1 DEF I
      <3>4. QED
        BY <3>1, <3>2, <3>3
    <2>6. Cardinality(I \cup {late}) <= Cardinality(W) /\ Cardinality(W) \in Nat
      <3> HIDE DEF I, W
      <3>1. QED
        BY <2>4, <2>5, FS_Subset, FS_CardinalityType
    <2>7. Cardinality(W) <= Freezes
      BY <1>1 DEF Allowed
    <2>8. QED
      BY <2>5, <2>6, <2>7, Sizes
  <1>2. ASSUME Apart(H, Window), NEW d \in H, ~(Cardinality(H \cap (d .. d + Window - 1)) <= Freezes)
        PROVE  FALSE
    <2> DEFINE T == H \cap (d .. d + Window - 1)
    <2>1. T \in SUBSET Int /\ IsFiniteSet(T) /\ Freezes < Cardinality(T)
      BY <1>0, <1>2, Sizes
    <2>2. PICK late \in T : Cardinality({y \in T : y < late}) = Freezes
      <3> HIDE DEF T
      <3>1. QED
        BY <2>1, RankIs, Sizes
    <2>3. {y \in T : y < late} = H \cap (d .. late - 1)
      <3>1. ASSUME NEW y \in H
            PROVE  (y \in d .. d + Window - 1 /\ y < late) <=> y \in d .. late - 1
        BY Sizes
      <3>2. QED
        BY <3>1
    <2>4. late - d >= Window
      BY <1>2, <2>2, <2>3 DEF Apart
    <2>5. QED
      BY <2>2, <2>4, Sizes
  <1>3. QED
    BY <1>1, <1>2 DEF Apart, Allowed

LEMMA AllowedLess ==
  ASSUME NEW H \in SUBSET Int, IsFiniteSet(H), NEW G \in SUBSET H, Allowed(H)
  PROVE  Allowed(G)
  <1> SUFFICES ASSUME NEW d \in G PROVE Cardinality(G \cap (d .. d + Window - 1)) <= Freezes
    BY DEF Allowed
  <1> DEFINE I == d .. d + Window - 1
  <1> HIDE DEF I
  <1>1. Cardinality(H \cap I) <= Freezes
    BY DEF Allowed, I
  <1>2. IsFiniteSet(H \cap I) /\ Cardinality(H \cap I) \in Nat
    BY FS_Subset, FS_CardinalityType
  <1>3. G \cap I \in SUBSET (H \cap I)
    OBVIOUS
  <1>4. Cardinality(G \cap I) <= Cardinality(H \cap I) /\ Cardinality(G \cap I) \in Nat
    BY <1>2, <1>3, FS_Subset, FS_CardinalityType
  <1>5. Cardinality(G \cap I) <= Freezes
    BY <1>1, <1>2, <1>4, Sizes
  <1>6. QED
    BY <1>5 DEF I

\* That a gap alone may be too long follows, a window being longer than what
\* it forgives.
LEMMA FreezableIs ==
  ASSUME NEW earlier \in Int, NEW later \in Int, NEW spent \in SUBSET Int, IsFiniteSet(spent)
  PROVE  Freezable(earlier, later, spent) <=> Allowed(spent \cup Missed(earlier, later))
  <1> DEFINE M == Missed(earlier, later)
             H == spent \cup M
  <1>1. M \in SUBSET Int /\ IsFiniteSet(M) /\ Cardinality(M) = (IF earlier + 1 > later - 1 THEN 0 ELSE later - earlier - 1)
    BY FS_Interval DEF Missed
  <1>2. H \in SUBSET Int /\ IsFiniteSet(H)
    <2> HIDE DEF M
    <2>1. IsFiniteSet(H)
      BY <1>1, FS_Union
    <2>2. QED
      BY <1>1, <2>1
  <1>3. Apart(H, Window) <=> Allowed(H)
    <2> HIDE DEF H
    <2>1. QED
      BY <1>2, ApartIsAllowed
  <1>4. ASSUME Allowed(H), ~(Cardinality(M) <= Freezes) PROVE FALSE
    <2> DEFINE I == earlier + 1 .. earlier + Freezes + 1
               W == H \cap (earlier + 1 .. earlier + 1 + Window - 1)
    <2>1. later - earlier - 1 > Freezes
      BY <1>1, <1>4, Sizes
    <2>2. I \subseteq W /\ earlier + 1 \in H
      BY <2>1, Sizes DEF Missed
    <2>3. Cardinality(I) = Freezes + 1
      BY FS_Interval, Sizes
    <2>4. IsFiniteSet(W) /\ Cardinality(W) \in Nat
      <3> HIDE DEF H
      <3>1. QED
        BY <1>2, FS_Subset, FS_CardinalityType
    <2>5. Cardinality(I) <= Cardinality(W)
      <3> HIDE DEF I, W
      <3>1. QED
        BY <2>2, <2>4, FS_Subset
    <2>6. Cardinality(W) <= Freezes
      <3> HIDE DEF H
      <3>1. QED
        BY <1>4, <2>2 DEF Allowed
    <2>7. QED
      BY <2>3, <2>4, <2>5, <2>6, Sizes
  <1>5. QED
    BY <1>3, <1>4 DEF Freezable

-----------------------------------------------------------------------------
(* Chains read back from the newest day.                                    *)

Back(days, first) == Between(days, first, Max(days))

Missing(days, first) == {d \in first + 1 .. Max(days) - 1 : d \notin days}

\* The days since this one are a chain the rule forgives.
Good(days, first, rule) == Missing(days, first) = {} \/ (rule.freezes /\ Allowed(Missing(days, first)))

LEMMA DaysAre ==
  ASSUME NEW days \in SUBSET Days
  PROVE  /\ days \in SUBSET Int /\ days \in SUBSET Nat /\ IsFiniteSet(days) /\ Cardinality(days) \in Nat
         /\ days # {} => /\ Max(days) \in days /\ \A d \in days : Max(days) >= d
                         /\ Cardinality(days) > 0
  <1>1. IsFiniteSet(Days) /\ Days \subseteq Nat
    BY FS_Interval, Sizes DEF Days
  <1>2. IsFiniteSet(days) /\ days \in SUBSET Int /\ Cardinality(days) \in Nat
    <2>1. IsFiniteSet(days)
      BY <1>1, FS_Subset
    <2>2. days \in SUBSET Nat
      BY <1>1
    <2>3. QED
      BY <2>1, <2>2, FS_CardinalityType
  <1>3. days # {} => Cardinality(days) > 0
    BY <1>2, FS_EmptySet
  <1>4. QED
    BY <1>1, <1>2, <1>3, MaxIs

LEMMA BackIs ==
  ASSUME NEW days \in SUBSET Days, NEW first \in days
  PROVE  /\ IsFiniteSet(Back(days, first)) /\ Cardinality(Back(days, first)) \in Nat
         /\ Cardinality(Back(days, first)) <= Cardinality(days)
         /\ Cardinality(Back(days, first)) > 0 /\ first \in Back(days, first)
         /\ IsFiniteSet(Missing(days, first)) /\ Missing(days, first) \in SUBSET Int
  <1>1. first \in Back(days, first) /\ Back(days, first) \in SUBSET days
    BY DaysAre DEF Back, Between
  <1>2. IsFiniteSet(Back(days, first)) /\ Cardinality(Back(days, first)) <= Cardinality(days)
    BY <1>1, DaysAre, FS_Subset
  <1>3. Cardinality(Back(days, first)) \in Nat /\ Cardinality(Back(days, first)) > 0
    BY <1>1, <1>2, FS_CardinalityType, FS_EmptySet
  <1>4. first \in Int /\ Max(days) \in Int
    BY DaysAre
  <1>5. IsFiniteSet(first + 1 .. Max(days) - 1)
    BY <1>4, FS_Interval
  <1>6. Missing(days, first) \in SUBSET (first + 1 .. Max(days) - 1)
    BY DEF Missing
  <1>7. IsFiniteSet(Missing(days, first)) /\ Missing(days, first) \in SUBSET Int
    BY <1>4, <1>5, <1>6, FS_Subset
  <1>8. QED
    BY <1>1, <1>2, <1>3, <1>7

LEMMA HolesAre ==
  ASSUME NEW days \in SUBSET Days, NEW first \in days
  PROVE  Holes(Back(days, first)) = Missing(days, first)
  <1> DEFINE chain == Back(days, first)
             last == Max(days)
  <1>1. /\ first \in Int /\ last \in Int /\ last >= first /\ last \in days
        /\ first \in chain /\ last \in chain /\ chain \in SUBSET Int
        /\ \A d \in chain : first <= d /\ d <= last
    BY DaysAre DEF Back, Between
  <1>2. Min(chain) = first /\ Max(chain) = last
    <2> HIDE DEF chain, last
    <2>1. QED
      BY <1>1, MaxIsThe, MinIsThe
  <1>3. \A d : d \in first + 1 .. last - 1 => d \in Days
    BY <1>1, Sizes DEF Days
  <1>4. ASSUME NEW d, d \in Days
        PROVE  d \in Holes(chain) <=> d \in Missing(days, first)
    <2>1. d \in Int
      BY <1>4, Sizes DEF Days
    <2>2. d \in chain <=> d \in days /\ first <= d /\ d <= last
      BY DEF Back, Between
    <2>3. d \in Holes(chain) <=> first < d /\ d < last /\ d \notin chain
      BY <1>2, <1>4 DEF Holes
    <2>4. d \in Missing(days, first) <=> first < d /\ d < last /\ d \notin days
      BY <1>1, <2>1 DEF Missing
    <2>5. QED
      BY <1>1, <2>1, <2>2, <2>3, <2>4
  <1>5. Holes(chain) \subseteq Days /\ Missing(days, first) \subseteq Days
    BY <1>3 DEF Holes, Missing
  <1>6. QED
    BY <1>4, <1>5

\* What the rule says of a set of practice days, and what it says here.
LEMMA ForgivenIsGood ==
  ASSUME NEW days \in SUBSET Days, NEW first \in days, NEW rule
  PROVE  Forgiven(Back(days, first), rule) <=> Good(days, first, rule)
  BY HolesAre DEF Forgiven, Good, Allowed

LEMMA FurtherBack ==
  ASSUME NEW days \in SUBSET Days, NEW first \in days, NEW other \in days, other <= first
  PROVE  /\ Back(days, first) \in SUBSET Back(days, other)
         /\ Missing(days, first) \in SUBSET Missing(days, other)
         /\ Cardinality(Back(days, first)) <= Cardinality(Back(days, other))
  <1>1. first \in Int /\ other \in Int /\ Max(days) \in Int /\ days \in SUBSET Int
    BY DaysAre
  <1>2. Back(days, first) \in SUBSET Back(days, other)
    <2>1. \A d \in days : first <= d => other <= d
      BY <1>1
    <2>2. QED
      BY <2>1 DEF Back, Between
  <1>3. Missing(days, first) \in SUBSET Missing(days, other)
    BY <1>1 DEF Missing
  <1>4. QED
    BY <1>2, <1>3, BackIs, FS_Subset

LEMMA GoodLess ==
  ASSUME NEW days \in SUBSET Days, NEW first \in days, NEW other \in days, other <= first,
         NEW rule, Good(days, other, rule)
  PROVE  Good(days, first, rule)
  <1>1. Missing(days, first) \in SUBSET Missing(days, other)
    BY FurtherBack
  <1>2. IsFiniteSet(Missing(days, other)) /\ Missing(days, other) \in SUBSET Int
    BY BackIs
  <1>3. QED
    BY <1>1, <1>2, AllowedLess DEF Good

LEMMA OneMoreBack ==
  ASSUME NEW days \in SUBSET Days, NEW first \in days, Earlier(days, first) # {}
  PROVE  LET earlier == Max(Earlier(days, first))
         IN  /\ earlier \in days /\ earlier \in Int /\ first \in Int /\ earlier < first
             /\ \A d \in days : d < first => d <= earlier
             /\ Cardinality(Back(days, earlier)) = Cardinality(Back(days, first)) + 1
             /\ Missing(days, earlier) = Missing(days, first) \cup Missed(earlier, first)
  <1> DEFINE earlier == Max(Earlier(days, first))
  <1>1. /\ days \in SUBSET Int /\ IsFiniteSet(days) /\ first \in Int /\ Max(days) \in days
        /\ Max(days) \in Int /\ \A d \in days : Max(days) >= d
    BY DaysAre
  <1>2. IsFiniteSet(Earlier(days, first)) /\ Earlier(days, first) \in SUBSET Int
    BY <1>1, FS_Subset DEF Earlier
  <1>3. earlier \in Earlier(days, first) /\ \A d \in Earlier(days, first) : earlier >= d
    BY <1>2, MaxIs
  <1> HIDE DEF earlier
  <1>4. earlier \in days /\ earlier \in Int /\ earlier < first /\ \A d \in days : d < first => d <= earlier
    BY <1>1, <1>3 DEF Earlier
  <1>5. Back(days, earlier) = Back(days, first) \cup {earlier} /\ earlier \notin Back(days, first)
    <2>1. ASSUME NEW d \in days
          PROVE  earlier <= d /\ d <= Max(days) <=> (first <= d /\ d <= Max(days)) \/ d = earlier
      BY <1>1, <1>4
    <2>2. earlier <= Max(days) /\ ~(first <= earlier)
      BY <1>1, <1>4
    <2>3. QED
      BY <1>4, <2>1, <2>2, Zenon DEF Back, Between
  <1>6. Cardinality(Back(days, earlier)) = Cardinality(Back(days, first)) + 1
    BY <1>5, BackIs, FS_AddElement
  <1>7. Missing(days, earlier) = Missing(days, first) \cup Missed(earlier, first)
    <2>1. ASSUME NEW d \in Int
          PROVE  d \in Missing(days, earlier) <=> d \in Missing(days, first) \/ d \in Missed(earlier, first)
      <3>1. d \in Missing(days, earlier) <=> earlier < d /\ d < Max(days) /\ d \notin days
        BY <1>1, <1>4 DEF Missing
      <3>2. d \in Missing(days, first) <=> first < d /\ d < Max(days) /\ d \notin days
        BY <1>1 DEF Missing
      <3>3. d \in Missed(earlier, first) <=> earlier < d /\ d < first
        BY <1>1, <1>4 DEF Missed
      <3>4. first <= Max(days) /\ first \in days
        BY <1>1
      <3>5. earlier < d /\ d < first => d \notin days
        BY <1>1, <1>4
      <3>6. QED
        BY <1>1, <1>4, <3>1, <3>2, <3>3, <3>4, <3>5
    <2>2. Missing(days, earlier) \in SUBSET Int /\ Missing(days, first) \in SUBSET Int
      BY <1>4, BackIs
    <2>3. Missed(earlier, first) \in SUBSET Int
      BY <1>1, <1>4 DEF Missed
    <2>4. QED
      BY <2>1, <2>2, <2>3
  <1>8. QED
    BY <1>1, <1>4, <1>6, <1>7 DEF earlier

-----------------------------------------------------------------------------
(* What the walk knows of the chain it holds.                               *)

True(chain, days, rule) ==
    /\ chain = [oldest |-> chain.oldest, count |-> chain.count, spent |-> chain.spent]
    /\ chain.oldest \in days
    /\ chain.count = Cardinality(Back(days, chain.oldest))
    /\ chain.spent = Missing(days, chain.oldest)
    /\ Good(days, chain.oldest, rule)

LEMMA TrueCount ==
  ASSUME NEW days \in SUBSET Days, NEW rule, NEW chain, True(chain, days, rule)
  PROVE  chain.count \in Nat /\ chain.count > 0 /\ chain.count <= Cardinality(days)
  BY BackIs DEF True

LEMMA StartIsTrue ==
  ASSUME NEW days \in SUBSET Days, days # {}, NEW rule
  PROVE  True(Starting(Max(days)), days, rule) /\ Starting(Max(days)).count = 1
  <1>1. Max(days) \in days /\ Max(days) \in Int /\ \A d \in days : Max(days) >= d /\ d \in Int
    BY DaysAre
  <1>2. Back(days, Max(days)) = {Max(days)}
    BY <1>1 DEF Back, Between
  <1>3. Missing(days, Max(days)) = {}
    BY <1>1 DEF Missing
  <1>4. QED
    BY <1>1, <1>2, <1>3, FS_Singleton DEF True, Starting, Good

LEMMA ReachesIsGood ==
  ASSUME NEW days \in SUBSET Days, NEW rule, rule.freezes \in BOOLEAN, NEW chain, True(chain, days, rule),
         Earlier(days, chain.oldest) # {}
  PROVE  Reaches(chain, Max(Earlier(days, chain.oldest)), rule)
            <=> Good(days, Max(Earlier(days, chain.oldest)), rule)
  <1> DEFINE first == chain.oldest
             earlier == Max(Earlier(days, first))
  <1>1. first \in days /\ chain.spent = Missing(days, first) /\ Good(days, first, rule)
    BY DEF True
  <1>2. /\ earlier \in days /\ earlier \in Int /\ first \in Int /\ earlier < first
        /\ Missing(days, earlier) = Missing(days, first) \cup Missed(earlier, first)
    BY <1>1, OneMoreBack
  <1>3. IsFiniteSet(Missing(days, first)) /\ Missing(days, first) \in SUBSET Int
    BY <1>1, BackIs
  <1> HIDE DEF first, earlier
  <1>4. Freezable(earlier, first, chain.spent) <=> Allowed(Missing(days, earlier))
    BY <1>1, <1>2, <1>3, FreezableIs
  <1>5. Missed(earlier, first) = {} <=> first - earlier = 1
    <2>1. first - earlier # 1 => earlier + 1 \in Missed(earlier, first)
      BY <1>2 DEF Missed
    <2>2. first - earlier = 1 => Missed(earlier, first) = {}
      BY <1>2 DEF Missed
    <2>3. QED
      BY <2>1, <2>2
  <1>6. CASE first - earlier = 1
    <2>1. Missing(days, earlier) = Missing(days, first)
      BY <1>2, <1>5, <1>6
    <2>2. Good(days, earlier, rule)
      BY <1>1, <2>1 DEF Good
    <2>3. QED
      BY <1>6, <2>2 DEF Reaches, first, earlier
  <1>7. CASE first - earlier # 1
    <2>1. Missing(days, earlier) # {}
      BY <1>2, <1>5, <1>7
    <2>2. Good(days, earlier, rule) <=> rule.freezes /\ Allowed(Missing(days, earlier))
      BY <2>1 DEF Good
    <2>3. Reaches(chain, earlier, rule) <=> rule.freezes /\ Freezable(earlier, first, chain.spent)
      BY <1>7 DEF Reaches, first
    <2>4. QED
      BY <1>4, <2>2, <2>3 DEF earlier, first
  <1>8. QED
    BY <1>6, <1>7

LEMMA ExtendedIsTrue ==
  ASSUME NEW days \in SUBSET Days, NEW rule, rule.freezes \in BOOLEAN, NEW chain, True(chain, days, rule),
         Earlier(days, chain.oldest) # {},
         Reaches(chain, Max(Earlier(days, chain.oldest)), rule)
  PROVE  True(Extended(chain, Max(Earlier(days, chain.oldest))), days, rule)
  <1> DEFINE first == chain.oldest
             earlier == Max(Earlier(days, first))
  <1>1. first \in days /\ chain.spent = Missing(days, first) /\ chain.count = Cardinality(Back(days, first))
    BY DEF True
  <1>2. /\ earlier \in days
        /\ Cardinality(Back(days, earlier)) = Cardinality(Back(days, first)) + 1
        /\ Missing(days, earlier) = Missing(days, first) \cup Missed(earlier, first)
    BY <1>1, OneMoreBack
  <1>3. Good(days, earlier, rule)
    BY ReachesIsGood
  <1> HIDE DEF first, earlier
  <1>4. Extended(chain, earlier) = [oldest |-> earlier, count |-> Cardinality(Back(days, earlier)),
                                    spent |-> Missing(days, earlier)]
    BY <1>1, <1>2 DEF Extended, first
  <1>5. True(Extended(chain, earlier), days, rule)
    BY <1>2, <1>3, <1>4 DEF True
  <1>6. QED
    BY <1>5 DEF earlier, first

-----------------------------------------------------------------------------
(* Both recursions have a solution, as far as they are asked.               *)

Walks(w, n, days, rule) ==
    w = [k \in 0 .. n |-> IF k = 0 THEN Starting(Max(days)) ELSE Onward(w[k - 1], days, rule)]

Meets(w, n, days, rule) ==
    w = [k \in 0 .. n |-> IF k = 0 THEN Starting(Max(days)) ELSE OnwardOrAnew(w[k - 1], days, rule)]

LEMMA WalkExists ==
  ASSUME NEW n \in Nat, NEW days, NEW rule
  PROVE  \E w : Walks(w, n, days, rule)
  <1> DEFINE Bad == {k \in Nat : ~\E w : Walks(w, k, days, rule)}
  <1> SUFFICES ASSUME Bad # {} PROVE FALSE
    OBVIOUS
  <1>1. PICK k \in Bad : \A m \in Bad : k <= m
    BY LeastNat
  <1>2. CASE k = 0
    <2> DEFINE w == [j \in 0 .. 0 |-> Starting(Max(days))]
    <2>1. Walks(w, 0, days, rule)
      BY DEF Walks
    <2>2. QED
      BY <1>1, <1>2, <2>1
  <1>3. CASE k # 0
    <2>1. k - 1 \in Nat /\ k - 1 \notin Bad
      BY <1>1, <1>3
    <2>2. PICK w : Walks(w, k - 1, days, rule)
      BY <2>1
    <2> DEFINE v == [j \in 0 .. k |-> IF j = 0 THEN Starting(Max(days)) ELSE Onward(w[j - 1], days, rule)]
    <2>3. \A j \in 0 .. k - 1 : j \in 0 .. k /\ (j # 0 => j - 1 \in 0 .. k - 1)
      BY <2>1
    <2>4. \A j \in 0 .. k - 1 : v[j] = w[j]
      BY <2>2, <2>3, Zenon DEF Walks
    <2>5. \A j \in 0 .. k : j # 0 => j - 1 \in 0 .. k - 1
      BY <2>1
    <2>6. \A j \in 0 .. k : j # 0 => v[j - 1] = w[j - 1]
      BY <2>4, <2>5
    <2>7. Walks(v, k, days, rule)
      BY <2>6, Zenon DEF Walks
    <2>8. QED
      BY <1>1, <2>7
  <1>4. QED
    BY <1>2, <1>3

LEMMA MeetExists ==
  ASSUME NEW n \in Nat, NEW days, NEW rule
  PROVE  \E w : Meets(w, n, days, rule)
  <1> DEFINE Bad == {k \in Nat : ~\E w : Meets(w, k, days, rule)}
  <1> SUFFICES ASSUME Bad # {} PROVE FALSE
    OBVIOUS
  <1>1. PICK k \in Bad : \A m \in Bad : k <= m
    BY LeastNat
  <1>2. CASE k = 0
    <2> DEFINE w == [j \in 0 .. 0 |-> Starting(Max(days))]
    <2>1. Meets(w, 0, days, rule)
      BY DEF Meets
    <2>2. QED
      BY <1>1, <1>2, <2>1
  <1>3. CASE k # 0
    <2>1. k - 1 \in Nat /\ k - 1 \notin Bad
      BY <1>1, <1>3
    <2>2. PICK w : Meets(w, k - 1, days, rule)
      BY <2>1
    <2> DEFINE v == [j \in 0 .. k |-> IF j = 0 THEN Starting(Max(days)) ELSE OnwardOrAnew(w[j - 1], days, rule)]
    <2>3. \A j \in 0 .. k - 1 : j \in 0 .. k /\ (j # 0 => j - 1 \in 0 .. k - 1)
      BY <2>1
    <2>4. \A j \in 0 .. k - 1 : v[j] = w[j]
      BY <2>2, <2>3, Zenon DEF Meets
    <2>5. \A j \in 0 .. k : j # 0 => j - 1 \in 0 .. k - 1
      BY <2>1
    <2>6. \A j \in 0 .. k : j # 0 => v[j - 1] = w[j - 1]
      BY <2>4, <2>5
    <2>7. Meets(v, k, days, rule)
      BY <2>6, Zenon DEF Meets
    <2>8. QED
      BY <1>1, <2>7
  <1>4. QED
    BY <1>2, <1>3

LEMMA WalkedIs ==
  ASSUME NEW days, Cardinality(days) \in Nat, NEW rule
  PROVE  \E w : Walks(w, Cardinality(days), days, rule) /\ Walked(days, rule) = w[Cardinality(days)]
  <1> DEFINE w == CHOOSE w : Walks(w, Cardinality(days), days, rule)
  <1>1. Walks(w, Cardinality(days), days, rule)
    BY WalkExists, Zenon
  <1>2. Walked(days, rule) = w[Cardinality(days)]
    BY Zenon DEF Walked, Walks
  <1>3. QED
    BY <1>1, <1>2

LEMMA MetIs ==
  ASSUME NEW days, Cardinality(days) - 1 \in Nat, NEW rule
  PROVE  \E w : /\ Meets(w, Cardinality(days) - 1, days, rule)
                /\ Met(days, rule) = {w[k] : k \in 0 .. Cardinality(days) - 1}
  <1> DEFINE w == CHOOSE w : Meets(w, Cardinality(days) - 1, days, rule)
  <1>1. Meets(w, Cardinality(days) - 1, days, rule)
    BY MeetExists, Zenon
  <1>2. Met(days, rule) = {w[k] : k \in 0 .. Cardinality(days) - 1}
    BY Zenon DEF Met, Meets
  <1>3. QED
    BY <1>1, <1>2

-----------------------------------------------------------------------------
(* The walk: every step of it holds a true chain, a day longer each time    *)
(* until it stops.                                                          *)

Along(w, k, days, rule) ==
    /\ True(w[k], days, rule)
    /\ w[k].count <= rule.days /\ w[k].count <= k + 1
    /\ w[k].count = k + 1 \/ ~GoesOn(w[k], days, rule)
    /\ \E j \in 0 .. k : w[j] = w[k] /\ w[j].count = j + 1

LEMMA WalksAlong ==
  ASSUME NEW days \in SUBSET Days, days # {}, NEW rule, rule.freezes \in BOOLEAN,
         rule.days \in Nat, rule.days > 0, NEW n \in Nat, NEW w, Walks(w, n, days, rule)
  PROVE  \A k \in 0 .. n : Along(w, k, days, rule)
  <1> DEFINE Bad == {k \in 0 .. n : ~Along(w, k, days, rule)}
  <1> SUFFICES ASSUME Bad # {} PROVE FALSE
    OBVIOUS
  <1>1. PICK k \in Bad : \A m \in Bad : k <= m
    <2>1. Bad \in SUBSET Nat
      OBVIOUS
    <2> HIDE DEF Bad
    <2>2. QED
      BY <2>1, LeastNat
  <1>2. k \in 0 .. n /\ k \in Nat /\ ~Along(w, k, days, rule)
    BY <1>1
  <1>3. CASE k = 0
    <2>1. w[k] = Starting(Max(days))
      BY <1>2, <1>3 DEF Walks
    <2>2. True(w[k], days, rule) /\ w[k].count = 1
      BY <2>1, StartIsTrue
    <2>3. QED
      BY <1>2, <1>3, <2>2 DEF Along
  <1>4. CASE k # 0
    <2>1. k - 1 \in 0 .. n /\ k - 1 \notin Bad
      BY <1>1, <1>2, <1>4
    <2> DEFINE c == w[k - 1]
               e == Max(Earlier(days, c.oldest))
    <2>2. Along(w, k - 1, days, rule)
      BY <2>1
    <2>3. w[k] = Onward(c, days, rule)
      BY <1>2, <1>4 DEF Walks
    <2>4. /\ True(c, days, rule) /\ c.count \in Nat /\ c.count <= rule.days /\ c.count <= k
          /\ c.count = k \/ ~GoesOn(c, days, rule)
          /\ \E j \in 0 .. k - 1 : w[j] = c /\ w[j].count = j + 1
      <3>1. True(c, days, rule) /\ c.count <= rule.days /\ c.count <= (k - 1) + 1
        BY <2>2 DEF Along
      <3>2. c.count \in Nat
        BY <3>1, BackIs DEF True
      <3>3. QED
        BY <1>2, <2>2, <3>1, <3>2 DEF Along
    <2> HIDE DEF c
    <2>5. CASE GoesOn(c, days, rule)
      <3>1. w[k] = Extended(c, e)
        BY <2>3, <2>5 DEF Onward
      <3>2. True(w[k], days, rule)
        BY <2>4, <2>5, <3>1, ExtendedIsTrue DEF GoesOn
      <3>3. w[k].count = k + 1
        BY <2>4, <2>5, <3>1 DEF Extended
      <3>4. w[k].count <= rule.days
        BY <2>4, <2>5, <3>3 DEF GoesOn
      <3>5. QED
        BY <1>2, <3>2, <3>3, <3>4 DEF Along
    <2>6. CASE ~GoesOn(c, days, rule)
      <3>1. w[k] = c
        BY <2>3, <2>6 DEF Onward
      <3>2. PICK j \in 0 .. k - 1 : w[j] = c /\ w[j].count = j + 1
        BY <2>4
      <3>3. j \in 0 .. k /\ c.count <= k + 1
        BY <1>2, <2>4
      <3>4. QED
        BY <1>2, <2>4, <2>6, <3>1, <3>2, <3>3 DEF Along
    <2>7. QED
      BY <2>5, <2>6
  <1>5. QED
    BY <1>3, <1>4

\* Where the walk ends it cannot go on.
LEMMA WalkedIsTrue ==
  ASSUME NEW days \in SUBSET Days, days # {}, NEW rule, rule.freezes \in BOOLEAN,
         rule.days \in Nat, rule.days > 0
  PROVE  LET chain == Walked(days, rule)
         IN  /\ True(chain, days, rule)
             /\ chain.count \in Nat /\ chain.count > 0 /\ chain.count <= rule.days
             /\ ~GoesOn(chain, days, rule)
  <1> DEFINE n == Cardinality(days)
             chain == Walked(days, rule)
  <1>1. n \in Nat
    BY DaysAre
  <1> HIDE DEF n
  <1>2. PICK w : Walks(w, n, days, rule) /\ chain = w[n]
    BY <1>1, WalkedIs DEF n
  <1>3. Along(w, n, days, rule)
    <2>1. n \in 0 .. n
      BY <1>1
    <2>2. QED
      BY <1>1, <1>2, <2>1, WalksAlong
  <1>4. True(chain, days, rule) /\ chain.count <= rule.days
    BY <1>2, <1>3 DEF Along
  <1>5. chain.count \in Nat /\ chain.count > 0 /\ chain.count <= n
    BY <1>4, BackIs DEF True, n
  <1>6. ~GoesOn(chain, days, rule)
    BY <1>1, <1>2, <1>3, <1>5 DEF Along
  <1>7. QED
    BY <1>4, <1>5, <1>6

-----------------------------------------------------------------------------
(* The walk is the best chain the rule forgives.                            *)

Fair(rule) == rule.freezes \in BOOLEAN /\ rule.days \in Nat /\ rule.days > 0

LEMMA WalkIsLongest ==
  ASSUME NEW days \in SUBSET Days, NEW rule, Fair(rule), NEW first \in days, Good(days, first, rule)
  PROVE  Walked(days, rule).count = rule.days \/ Cardinality(Back(days, first)) <= Walked(days, rule).count
  <1> DEFINE chain == Walked(days, rule)
             oldest == chain.oldest
             earlier == Max(Earlier(days, oldest))
  <1>1. /\ True(chain, days, rule) /\ chain.count \in Nat /\ chain.count <= rule.days
        /\ ~GoesOn(chain, days, rule)
    BY WalkedIsTrue DEF Fair
  <1> HIDE DEF chain
  <1>2. oldest \in days /\ chain.count = Cardinality(Back(days, oldest))
    BY <1>1 DEF True
  <1>3. days \in SUBSET Int
    BY DaysAre
  <1>4. CASE oldest <= first
    <2>1. Cardinality(Back(days, first)) <= Cardinality(Back(days, oldest))
      BY <1>2, <1>4, FurtherBack
    <2>2. QED
      BY <1>2, <2>1 DEF chain
  <1>5. CASE ~(oldest <= first)
    <2>1. first \in Earlier(days, oldest)
      <3>1. first \in Int /\ oldest \in Int
        BY <1>2, <1>3
      <3>2. first < oldest
        BY <1>5, <3>1
      <3>3. QED
        BY <3>2 DEF Earlier
    <2>2. earlier \in days /\ first <= earlier
      BY <1>2, <2>1, OneMoreBack DEF Earlier
    <2>3. Good(days, earlier, rule)
      <3> HIDE DEF earlier
      <3>1. QED
        BY <2>2, GoodLess
    <2>4. Reaches(chain, earlier, rule)
      <3>1. rule.freezes \in BOOLEAN /\ Earlier(days, chain.oldest) # {}
        BY <2>1 DEF Fair
      <3>2. QED
        BY <1>1, <2>3, <3>1, ReachesIsGood
    <2>5. ~(chain.count < rule.days)
      BY <1>1, <2>1, <2>4 DEF GoesOn
    <2>6. QED
      BY <1>1, <2>5 DEF Fair, chain
  <1>6. QED
    BY <1>4, <1>5

LEMMA WalkIsBest ==
  ASSUME NEW days \in SUBSET Days, days # {}, NEW rule, Fair(rule)
  PROVE  Walked(days, rule).count = BestCount(ChainsBackFrom(days, Max(days), rule), rule)
  <1> DEFINE chain == Walked(days, rule)
             chains == ChainsBackFrom(days, Max(days), rule)
             counts == {Cardinality(c) : c \in chains}
  <1>1. /\ True(chain, days, rule) /\ chain.count \in Nat /\ chain.count <= rule.days /\ rule.days \in Nat
    BY WalkedIsTrue DEF Fair
  <1>2. \A c : c \in chains <=> \E first \in days : c = Back(days, first) /\ Good(days, first, rule)
    <2>1. \A first \in days : first <= Max(days)
      BY DaysAre
    <2>2. \A c : c \in chains <=> \E first \in days : c = Back(days, first) /\ Forgiven(c, rule)
      BY <2>1, Zenon DEF ChainsBackFrom, Back
    <2>3. QED
      BY <2>2, ForgivenIsGood
  <1>3. counts \in SUBSET (0 .. Cardinality(days))
    <2>1. ASSUME NEW c \in chains PROVE Cardinality(c) \in 0 .. Cardinality(days)
      <3>1. PICK first \in days : c = Back(days, first)
        BY <1>2
      <3>2. QED
        BY <3>1, BackIs, DaysAre
    <2>2. QED
      BY <2>1
  <1>4. chain.count \in counts
    <2>1. Back(days, chain.oldest) \in chains
      BY <1>1, <1>2 DEF True
    <2>2. QED
      BY <1>1, <2>1 DEF True
  <1>5. \A k \in counts : chain.count = rule.days \/ k <= chain.count
    BY <1>2, WalkIsLongest
  <1> HIDE DEF counts
  <1>6. IsFiniteSet(counts) /\ counts \in SUBSET Int
    <2>1. Cardinality(days) \in Int
      BY DaysAre
    <2>2. IsFiniteSet(0 .. Cardinality(days)) /\ 0 .. Cardinality(days) \subseteq Int
      BY <2>1, FS_Interval
    <2>3. QED
      BY <1>3, <2>2, FS_Subset
  <1>7. Max(counts) \in counts /\ Max(counts) >= chain.count
    BY <1>4, <1>6, MaxIs
  <1>8. Max(counts) \in Int /\ rule.days \in Int /\ chain.count \in Int
    <2>1. counts \subseteq Int
      BY <1>6
    <2>2. Max(counts) \in Int
      BY <1>7, <2>1
    <2>3. QED
      BY <1>1, <2>2
  <1>9. Min({rule.days, Max(counts)}) = IF rule.days <= Max(counts) THEN rule.days ELSE Max(counts)
    BY <1>8, LessOfTwo
  <1>10. Min({rule.days, Max(counts)}) = chain.count
    <2>2. chain.count = rule.days \/ Max(counts) <= chain.count
      BY <1>5, <1>7
    <2>3. chain.count <= rule.days /\ Max(counts) >= chain.count
      BY <1>1, <1>7
    <2> HIDE DEF chain
    <2>4. QED
      BY <1>9, <1>8, <2>2, <2>3
  <1>11. QED
    BY <1>10 DEF BestCount, counts

-----------------------------------------------------------------------------
(* The best ever is met on the way.                                         *)

LEMMA LongestCovers ==
  ASSUME NEW days \in SUBSET Days, days # {}, NEW rule, Fair(rule)
  PROVE  Longest(days, rule) \in Nat /\ Longest(days, rule) >= Walked(days, rule).count
  <1> DEFINE n == Cardinality(days)
             chain == Walked(days, rule)
  <1>1. n \in Nat /\ n > 0 /\ n - 1 \in Nat
    BY DaysAre
  <1>2. chain.count \in Nat /\ chain.count <= rule.days /\ chain.count <= n /\ rule.days \in Nat
    BY WalkedIsTrue, BackIs DEF True, Fair
  <1>3. PICK w : Walks(w, n, days, rule) /\ chain = w[n]
    BY <1>1, WalkedIs
  <1>4. PICK v : Meets(v, n - 1, days, rule) /\ Met(days, rule) = {v[k] : k \in 0 .. n - 1}
    BY <1>1, MetIs
  <1> HIDE DEF n, chain
  <1>5. \A k \in 0 .. n : Along(w, k, days, rule)
    BY <1>1, <1>3, WalksAlong DEF Fair
  <1>6. PICK j \in 0 .. n : w[j] = chain /\ chain.count = j + 1
    <2>1. n \in 0 .. n
      BY <1>1
    <2>2. QED
      BY <1>3, <1>5, <2>1 DEF Along
  <1>7. j \in 0 .. n - 1 /\ j \in Nat
    BY <1>1, <1>2, <1>6
  \* A walk that has not stopped has met nothing but what it walked.
  <1>8. \A k \in 0 .. n - 1 : w[k].count = k + 1 => v[k] = w[k]
    <2> DEFINE Bad == {k \in 0 .. n - 1 : w[k].count = k + 1 /\ v[k] # w[k]}
    <2> SUFFICES ASSUME Bad # {} PROVE FALSE
      OBVIOUS
    <2>1. PICK k \in Bad : \A m \in Bad : k <= m
      <3>1. Bad \in SUBSET Nat
        BY <1>1
      <3> HIDE DEF Bad
      <3>2. QED
        BY <3>1, LeastNat
    <2>2. k \in 0 .. n - 1 /\ k \in Nat /\ k \in 0 .. n /\ w[k].count = k + 1 /\ v[k] # w[k]
      BY <1>1, <2>1
    <2>3. k # 0
      BY <1>3, <1>4, <2>2 DEF Walks, Meets
    <2>4. k - 1 \in 0 .. n - 1 /\ k - 1 \in 0 .. n /\ ~(k <= k - 1)
      BY <1>1, <2>2, <2>3
    <2>5. /\ w[k] = Onward(w[k - 1], days, rule)
          /\ v[k] = OnwardOrAnew(v[k - 1], days, rule)
      BY <1>3, <1>4, <2>2, <2>3 DEF Walks, Meets
    <2>6. Along(w, k - 1, days, rule)
      BY <1>5, <2>4
    <2>7. w[k - 1].count \in Nat /\ w[k - 1].count <= k
      <3>1. True(w[k - 1], days, rule) /\ w[k - 1].count <= (k - 1) + 1
        BY <2>6 DEF Along
      <3>2. QED
        BY <2>2, <3>1, TrueCount
    <2>8. GoesOn(w[k - 1], days, rule)
      BY <2>2, <2>5, <2>7 DEF Onward
    <2>9. w[k - 1].count = k
      BY <2>2, <2>6, <2>8 DEF Along
    <2>10. v[k - 1] = w[k - 1]
      BY <2>1, <2>2, <2>4, <2>9
    <2>11. v[k] = w[k]
      BY <2>5, <2>8, <2>10 DEF Onward, OnwardOrAnew, GoesOn
    <2>12. QED
      BY <2>2, <2>11
  <1>9. v[j] = chain
    BY <1>6, <1>7, <1>8
  <1> DEFINE counts == {c.count : c \in Met(days, rule)}
  <1>10. chain.count \in counts
    BY <1>4, <1>7, <1>9
  <1>11. counts \in SUBSET Nat /\ \A c \in counts : c <= n
    <2>1. \A k \in 0 .. n - 1 : v[k].count \in Nat /\ v[k].count <= k + 1
      <3> DEFINE Bad == {k \in 0 .. n - 1 : ~(v[k].count \in Nat /\ v[k].count <= k + 1)}
      <3> SUFFICES ASSUME Bad # {} PROVE FALSE
        OBVIOUS
      <3>1. PICK k \in Bad : \A m \in Bad : k <= m
        <4>1. Bad \in SUBSET Nat
          BY <1>1
        <4> HIDE DEF Bad
        <4>2. QED
          BY <4>1, LeastNat
      <3>2. k \in 0 .. n - 1 /\ k \in Nat /\ ~(v[k].count \in Nat /\ v[k].count <= k + 1)
        BY <1>1, <3>1
      <3>3. k # 0
        BY <1>4, <3>2 DEF Meets, Starting
      <3>4. k - 1 \in 0 .. n - 1 /\ ~(k <= k - 1)
        BY <1>1, <3>2, <3>3
      <3>5. v[k - 1].count \in Nat /\ v[k - 1].count <= (k - 1) + 1
        BY <3>1, <3>4
      <3>6. v[k] = OnwardOrAnew(v[k - 1], days, rule)
        BY <1>4, <3>2, <3>3 DEF Meets
      <3>7. v[k].count = v[k - 1].count + 1 \/ v[k].count = 1
        BY <3>6 DEF OnwardOrAnew, Extended, Starting
      <3>8. QED
        BY <3>2, <3>5, <3>7
    <2>2. ASSUME NEW c \in Met(days, rule) PROVE c.count \in Nat /\ c.count <= n
      <3>1. PICK k \in 0 .. n - 1 : c = v[k]
        BY <1>4
      <3>2. QED
        BY <1>1, <2>1, <3>1
    <2>3. QED
      BY <2>2
  <1> HIDE DEF counts
  <1>12. Max(counts) \in Nat /\ Max(counts) >= chain.count
    <2>1. IsFiniteSet(counts)
      BY <1>1, <1>11, FS_BoundedSetOfNaturals
    <2>2. counts \in SUBSET Int
      BY <1>11
    <2>3. QED
      BY <1>10, <1>11, <2>1, <2>2, MaxIs
  <1>13. Longest(days, rule) = Min({rule.days, Max(counts)})
    BY DEF Longest, counts
  <1>14. QED
    BY <1>2, <1>12, <1>13, LessOfTwo DEF chain

-----------------------------------------------------------------------------
(* What a page reads off the days of a browser or an account.               *)

LEMMA ProRuleIs ==
  ASSUME NEW t \in Nat
  PROVE  /\ ProRule(t).freezes = TRUE
         /\ ProRule(t).days \in Nat /\ 0 < ProRule(t).days /\ ProRule(t).days <= ProDaysMax
         /\ t <= ProRule(t).days \/ ProRule(t).days = ProDaysMax
  <1> DEFINE least == IF t <= ProDaysMax THEN t ELSE ProDaysMax
             most == IF 1 >= least THEN 1 ELSE least
  <1>1. Min({t, ProDaysMax}) = least /\ least \in Int
    BY Sizes, LessOfTwo
  <1>2. Max({1, Min({t, ProDaysMax})}) = most
    <2> HIDE DEF least
    <2>1. QED
      BY <1>1, MoreOfTwo
  <1>3. ProRule(t) = [days |-> most, freezes |-> TRUE]
    BY <1>2, Zenon DEF ProRule
  <1>4. /\ most \in Nat /\ 0 < most /\ most <= ProDaysMax
        /\ t <= most \/ most = ProDaysMax
    BY Sizes
  <1> HIDE DEF most
  <1>5. QED
    BY <1>3, <1>4

LEMMA RulesAreFair ==
  /\ Fair(Free) /\ ~Free.freezes
  /\ ProRule(ProDaysMax).days = ProDaysMax
  /\ \A t \in Nat : /\ Fair(ProRule(t)) /\ ProRule(t).freezes
                    /\ ProRule(t).days <= ProDaysMax
                    /\ FreeDays <= t => FreeDays <= ProRule(t).days
  <1>1. Fair(Free) /\ ~Free.freezes
    BY Sizes DEF Fair, Free
  <1>2. ASSUME NEW t \in Nat
        PROVE  /\ Fair(ProRule(t)) /\ ProRule(t).freezes
               /\ ProRule(t).days <= ProDaysMax
               /\ FreeDays <= t => FreeDays <= ProRule(t).days
    <2> DEFINE p == ProRule(t)
    <2>1. /\ p.freezes = TRUE /\ p.days \in Nat /\ 0 < p.days /\ p.days <= ProDaysMax
          /\ t <= p.days \/ p.days = ProDaysMax
      BY ProRuleIs
    <2> HIDE DEF p
    <2>2. Fair(p)
      BY <2>1 DEF Fair
    <2>3. FreeDays <= t => FreeDays <= p.days
      BY <2>1, Sizes
    <2>4. QED
      BY <2>1, <2>2, <2>3 DEF p
  <1>3. ProRule(ProDaysMax).days = ProDaysMax
    <2>1. ProDaysMax \in Nat /\ ProDaysMax <= ProDaysMax
      BY Sizes
    <2>2. ProRule(ProDaysMax).days \in Nat
      BY <2>1, ProRuleIs
    <2>3. ProRule(ProDaysMax).days <= ProDaysMax
      BY <2>1, ProRuleIs
    <2>4. ProDaysMax <= ProRule(ProDaysMax).days \/ ProRule(ProDaysMax).days = ProDaysMax
      BY <2>1, ProRuleIs
    <2>5. QED
      BY <2>1, <2>2, <2>3, <2>4
  <1>4. QED
    BY <1>1, <1>2, <1>3

LEMMA RuleIsFair ==
  ASSUME TypeOK
  PROVE  /\ Fair(Rule) /\ Owned \in SUBSET Days
         /\ ~Rule.freezes => Rule = Free
  <1>1. plan # 0 => plan \in Nat
    BY Sizes DEF TypeOK
  <1>2. QED
    BY <1>1, RulesAreFair DEF Rule, Owned, TypeOK

LEMMA WalkIs ==
  ASSUME NEW days \in SUBSET Days, NEW rule, Fair(rule), NEW latest
  PROVE  /\ Walk(days, latest, rule).streak \in Nat
         /\ Walk(days, latest, rule).streak = 0 <=> ~Alive(days, latest)
         /\ Alive(days, latest) =>
               /\ days # {}
               /\ Walk(days, latest, rule).streak = Walked(days, rule).count
               /\ Walk(days, latest, rule).frozen = Walked(days, rule).spent
  <1>1. days # {} => Walked(days, rule).count \in Nat /\ Walked(days, rule).count > 0
    BY WalkedIsTrue DEF Fair
  <1>2. Alive(days, latest) => days # {}
    BY DEF Alive
  <1>3. CASE Alive(days, latest)
    BY <1>1, <1>2, <1>3 DEF Walk
  <1>4. CASE ~Alive(days, latest)
    BY <1>4 DEF Walk
  <1>5. QED
    BY <1>3, <1>4

LEMMA BestIsShown == ASSUME TypeOK PROVE StreakIsBest
  <1> SUFFICES ASSUME NEW ahead \in 0 .. Ahead
               PROVE  LET walk == Walk(Owned, LocalDate(ahead), Rule)
                      IN  /\ walk.streak = 0 <=> ~Alive(Owned, LocalDate(ahead))
                          /\ walk.streak > 0 =>
                                /\ walk.streak = BestCount(ChainsBackFrom(Owned, Max(Owned), Rule), Rule)
                                /\ \E first \in Owned :
                                      LET shown == Between(Owned, first, Max(Owned))
                                      IN  Cardinality(shown) = walk.streak /\ walk.frozen = Holes(shown)
    BY DEF StreakIsBest
  <1> DEFINE walk == Walk(Owned, LocalDate(ahead), Rule)
             chain == Walked(Owned, Rule)
  <1>1. Owned \in SUBSET Days /\ Fair(Rule)
    BY RuleIsFair
  <1>2. walk.streak = 0 <=> ~Alive(Owned, LocalDate(ahead))
    BY <1>1, WalkIs
  <1>3. ASSUME walk.streak > 0
        PROVE  /\ walk.streak = BestCount(ChainsBackFrom(Owned, Max(Owned), Rule), Rule)
               /\ \E first \in Owned :
                     Cardinality(Back(Owned, first)) = walk.streak /\ walk.frozen = Holes(Back(Owned, first))
    <2>1. Owned # {} /\ walk.streak = chain.count /\ walk.frozen = chain.spent
      BY <1>1, <1>2, <1>3, WalkIs
    <2>2. walk.streak = BestCount(ChainsBackFrom(Owned, Max(Owned), Rule), Rule)
      BY <1>1, <2>1, WalkIsBest
    <2>3. True(chain, Owned, Rule)
      BY <1>1, <2>1, WalkedIsTrue DEF Fair
    <2> HIDE DEF chain
    <2>4. /\ chain.oldest \in Owned /\ chain.count = Cardinality(Back(Owned, chain.oldest))
          /\ chain.spent = Holes(Back(Owned, chain.oldest))
      BY <1>1, <2>3, HolesAre DEF True
    <2>5. QED
      BY <2>1, <2>2, <2>4
  <1>4. QED
    BY <1>2, <1>3, Zenon DEF Back

LEMMA LongestIsShown == ASSUME TypeOK PROVE LongestCoversStreak
  <1> SUFFICES ASSUME NEW ahead \in 0 .. Ahead
               PROVE  Longest(Owned, Rule) >= Walk(Owned, LocalDate(ahead), Rule).streak
    BY DEF LongestCoversStreak, Streak
  <1>1. Owned \in SUBSET Days /\ Fair(Rule)
    BY RuleIsFair
  <1>2. Owned # {} => Longest(Owned, Rule) \in Nat /\ Longest(Owned, Rule) >= Walked(Owned, Rule).count
                      /\ Walked(Owned, Rule).count > 0 /\ Walked(Owned, Rule).count \in Nat
    BY <1>1, LongestCovers, WalkedIsTrue DEF Fair
  <1>3. CASE Alive(Owned, LocalDate(ahead))
    BY <1>1, <1>2, <1>3, WalkIs
  <1>4. CASE ~Alive(Owned, LocalDate(ahead)) /\ Owned = {}
    BY <1>1, <1>4, WalkIs DEF Longest
  <1>5. CASE ~Alive(Owned, LocalDate(ahead)) /\ Owned # {}
    <2>1. Walk(Owned, LocalDate(ahead), Rule).streak = 0
      BY <1>1, <1>5, WalkIs
    <2>2. QED
      BY <1>2, <1>5, <2>1
  <1>6. QED
    BY <1>3, <1>4, <1>5

\* A longer rule that forgives the same shows the same chain, or more of it.
LEMMA LongerRule ==
  ASSUME NEW days \in SUBSET Days, NEW latest, NEW short, Fair(short), NEW long, Fair(long),
         short.freezes = long.freezes, short.days <= long.days
  PROVE  Walk(days, latest, short).streak = Min({Walk(days, latest, long).streak, short.days})
  <1> DEFINE s == Walk(days, latest, short).streak
             l == Walk(days, latest, long).streak
  <1>1. s \in Nat /\ l \in Nat /\ short.days \in Nat /\ short.days > 0 /\ long.days \in Nat
    BY WalkIs DEF Fair
  <1>2. CASE ~Alive(days, latest)
    <2>1. s = 0 /\ l = 0
      BY <1>2, WalkIs
    <2> HIDE DEF s, l
    <2>2. QED
      BY <1>1, <2>1, LessOfTwo DEF s, l
  <1>3. CASE Alive(days, latest)
    <2>1. days # {} /\ s = Walked(days, short).count /\ l = Walked(days, long).count
      BY <1>3, WalkIs
    <2>2. /\ True(Walked(days, short), days, short) /\ s <= short.days
          /\ True(Walked(days, long), days, long) /\ l <= long.days
      BY <2>1, WalkedIsTrue DEF Fair
    <2>3. s = short.days \/ l <= s
      <3>1. Good(days, Walked(days, long).oldest, short)
        BY <2>2 DEF True, Good
      <3>2. QED
        BY <2>1, <2>2, <3>1, WalkIsLongest DEF True
    <2>4. l = long.days \/ s <= l
      <3>1. Good(days, Walked(days, short).oldest, long)
        BY <2>2 DEF True, Good
      <3>2. QED
        BY <2>1, <2>2, <3>1, WalkIsLongest DEF True
    <2> HIDE DEF s, l
    <2>5. s = IF l <= short.days THEN l ELSE short.days
      BY <1>1, <2>2, <2>3, <2>4
    <2>6. QED
      BY <1>1, <2>5, LessOfTwo DEF s, l
  <1>4. QED
    BY <1>2, <1>3

LEMMA PitchHolds == ASSUME TypeOK PROVE PitchIsTrue
  <1> SUFFICES ASSUME NEW ahead \in 0 .. Ahead, NEW t \in Tracks, ~Rule.freezes
               PROVE  Walk(Owned, LocalDate(ahead), ProRule(t)).streak
                         = Min({WouldBe(ahead), ProRule(t).days})
    BY DEF PitchIsTrue
  <1>1. Owned \in SUBSET Days
    BY RuleIsFair
  <1>2. /\ Fair(ProRule(t)) /\ Fair(ProRule(ProDaysMax))
        /\ ProRule(t).freezes = ProRule(ProDaysMax).freezes
        /\ ProRule(t).days <= ProRule(ProDaysMax).days
    <2>1. t \in Nat /\ ProDaysMax \in Nat
      BY Sizes
    <2>2. ProRule(t).freezes = TRUE /\ ProRule(ProDaysMax).freezes = TRUE
      BY <2>1, ProRuleIs
    <2>3. ProRule(t).days <= ProDaysMax /\ ProRule(ProDaysMax).days = ProDaysMax
      BY <2>1, RulesAreFair
    <2>4. Fair(ProRule(t)) /\ Fair(ProRule(ProDaysMax))
      BY <2>1, RulesAreFair
    <2>5. QED
      BY <2>2, <2>3, <2>4
  <1>3. WouldBe(ahead) = Walk(Owned, LocalDate(ahead), ProRule(ProDaysMax)).streak
    BY DEF WouldBe
  <1> DEFINE short == ProRule(t)
             long == ProRule(ProDaysMax)
             latest == LocalDate(ahead)
  <1>4. Walk(Owned, latest, short).streak = Min({Walk(Owned, latest, long).streak, short.days})
    <2> HIDE DEF short, long, latest
    <2>1. Fair(short) /\ Fair(long) /\ short.freezes = long.freezes /\ short.days <= long.days
      BY <1>2 DEF short, long
    <2>2. QED
      BY <1>1, <2>1, LongerRule
  <1>5. QED
    BY <1>3, <1>4

-----------------------------------------------------------------------------
(* What more days do to a chain.                                            *)

LEMMA Grown ==
  ASSUME NEW more \in SUBSET Days, NEW days \in SUBSET more,
         NEW oldest \in days, NEW first \in more, first <= oldest,
         Missing(more, first) \in SUBSET Missing(days, oldest),
         NEW old, NEW new, old.freezes => new.freezes, Good(days, oldest, old)
  PROVE  /\ Back(days, oldest) \in SUBSET Back(more, first)
         /\ Good(more, first, new)
  <1>1. /\ days \in SUBSET Int /\ more \in SUBSET Int /\ days \in SUBSET Days
        /\ Max(days) \in more /\ Max(more) \in Int /\ Max(more) >= Max(days)
    BY DaysAre
  <1>2. Back(days, oldest) \in SUBSET Back(more, first)
    <2>1. oldest \in Int /\ first \in Int /\ Max(days) \in Int
      BY <1>1
    <2>2. ASSUME NEW d \in days, oldest <= d, d <= Max(days)
          PROVE  first <= d /\ d <= Max(more)
      <3>1. d \in Int
        BY <1>1
      <3>2. QED
        BY <1>1, <2>1, <2>2, <3>1
    <2>3. QED
      BY <2>2 DEF Back, Between
  <1>3. IsFiniteSet(Missing(days, oldest)) /\ Missing(days, oldest) \in SUBSET Int
    BY <1>1, BackIs
  <1>4. Good(more, first, new)
    <2>1. CASE Missing(days, oldest) = {}
      BY <2>1 DEF Good
    <2>2. CASE old.freezes /\ Allowed(Missing(days, oldest))
      BY <1>3, <2>2, AllowedLess DEF Good
    <2>3. QED
      BY <2>1, <2>2 DEF Good
  <1>5. QED
    BY <1>2, <1>4

\* The runs of a device that join an account's, none of them dated ahead.
LEMMA ClaimAdds ==
  ASSUME NEW more \in SUBSET Days, NEW days \in SUBSET more, NEW latest \in Int,
         \A d \in more : d <= latest,
         NEW old, Fair(old), NEW new, Fair(new), old.freezes => new.freezes, old.days <= new.days
  PROVE  Walk(more, latest, new).streak >= Walk(days, latest, old).streak
  <1> DEFINE was == Walk(days, latest, old).streak
             is == Walk(more, latest, new).streak
             o == Walked(days, old).oldest
  <1>1. was \in Nat /\ is \in Nat /\ days \in SUBSET Days /\ new.days \in Nat /\ old.days \in Nat
    BY WalkIs DEF Fair
  <1>2. CASE ~Alive(days, latest)
    <2>1. was = 0
      BY <1>1, <1>2, WalkIs
    <2> HIDE DEF was, is
    <2>2. QED
      BY <1>1, <2>1 DEF was, is
  <1>3. CASE Alive(days, latest)
    <2>1. days # {} /\ was = Walked(days, old).count /\ Max(days) >= latest - 1
      BY <1>1, <1>3, WalkIs DEF Alive
    <2>2. /\ o \in days /\ Good(days, o, old) /\ was = Cardinality(Back(days, o)) /\ was <= old.days
      BY <1>1, <2>1, WalkedIsTrue DEF Fair, True
    <2>3. /\ Max(days) \in days /\ Max(more) \in more /\ Max(days) \in Int /\ Max(more) \in Int
          /\ Max(more) >= Max(days) /\ Max(more) <= latest /\ o \in Int
      BY <1>1, <2>1, <2>2, DaysAre
    <2> HIDE DEF o
    <2>4. Alive(more, latest)
      BY <2>1, <2>3 DEF Alive
    <2>5. Missing(more, o) \in SUBSET Missing(days, o)
      <3>1. ASSUME NEW d \in o + 1 .. Max(more) - 1, d \notin days
            PROVE  d \in o + 1 .. Max(days) - 1
        <4>1. d # Max(days)
          BY <2>3, <3>1
        <4>2. QED
          BY <2>1, <2>3, <4>1
      <3>2. QED
        BY <3>1 DEF Missing
    <2>6. Good(more, o, new) /\ Cardinality(Back(days, o)) <= Cardinality(Back(more, o))
      <3>1. o \in more /\ o <= o
        BY <2>2, <2>3
      <3>2. Back(days, o) \in SUBSET Back(more, o) /\ Good(more, o, new)
        BY <2>2, <2>5, <3>1, Grown
      <3>3. QED
        BY <3>1, <3>2, BackIs, FS_Subset
    <2>7. is = new.days \/ Cardinality(Back(more, o)) <= is
      BY <2>2, <2>4, <2>6, WalkIs, WalkIsLongest
    <2>8. Cardinality(Back(more, o)) \in Int
      <3>1. o \in more
        BY <2>2
      <3>2. Cardinality(Back(more, o)) \in Nat
        BY <3>1, BackIs
      <3>3. QED
        BY <3>2
    <2> HIDE DEF was, is
    <2>9. is >= was
      BY <1>1, <2>2, <2>6, <2>7, <2>8
    <2>10. QED
      BY <2>9 DEF was, is
  <1>4. QED
    BY <1>2, <1>3

\* A run dated today, where nothing is dated later than tomorrow.
LEMMA DayAdded ==
  ASSUME NEW days \in SUBSET Days, NEW latest \in Days, \A d \in days : d <= latest + 1,
         NEW rule, Fair(rule)
  PROVE  Walk(days \cup {latest}, latest, rule).streak
            >= Min({rule.days, IF latest \in days THEN Max({1, Walk(days, latest, rule).streak})
                               ELSE Walk(days, latest, rule).streak + 1})
  <1> DEFINE more == days \cup {latest}
             was == Walk(days, latest, rule).streak
             is == Walk(more, latest, rule).streak
             o == Walked(days, rule).oldest
  <1>1. /\ more \in SUBSET Days /\ was \in Nat /\ is \in Nat /\ latest \in Int
        /\ rule.days \in Nat /\ rule.days > 0
    BY WalkIs, DaysAre DEF Fair
  <1>2. /\ more # {} /\ Max(more) \in more /\ Max(more) \in Int /\ Max(more) >= latest
        /\ \A d \in more : Max(more) >= d /\ d \in Int
    BY <1>1, DaysAre
  <1> HIDE DEF more
  <1>3. Alive(more, latest) /\ is > 0 /\ is = Walked(more, rule).count
    <2>1. Alive(more, latest)
      BY <1>1, <1>2 DEF Alive
    <2>2. is # 0 /\ is = Walked(more, rule).count
      BY <1>1, <2>1, WalkIs
    <2> HIDE DEF is
    <2>3. QED
      BY <1>1, <2>1, <2>2
  <1> SUFFICES is >= rule.days \/ (latest \in days /\ is >= was) \/ (latest \notin days /\ is >= was + 1)
    <2>1. Max({1, was}) = IF 1 >= was THEN 1 ELSE was
      BY <1>1, MoreOfTwo
    <2>2. \A n \in Int : Min({rule.days, n}) = IF rule.days <= n THEN rule.days ELSE n
      BY <1>1, LessOfTwo
    <2> HIDE DEF is, was
    <2>3. Max({1, was}) \in Int /\ was + 1 \in Int
      BY <1>1, <2>1
    <2>4. CASE latest \in days
      <3>1. is >= rule.days \/ is >= Max({1, was})
        BY <1>1, <1>3, <2>1, <2>4
      <3>2. Min({rule.days, Max({1, was})}) = IF rule.days <= Max({1, was}) THEN rule.days ELSE Max({1, was})
        BY <2>2, <2>3
      <3>3. is >= Min({rule.days, Max({1, was})})
        BY <1>1, <2>3, <3>1, <3>2
      <3>4. QED
        BY <2>4, <3>3 DEF is, was, more
    <2>5. CASE latest \notin days
      <3>1. is >= Min({rule.days, was + 1})
        BY <1>1, <1>3, <2>2, <2>3, <2>5
      <3>2. QED
        BY <2>5, <3>1 DEF is, was, more
    <2>6. QED
      BY <2>4, <2>5
  <1>4. CASE latest \in days
    <2>1. is = was
      BY <1>4 DEF more
    <2> HIDE DEF is, was
    <2>2. QED
      BY <1>1, <1>4, <2>1
  <1>5. CASE latest \notin days /\ ~Alive(days, latest)
    <2>1. was = 0
      BY <1>5, WalkIs
    <2> HIDE DEF is, was
    <2>2. QED
      BY <1>1, <1>3, <1>5, <2>1
  <1>6. CASE latest \notin days /\ Alive(days, latest)
    <2>1. days # {} /\ was = Walked(days, rule).count /\ Max(days) >= latest - 1
      BY <1>6, WalkIs DEF Alive
    <2>2. o \in days /\ Good(days, o, rule) /\ was = Cardinality(Back(days, o))
      BY <2>1, WalkedIsTrue DEF Fair, True
    <2>3. /\ Max(days) \in days /\ Max(days) \in Int /\ o \in Int /\ Max(days) # latest /\ o # latest
          /\ Max(days) <= latest + 1 /\ o <= Max(days)
      BY <1>6, <2>1, <2>2, DaysAre
    <2> HIDE DEF o
    <2>4. Max(more) = IF Max(days) > latest THEN Max(days) ELSE latest
      <3>1. Max(more) = latest \/ (Max(more) \in days /\ Max(more) <= Max(days))
        BY <1>2, DaysAre DEF more
      <3>2. Max(more) >= Max(days)
        BY <1>2, <2>3 DEF more
      <3>3. QED
        BY <1>1, <1>2, <2>3, <3>1, <3>2
    <2> DEFINE first == IF o < latest THEN o ELSE latest
    <2>5. first \in more /\ first \in Int /\ first <= o /\ first <= latest
      BY <1>1, <2>2, <2>3 DEF more
    <2>6. Missing(more, first) \in SUBSET Missing(days, o)
      <3>1. ASSUME NEW d \in first + 1 .. Max(more) - 1, d \notin more
            PROVE  d \in o + 1 .. Max(days) - 1 /\ d \notin days
        <4>1. d # Max(days) /\ d # latest /\ d \in Int /\ first + 1 <= d /\ d <= Max(more) - 1 /\ d \notin days
          BY <1>2, <2>3, <2>5, <3>1 DEF more
        <4>2. QED
          BY <1>1, <2>1, <2>3, <2>4, <4>1
      <3>2. QED
        BY <3>1 DEF Missing
    <2> HIDE DEF first
    <2>7. Back(days, o) \in SUBSET Back(more, first) /\ Good(more, first, rule)
      <3>1. days \in SUBSET more
        BY DEF more
      <3>2. QED
        BY <1>1, <2>2, <2>5, <2>6, <3>1, Grown
    <2>8. latest \in Back(more, first) /\ latest \notin Back(days, o)
      BY <1>2, <1>6, <2>5 DEF Back, Between, more
    <2>9. was + 1 <= Cardinality(Back(more, first)) /\ Cardinality(Back(more, first)) \in Int
      <3>1. IsFiniteSet(Back(days, o)) /\ IsFiniteSet(Back(more, first)) /\ Cardinality(Back(more, first)) \in Int
        <4>1. IsFiniteSet(Back(days, o))
          BY <2>2, BackIs
        <4>2. IsFiniteSet(Back(more, first)) /\ Cardinality(Back(more, first)) \in Nat
          BY <1>1, <2>5, BackIs
        <4>3. QED
          BY <4>1, <4>2
      <3>2. Cardinality(Back(days, o) \cup {latest}) = was + 1
        BY <2>2, <2>8, <3>1, FS_AddElement
      <3>3. Back(days, o) \cup {latest} \in SUBSET Back(more, first)
        BY <2>7, <2>8
      <3>4. Cardinality(Back(days, o) \cup {latest}) <= Cardinality(Back(more, first))
        BY <3>1, <3>3, FS_Subset
      <3>5. QED
        BY <3>1, <3>2, <3>4
    <2>10. is = rule.days \/ Cardinality(Back(more, first)) <= is
      BY <1>1, <1>3, <2>5, <2>7, WalkIsLongest
    <2> HIDE DEF was, is
    <2>11. QED
      BY <1>1, <1>6, <2>9, <2>10
  <1>7. QED
    BY <1>4, <1>5, <1>6

-----------------------------------------------------------------------------
(* The theorems.                                                            *)

LEMMA StreaksTypeStep == TypeOK /\ [Next]_vars => TypeOK'
  <1> SUFFICES ASSUME TypeOK, [Next]_vars PROVE TypeOK'
    OBVIOUS
  <1> USE DEF TypeOK
  <1>0. \A ahead \in 0 .. Ahead : LocalDate(ahead) \in Days
    BY Sizes DEF LocalDate, Days
  <1>1. CASE NextDay
    BY <1>1, Sizes DEF NextDay
  <1>2. ASSUME NEW ahead \in 0 .. Ahead, Record(ahead) PROVE TypeOK'
    BY <1>0, <1>2 DEF Record
  <1>3. ASSUME NEW ahead \in 0 .. Ahead, RecordElsewhere(ahead) PROVE TypeOK'
    BY <1>0, <1>3 DEF RecordElsewhere
  <1>4. CASE LogIn
    BY <1>4 DEF LogIn
  <1>5. CASE LogOut
    BY <1>5 DEF LogOut
  <1>6. CASE ChangePlan
    BY <1>6 DEF ChangePlan
  <1>7. CASE PostRun
    BY <1>7 DEF PostRun
  <1>8. ASSUME NEW ahead \in 0 .. Ahead, WriteRun(ahead) PROVE TypeOK'
    <2>1. /\ device' = device \cup {LocalDate(ahead)} /\ posting' = FALSE
          /\ stray' = IF signedIn THEN stray \cup {LocalDate(ahead)} ELSE stray
          /\ UNCHANGED <<now, account, signedIn, plan>>
      BY <1>8 DEF WriteRun
    <2>2. device' \subseteq Days /\ stray' \subseteq Days
      BY <1>0, <2>1
    <2>3. signedIn' => device' \subseteq stray'
      BY <2>1
    <2>4. QED
      BY <2>1, <2>2, <2>3
  <1>9. CASE UNCHANGED vars
    BY <1>9 DEF vars
  <1>10. QED
    BY <1>1, <1>2, <1>3, <1>4, <1>5, <1>6, <1>7, <1>8, <1>9 DEF Next

(* Of a browser's runs a sign-in leaves only those in flight over it        *)
(* unclaimed, and every run is dated by some clock (claim_device).          *)
THEOREM StreaksTyped == Spec => []TypeOK
  <1>1. Init => TypeOK
    <2> SUFFICES ASSUME Init PROVE TypeOK
      OBVIOUS
    <2>1. now \in 0 .. LastDay
      BY Sizes DEF Init
    <2>2. QED
      BY <2>1 DEF Init, TypeOK
  <1>2. QED
    BY <1>1, StreaksTypeStep, PTL DEF Spec

(* The streak a page shows is the longest chain its rule forgives, the best *)
(* ever is no shorter, and the plan's pitch comes out as promised           *)
(* (_walk, _freeze, _longest, summary).                                     *)
THEOREM ShownTrue == Spec => []ShownIsTrue
  <1>1. TypeOK => ShownIsTrue
    BY BestIsShown, LongestIsShown, PitchHolds DEF ShownIsTrue, BestShown
  <1>2. QED
    BY <1>1, StreaksTyped, PTL

LEMMA DayCounts ==
  ASSUME TypeOK, NEW ahead \in 0 .. Ahead, Record(ahead),
         \A d \in Owned : d <= LocalDate(ahead) + 1
  PROVE  Walk(Owned', LocalDate(ahead), Rule).streak >=
            Min({Rule.days,
                 IF LocalDate(ahead) \in Owned THEN Max({1, Streak(ahead)}) ELSE Streak(ahead) + 1})
  <1>1. Owned \in SUBSET Days /\ Fair(Rule)
    BY RuleIsFair
  <1>2. LocalDate(ahead) \in Days
    BY Sizes DEF LocalDate, Days, TypeOK
  <1>3. Owned' = Owned \cup {LocalDate(ahead)}
    BY DEF Record, Owned
  <1>4. Walk(Owned \cup {LocalDate(ahead)}, LocalDate(ahead), Rule).streak >=
           Min({Rule.days, IF LocalDate(ahead) \in Owned
                           THEN Max({1, Walk(Owned, LocalDate(ahead), Rule).streak})
                           ELSE Walk(Owned, LocalDate(ahead), Rule).streak + 1})
    <2> DEFINE days == Owned
               latest == LocalDate(ahead)
               rule == Rule
    <2>1. days \in SUBSET Days /\ latest \in Days /\ Fair(rule) /\ \A d \in days : d <= latest + 1
      BY <1>1, <1>2
    <2> HIDE DEF days, latest, rule
    <2>2. Walk(days \cup {latest}, latest, rule).streak
             >= Min({rule.days, IF latest \in days THEN Max({1, Walk(days, latest, rule).streak})
                                ELSE Walk(days, latest, rule).streak + 1})
      BY <2>1, DayAdded
    <2>3. QED
      BY <2>2 DEF days, latest, rule
  <1>5. QED
    BY <1>3, <1>4 DEF Streak

LEMMA ClaimCounts ==
  ASSUME TypeOK, NEW ahead \in 0 .. Ahead, LogIn,
         \A d \in device \cup account : d <= LocalDate(ahead)
  PROVE  Walk(Owned', LocalDate(ahead), Rule').streak >= Streak(ahead)
  <1> DEFINE latest == LocalDate(ahead)
             more == account \cup device
             new == Rule'
  <1>1. Owned = device /\ Rule = Free /\ Owned' = more
    BY DEF LogIn, Owned, Rule
  <1>2. new = IF plan # 0 THEN ProRule(plan) ELSE Free
    BY DEF LogIn, Rule, ProRule, Free
  <1>3. Fair(Free) /\ ~Free.freezes /\ Fair(new) /\ Free.days <= new.days
    <2>1. Fair(Free) /\ ~Free.freezes /\ Free.days = FreeDays
      BY RulesAreFair DEF Free
    <2>2. CASE plan = 0
      BY <1>2, <2>1, <2>2, Sizes
    <2>3. CASE plan # 0
      <3>1. plan \in Nat /\ FreeDays <= plan
        BY <2>3, Sizes DEF TypeOK
      <3>2. Fair(ProRule(plan)) /\ FreeDays <= ProRule(plan).days
        BY <3>1, RulesAreFair
      <3>3. QED
        BY <1>2, <2>1, <2>3, <3>2
    <2>4. QED
      BY <2>2, <2>3
  <1>4. more \in SUBSET Days /\ device \in SUBSET more /\ latest \in Int /\ \A d \in more : d <= latest
    BY Sizes DEF TypeOK, LocalDate
  <1> HIDE DEF latest, more, new
  <1>5. Walk(more, latest, new).streak >= Walk(device, latest, Free).streak
    <2> DEFINE old == Free
    <2>1. Fair(old) /\ (old.freezes => new.freezes) /\ old.days <= new.days
      BY <1>3
    <2> HIDE DEF old
    <2>2. Walk(more, latest, new).streak >= Walk(device, latest, old).streak
      BY <1>3, <1>4, <2>1, ClaimAdds
    <2>3. QED
      BY <2>2 DEF old
  <1>6. QED
    BY <1>1, <1>5 DEF Streak, latest, new

(* On the clock that dates it a run takes no day off the streak while none  *)
(* held is dated more than a day ahead of it, and on a clock past every run *)
(* neither does a sign-in (record, claim_device, _walk).                    *)
THEOREM NothingCosts == Spec => NothingCostsADay
  <1> DEFINE Counts == \A ahead \in 0 .. Ahead :
                Record(ahead) /\ (\A d \in Owned : d <= LocalDate(ahead) + 1) =>
                    Walk(Owned', LocalDate(ahead), Rule).streak >=
                        Min({Rule.days,
                             IF LocalDate(ahead) \in Owned
                             THEN Max({1, Streak(ahead)})
                             ELSE Streak(ahead) + 1})
             Keeps == \A ahead \in 0 .. Ahead :
                LogIn /\ (\A d \in device \cup account : d <= LocalDate(ahead))
                    => Walk(Owned', LocalDate(ahead), Rule').streak >= Streak(ahead)
  <1>1. TypeOK => Counts
    BY DayCounts
  <1>2. TypeOK => Keeps
    BY ClaimCounts
  <1>3. Spec => [][Counts]_vars
    BY <1>1, StreaksTyped, PTL
  <1>4. Spec => [][Keeps]_vars
    BY <1>2, StreaksTyped, PTL
  <1>5. QED
    BY <1>3, <1>4 DEF NothingCostsADay, EachDayCounts, ClaimNeverCosts

-----------------------------------------------------------------------------
(* The bank's tables: what a seed reads off them is the rows that are there,*)
(* but for what the operator's form may have changed meanwhile.             *)

Same(q, r) == q.id = r.id /\ q.text = r.text /\ q.slug = r.slug /\ q.own = r.own

Numbered(rs) == \A q, r \in rs : q.id = r.id => q = r

Shelved(rs) == \A q, r \in BuiltIn(rs) : <<q.genre, q.slug>> = <<r.genre, r.slug>> => q = r

Worded(rs) == \A q, r \in BuiltIn(rs) : q.text = r.text => q = r

Mirrors(loaded, rs) ==
    /\ loaded \subseteq Row /\ Numbered(loaded)
    /\ \A r \in loaded : ~r.own /\ \E q \in BuiltIn(rs) : Same(q, r)
    /\ \A q \in BuiltIn(rs) : \E r \in loaded : Same(r, q)

Tables(rs) ==
    /\ rs \subseteq Row /\ IsFiniteSet(rs)
    /\ Numbered(rs) /\ Shelved(rs) /\ Worded(rs)

\* Lines read so far, no two of them with one text or one address.
Lines(done) ==
    /\ done \subseteq Line
    /\ \A k, l \in done : k.text = l.text \/ <<k.genre, k.slug>> = <<l.genre, l.slug>> => k = l

LEMMA RowIs ==
  ASSUME NEW r \in Row
  PROVE  /\ r.id \in Nat /\ r.id > 0 /\ r.own \in BOOLEAN /\ r.genre \in Genres /\ r.text \in Texts
         /\ r.slug \in Slugs /\ r.active \in BOOLEAN
         /\ \A g \in Genres : /\ [r EXCEPT !.genre = g] \in Row
                              /\ Same([r EXCEPT !.genre = g], r)
                              /\ [r EXCEPT !.genre = g].genre = g
                              /\ [r EXCEPT !.genre = g].active = r.active
         /\ \A a \in BOOLEAN : /\ [r EXCEPT !.active = a] \in Row
                               /\ Same([r EXCEPT !.active = a], r)
                               /\ [r EXCEPT !.active = a].genre = r.genre
                               /\ [r EXCEPT !.active = a].active = a
  BY DEF Row, Same

LEMMA BuiltInIs ==
  ASSUME NEW rs, NEW r
  PROVE  r \in BuiltIn(rs) <=> r \in rs /\ ~r.own
  BY DEF BuiltIn

LEMMA FreshIs ==
  ASSUME NEW rs \in SUBSET Row, IsFiniteSet(rs)
  PROVE  FreshId(rs) \in Nat /\ FreshId(rs) > 0 /\ \A r \in rs : r.id # FreshId(rs)
  <1> DEFINE ids == {r.id : r \in rs}
             S == {0} \cup ids
  <1>1. ids \in SUBSET Nat
    BY RowIs
  <1>2. IsFiniteSet(S)
    <2>1. IsFiniteSet(ids)
      <3> DEFINE id == [r \in rs |-> r.id]
      <3>1. id \in Surjection(rs, ids)
        BY DEF Surjection
      <3>2. QED
        BY <3>1, FS_Surjection
    <2>2. QED
      BY <2>1, FS_AddElement
  <1>3. S \in SUBSET Int /\ S \in SUBSET Nat /\ 0 \in S
    BY <1>1
  <1> HIDE DEF S
  <1>4. Max(S) \in S /\ \A y \in S : Max(S) >= y
    BY <1>2, <1>3, MaxIs
  <1>5. Max(S) \in Nat
    BY <1>3, <1>4
  <1>6. FreshId(rs) = Max(S) + 1
    BY DEF FreshId, S
  <1>7. ASSUME NEW r \in rs PROVE r.id # Max(S) + 1
    <2>1. r.id \in S
      BY DEF S
    <2>2. r.id \in Nat /\ Max(S) >= r.id
      BY <1>3, <1>4, <2>1
    <2>3. QED
      BY <1>5, <2>2
  <1>8. QED
    BY <1>5, <1>6, <1>7

-----------------------------------------------------------------------------
(* The seed, line by line: where every row it holds comes from.             *)

Untouched(q, rs, seen) == q \in rs /\ q.id \notin seen

Followed(q, loaded, done) ==
    \E r \in loaded, l \in done : /\ Same(q, r) /\ q.active = r.active
                                  /\ r.text = l.text /\ q.genre = l.genre

Added(q, rs, loaded, done) ==
    /\ q.active = TRUE /\ \A r \in rs : r.id # q.id
    /\ \E l \in done : /\ q.text = l.text /\ q.genre = l.genre /\ q.slug = l.slug
                       /\ \A r \in loaded : r.text # l.text

Sourced(q, rs, loaded, seen, done) ==
    \/ Untouched(q, rs, seen)
    \/ q.id \in seen /\ (Followed(q, loaded, done) \/ Added(q, rs, loaded, done))

Going(w, rs, loaded, done) ==
    /\ w.rows \subseteq Row /\ IsFiniteSet(w.rows) /\ Numbered(w.rows) /\ Shelved(w.rows)
    /\ \A r \in rs : r.own => r \in w.rows
    /\ \A r \in w.rows : r.own => r \in rs
    /\ \A q \in BuiltIn(w.rows) : Sourced(q, rs, loaded, w.seen, done)
    /\ \A r \in BuiltIn(rs) : \E q \in BuiltIn(w.rows) : Same(q, r)
    /\ \A l \in done : \E q \in BuiltIn(w.rows) : q.text = l.text /\ q.genre = l.genre /\ q.id \in w.seen

RowFor(loaded, w, l) ==
    IF Had(loaded, l) = {}
    THEN [id |-> FreshId(w.rows), own |-> FALSE, genre |-> l.genre, text |-> l.text,
          slug |-> l.slug, active |-> TRUE]
    ELSE Kept(CHOOSE r \in Had(loaded, l) : TRUE, l)

OthersThan(row, rs) == {r \in rs : r.id # row.id}

LEMMA UpsertIs ==
  ASSUME NEW loaded, NEW w, NEW l
  PROVE  LET row == RowFor(loaded, w, l)
         IN  Upsert(loaded, w, l) =
               IF ~w.ok \/ Clash(OthersThan(row, w.rows), row)
               THEN [w EXCEPT !.ok = FALSE]
               ELSE [rows |-> OthersThan(row, w.rows) \cup {row}, seen |-> w.seen \cup {row.id}, ok |-> TRUE]
  BY Zenon DEF Upsert, RowFor, OthersThan

Writing(w) == \E rs, ids : w \in [rows : {rs}, seen : {ids}, ok : BOOLEAN]

LEMMA RaisedIs ==
  ASSUME NEW w, Writing(w)
  PROVE  Writing([w EXCEPT !.ok = FALSE]) /\ ~[w EXCEPT !.ok = FALSE].ok
  <1>1. PICK rs, ids : w \in [rows : {rs}, seen : {ids}, ok : BOOLEAN]
    BY DEF Writing
  <1>2. /\ [w EXCEPT !.ok = FALSE] \in [rows : {rs}, seen : {ids}, ok : BOOLEAN]
        /\ [w EXCEPT !.ok = FALSE].ok = FALSE
    BY <1>1
  <1>3. QED
    BY <1>2 DEF Writing

LEMMA UpsertWrites ==
  ASSUME NEW loaded, NEW w, NEW l, Writing(w)
  PROVE  Writing(Upsert(loaded, w, l)) /\ (Upsert(loaded, w, l).ok => w.ok)
  <1> DEFINE row == RowFor(loaded, w, l)
             rest == OthersThan(row, w.rows)
  <1>1. CASE ~w.ok \/ Clash(rest, row)
    BY <1>1, UpsertIs, RaisedIs
  <1>2. CASE ~(~w.ok \/ Clash(rest, row))
    <2>1. Upsert(loaded, w, l) = [rows |-> rest \cup {row}, seen |-> w.seen \cup {row.id}, ok |-> TRUE]
      BY <1>2, UpsertIs
    <2>2. QED
      BY <1>2, <2>1 DEF Writing
  <1>3. QED
    BY <1>1, <1>2

\* The row a line is written to: a built-in one, with the line's words and
\* genre, which is the loaded row of those words or has a number nobody has.
LEMMA RowForIs ==
  ASSUME NEW rs, Tables(rs), NEW loaded, Mirrors(loaded, rs), NEW done, NEW l, Lines(done \cup {l}),
         NEW w, Going(w, rs, loaded, done)
  PROVE  LET row == RowFor(loaded, w, l)
         IN  /\ row \in Row /\ ~row.own /\ row.genre = l.genre /\ row.text = l.text
             /\ \A r \in rs : r.own => r.id # row.id
             /\ \A r \in BuiltIn(rs) : r.id = row.id => Same(row, r)
             /\ \A q \in BuiltIn(w.rows) : q.id = row.id => q.text = row.text
             /\ Followed(row, loaded, done \cup {l}) \/ Added(row, rs, loaded, done \cup {l})
  <1> DEFINE had == Had(loaded, l)
             row == RowFor(loaded, w, l)
  <1>1. l \in Line /\ l.genre \in Genres /\ l.text \in Texts /\ l.slug \in Slugs
    BY DEF Lines, Line
  <1>2. w.rows \in SUBSET Row /\ IsFiniteSet(w.rows)
    BY DEF Going
  <1>3. CASE had = {}
    <2> DEFINE id == FreshId(w.rows)
    <2>1. id \in Nat \ {0} /\ \A r \in w.rows : r.id # id
      BY <1>2, FreshIs
    <2> HIDE DEF id
    <2>2. row = [id |-> id, own |-> FALSE, genre |-> l.genre, text |-> l.text, slug |-> l.slug, active |-> TRUE]
      BY <1>3 DEF RowFor, id
    <2> HIDE DEF row
    <2>3. row \in Row /\ ~row.own /\ row.genre = l.genre /\ row.text = l.text /\ row.id = id
      BY <1>1, <2>1, <2>2 DEF Row
    <2>4. \A r \in rs : r.id # id
      <3>1. ASSUME NEW r \in rs PROVE r.id # id
        <4>1. r \in Row /\ r.own \in BOOLEAN
          BY <3>1, RowIs DEF Tables
        <4>2. CASE r.own
          BY <2>1, <4>2 DEF Going
        <4>3. CASE ~r.own
          <5>1. PICK q \in BuiltIn(w.rows) : Same(q, r)
            BY <4>3, BuiltInIs DEF Going
          <5>2. QED
            BY <2>1, <5>1, BuiltInIs DEF Same
        <4>4. QED
          BY <4>2, <4>3
      <3>2. QED
        BY <3>1
    <2>5. Added(row, rs, loaded, done \cup {l})
      <3>1. \A r \in loaded : r.text # l.text
        BY <1>3 DEF Had
      <3>2. row.active = TRUE /\ row.slug = l.slug
        BY <2>2
      <3>3. QED
        BY <2>3, <2>4, <3>1, <3>2 DEF Added
    <2>6. QED
      BY <2>1, <2>3, <2>4, <2>5, BuiltInIs DEF row
  <1>4. CASE had # {}
    <2> DEFINE had1 == CHOOSE r \in had : TRUE
    <2>1. had1 \in had
      BY <1>4
    <2>2. row = [had1 EXCEPT !.genre = l.genre]
      BY <1>4 DEF RowFor, Kept
    <2> HIDE DEF had1, row
    <2>3. had1 \in loaded /\ had1.text = l.text
      BY <2>1 DEF Had
    <2>4. had1 \in Row /\ ~had1.own
      BY <2>3 DEF Mirrors
    <2>5. row \in Row /\ Same(row, had1) /\ row.genre = l.genre /\ row.active = had1.active
      BY <1>1, <2>2, <2>4, RowIs
    <2>6. PICK q1 \in BuiltIn(rs) : Same(q1, had1)
      BY <2>3 DEF Mirrors
    <2>7. \A r \in rs : r.id = row.id => r = q1
      BY <2>5, <2>6, BuiltInIs DEF Tables, Numbered, Same
    <2>8. ~row.own /\ row.text = l.text
      BY <2>3, <2>4, <2>5 DEF Same
    <2>9. /\ \A r \in rs : r.own => r.id # row.id
          /\ \A r \in BuiltIn(rs) : r.id = row.id => Same(row, r)
      BY <2>5, <2>6, <2>7, BuiltInIs DEF Same
    <2>10. ASSUME NEW q \in BuiltIn(w.rows), q.id = row.id PROVE q.text = row.text
      <3>1. Sourced(q, rs, loaded, w.seen, done)
        BY DEF Going
      <3>2. CASE Untouched(q, rs, w.seen)
        BY <2>5, <2>6, <2>7, <2>10, <3>2 DEF Untouched, Same
      <3>3. CASE Followed(q, loaded, done)
        <4>1. PICK r \in loaded : Same(q, r)
          BY <3>3 DEF Followed
        <4>2. r = had1
          <5>1. r.id = had1.id
            BY <2>5, <2>10, <4>1 DEF Same
          <5>2. QED
            BY <2>3, <5>1 DEF Mirrors, Numbered
        <4>3. QED
          BY <2>5, <4>1, <4>2 DEF Same
      <3>4. CASE Added(q, rs, loaded, done)
        BY <2>5, <2>6, <2>10, <3>4, BuiltInIs DEF Added, Same
      <3>5. QED
        BY <3>1, <3>2, <3>3, <3>4 DEF Sourced
    <2>11. Followed(row, loaded, done \cup {l})
      BY <2>3, <2>5 DEF Followed
    <2>12. QED
      BY <2>5, <2>8, <2>9, <2>10, <2>11 DEF row
  <1>5. QED
    BY <1>3, <1>4

LEMMA UpsertGoes ==
  ASSUME NEW rs, Tables(rs), NEW loaded, Mirrors(loaded, rs), NEW done, NEW l, Lines(done \cup {l}),
         NEW w, Writing(w), Going(w, rs, loaded, done), Upsert(loaded, w, l).ok
  PROVE  Going(Upsert(loaded, w, l), rs, loaded, done \cup {l})
  <1> DEFINE row == RowFor(loaded, w, l)
             rest == OthersThan(row, w.rows)
             u == Upsert(loaded, w, l)
             more == done \cup {l}
  <1>1. /\ row \in Row /\ ~row.own /\ row.genre = l.genre /\ row.text = l.text
        /\ \A r \in rs : r.own => r.id # row.id
        /\ \A r \in BuiltIn(rs) : r.id = row.id => Same(row, r)
        /\ \A q \in BuiltIn(w.rows) : q.id = row.id => q.text = row.text
        /\ Followed(row, loaded, more) \/ Added(row, rs, loaded, more)
    BY RowForIs
  <1>2. ~Clash(rest, row) /\ u.rows = rest \cup {row} /\ u.seen = w.seen \cup {row.id}
    <2>1. CASE Clash(rest, row)
      <3>1. u = [w EXCEPT !.ok = FALSE]
        BY <2>1, UpsertIs
      <3>2. ~u.ok
        BY <3>1, RaisedIs
      <3>3. QED
        BY <3>2
    <2>2. CASE ~Clash(rest, row)
      <3>1. w.ok
        BY UpsertWrites
      <3>2. u = [rows |-> rest \cup {row}, seen |-> w.seen \cup {row.id}, ok |-> TRUE]
        BY <2>2, <3>1, UpsertIs
      <3>3. QED
        BY <2>2, <3>2
    <2>3. QED
      BY <2>1, <2>2
  <1> HIDE DEF u, row
  <1>3. rest \in SUBSET w.rows /\ (\A r \in rest : r.id # row.id) /\ \A r \in w.rows : r.id # row.id => r \in rest
    BY DEF OthersThan
  <1> HIDE DEF rest
  <1>4. u.rows \subseteq Row /\ IsFiniteSet(u.rows)
    <2>1. IsFiniteSet(rest)
      BY <1>3, FS_Subset DEF Going
    <2>2. IsFiniteSet(rest \cup {row})
      BY <2>1, FS_AddElement
    <2>3. QED
      BY <1>1, <1>2, <1>3, <2>2 DEF Going
  <1>5. Numbered(u.rows)
    BY <1>2, <1>3 DEF Going, Numbered
  <1>6. Shelved(u.rows)
    <2> SUFFICES ASSUME NEW q \in BuiltIn(u.rows), NEW r \in BuiltIn(u.rows),
                        <<q.genre, q.slug>> = <<r.genre, r.slug>>
                 PROVE  q = r
      BY DEF Shelved
    <2>1. (q = row \/ q \in rest) /\ (r = row \/ r \in rest) /\ ~q.own /\ ~r.own
      BY <1>2, BuiltInIs
    <2>2. q.genre = r.genre /\ q.slug = r.slug
      OBVIOUS
    <2>3. CASE q \in rest /\ r \in rest
      BY <1>3, <2>1, <2>3, BuiltInIs DEF Going, Shelved
    <2>4. ASSUME NEW x \in rest, ~x.own, x.genre = row.genre, x.slug = row.slug PROVE FALSE
      <3>1. x.own \in BOOLEAN /\ row.own \in BOOLEAN
        BY <1>1, <1>3, RowIs DEF Going
      <3>2. QED
        BY <1>1, <1>2, <1>3, <2>4, <3>1 DEF Clash
    <2>5. QED
      BY <2>1, <2>2, <2>3, <2>4
  <1>7. (\A r \in rs : r.own => r \in u.rows) /\ (\A r \in u.rows : r.own => r \in rs)
    BY <1>1, <1>2, <1>3 DEF Going
  <1>8. ASSUME NEW q \in BuiltIn(u.rows)
        PROVE  Sourced(q, rs, loaded, u.seen, more)
    <2>1. CASE q = row
      BY <1>1, <1>2, <2>1 DEF Sourced
    <2>2. CASE q # row
      <3>1. q \in BuiltIn(w.rows) /\ q.id # row.id
        BY <1>2, <1>3, <2>2, BuiltInIs
      <3>2. Sourced(q, rs, loaded, w.seen, done)
        BY <3>1 DEF Going
      <3>3. CASE Untouched(q, rs, w.seen)
        BY <1>2, <3>1, <3>3 DEF Untouched, Sourced
      <3>4. CASE q.id \in w.seen /\ Followed(q, loaded, done)
        BY <1>2, <3>4 DEF Followed, Sourced
      <3>5. CASE q.id \in w.seen /\ Added(q, rs, loaded, done)
        BY <1>2, <3>5 DEF Added, Sourced
      <3>6. QED
        BY <3>2, <3>3, <3>4, <3>5 DEF Sourced
    <2>3. QED
      BY <2>1, <2>2
  <1>9. ASSUME NEW r \in BuiltIn(rs) PROVE \E q \in BuiltIn(u.rows) : Same(q, r)
    <2>1. CASE r.id = row.id
      <3>1. row \in BuiltIn(u.rows)
        BY <1>1, <1>2, BuiltInIs
      <3>2. QED
        BY <1>1, <2>1, <3>1
    <2>2. CASE r.id # row.id
      <3>1. PICK q \in BuiltIn(w.rows) : Same(q, r)
        BY DEF Going
      <3>2. q \in BuiltIn(u.rows)
        BY <1>2, <1>3, <2>2, <3>1, BuiltInIs DEF Same
      <3>3. QED
        BY <3>1, <3>2
    <2>3. QED
      BY <2>1, <2>2
  <1>10. ASSUME NEW k \in more
         PROVE  \E q \in BuiltIn(u.rows) : q.text = k.text /\ q.genre = k.genre /\ q.id \in u.seen
    <2>1. CASE k = l
      <3>1. row \in BuiltIn(u.rows) /\ row.id \in u.seen
        BY <1>1, <1>2, BuiltInIs
      <3>2. QED
        BY <1>1, <2>1, <3>1
    <2>2. CASE k # l
      <3>1. PICK q \in BuiltIn(w.rows) : q.text = k.text /\ q.genre = k.genre /\ q.id \in w.seen
        BY <2>2 DEF Going
      <3>2. q.id # row.id
        BY <1>1, <2>2, <3>1 DEF Lines
      <3>3. q \in BuiltIn(u.rows) /\ q.id \in u.seen
        BY <1>2, <1>3, <3>1, <3>2, BuiltInIs
      <3>4. QED
        BY <3>1, <3>3
    <2>3. QED
      BY <2>1, <2>2
  <1>11. QED
    BY <1>4, <1>5, <1>6, <1>7, <1>8, <1>9, <1>10 DEF Going, u

\* The recursion has a solution, as far as it is asked.
Writes(w, n, loaded) ==
    w = [k \in 0 .. n |-> IF k = 0 THEN [rows |-> rows, seen |-> {}, ok |-> TRUE]
                                   ELSE Read(loaded, w[k - 1], edition.lines[k])]

LEMMA WritingExists ==
  ASSUME NEW n \in Nat, NEW loaded
  PROVE  \E w : Writes(w, n, loaded)
  <1> DEFINE begun == [rows |-> rows, seen |-> {}, ok |-> TRUE]
             Bad == {k \in Nat : ~\E w : Writes(w, k, loaded)}
  <1> SUFFICES ASSUME Bad # {} PROVE FALSE
    OBVIOUS
  <1>1. PICK k \in Bad : \A m \in Bad : k <= m
    BY LeastNat
  <1>2. CASE k = 0
    <2> DEFINE w == [j \in 0 .. 0 |-> begun]
    <2>1. Writes(w, 0, loaded)
      BY DEF Writes
    <2>2. QED
      BY <1>1, <1>2, <2>1
  <1>3. CASE k # 0
    <2>1. k - 1 \in Nat /\ k - 1 \notin Bad
      BY <1>1, <1>3
    <2>2. PICK w : Writes(w, k - 1, loaded)
      BY <2>1
    <2> DEFINE v == [j \in 0 .. k |-> IF j = 0 THEN begun ELSE Read(loaded, w[j - 1], edition.lines[j])]
    <2>3. \A j \in 0 .. k - 1 : j \in 0 .. k /\ (j # 0 => j - 1 \in 0 .. k - 1)
      BY <2>1
    <2>4. \A j \in 0 .. k - 1 : v[j] = w[j]
      BY <2>2, <2>3, Zenon DEF Writes
    <2>5. \A j \in 0 .. k : j # 0 => j - 1 \in 0 .. k - 1
      BY <2>1
    <2>6. \A j \in 0 .. k : j # 0 => v[j - 1] = w[j - 1]
      BY <2>4, <2>5
    <2>7. Writes(v, k, loaded)
      BY <2>6, Zenon DEF Writes
    <2>8. QED
      BY <1>1, <2>7
  <1>4. QED
    BY <1>2, <1>3

LEMMA WrittenIs ==
  ASSUME NEW loaded, Len(edition.lines) \in Nat
  PROVE  \E w : Writes(w, Len(edition.lines), loaded) /\ Written(loaded) = w[Len(edition.lines)]
  <1> DEFINE w == CHOOSE w : Writes(w, Len(edition.lines), loaded)
  <1>1. Writes(w, Len(edition.lines), loaded)
    BY WritingExists, Zenon
  <1>2. Written(loaded) = w[Len(edition.lines)]
    BY Zenon DEF Written, Writes
  <1>3. QED
    BY <1>1, <1>2

\* What of the files has been read after so many lines.
Done(n) == {l \in {edition.lines[k] : k \in 1 .. n} : l.genre \in edition.declared}

LEMMA EditionIs ==
  ASSUME edition \in Editions
  PROVE  /\ edition.declared \subseteq Genres /\ edition.lines \in Seq(Line) /\ Len(edition.lines) \in Nat
         /\ Done(Len(edition.lines)) = LinesOf(edition) /\ Lines(LinesOf(edition))
         /\ \A n \in 0 .. Len(edition.lines) : Done(n) \subseteq LinesOf(edition)
  <1>1. /\ edition.declared \subseteq Genres /\ edition.lines \in Seq(Line)
        /\ \A k, l \in LinesOf(edition) : k.text = l.text \/ <<k.genre, k.slug>> = <<l.genre, l.slug>> => k = l
    BY BankAssumption
  <1> DEFINE lines == edition.lines
  <1>2. Len(lines) \in Nat /\ DOMAIN lines = 1 .. Len(lines) /\ \A k \in 1 .. Len(lines) : lines[k] \in Line
    BY <1>1
  <1>3. Range(lines) = {lines[k] : k \in 1 .. Len(lines)}
    BY <1>2, Zenon DEF Range
  <1>4. Done(Len(lines)) = LinesOf(edition)
    BY <1>3, Zenon DEF Done, LinesOf
  <1>5. LinesOf(edition) \subseteq Line
    BY <1>2, <1>3 DEF LinesOf
  <1>6. \A n \in 0 .. Len(lines) : Done(n) \subseteq LinesOf(edition)
    <2>1. \A n \in 0 .. Len(lines) : 1 .. n \subseteq 1 .. Len(lines)
      BY <1>2
    <2>2. \A n \in 0 .. Len(lines) : Done(n) \subseteq Done(Len(lines))
      BY <2>1 DEF Done
    <2>3. QED
      BY <1>4, <2>2
  <1>7. QED
    BY <1>1, <1>2, <1>4, <1>5, <1>6 DEF Lines

LEMMA WrittenGoes ==
  ASSUME edition \in Editions, Tables(rows), NEW loaded, Mirrors(loaded, rows), Written(loaded).ok
  PROVE  Going(Written(loaded), rows, loaded, LinesOf(edition))
  <1> DEFINE m == Len(edition.lines)
  <1>1. /\ m \in Nat /\ Done(m) = LinesOf(edition) /\ Lines(LinesOf(edition))
        /\ \A n \in 0 .. m : Done(n) \subseteq LinesOf(edition)
    BY EditionIs
  <1>2. PICK w : Writes(w, m, loaded) /\ Written(loaded) = w[m]
    BY <1>1, WrittenIs
  <1> HIDE DEF m
  <1> DEFINE Bad == {n \in 0 .. m : ~(Writing(w[n]) /\ (w[n].ok => Going(w[n], rows, loaded, Done(n))))}
  <1>3. Bad = {}
    <2> SUFFICES ASSUME Bad # {} PROVE FALSE
      OBVIOUS
    <2>1. PICK n \in Bad : \A k \in Bad : n <= k
      <3>1. Bad \in SUBSET Nat
        BY <1>1
      <3> HIDE DEF Bad
      <3>2. QED
        BY <3>1, LeastNat
    <2>2. n \in 0 .. m /\ n \in Nat /\ ~(Writing(w[n]) /\ (w[n].ok => Going(w[n], rows, loaded, Done(n))))
      BY <1>1, <2>1
    <2>3. CASE n = 0
      <3>1. w[n] = [rows |-> rows, seen |-> {}, ok |-> TRUE]
        BY <1>2, <2>2, <2>3 DEF Writes
      <3>2. Done(n) = {}
        BY <2>3 DEF Done
      <3>3. Going(w[n], rows, loaded, {})
        BY <3>1, BuiltInIs DEF Going, Sourced, Untouched, Tables, Same
      <3>4. QED
        BY <2>2, <3>1, <3>2, <3>3 DEF Writing
    <2>4. CASE n # 0
      <3> DEFINE v == w[n - 1]
                 l == edition.lines[n]
      <3>1. n - 1 \in 0 .. m /\ ~(n <= n - 1) /\ n \in 1 .. n
        BY <1>1, <2>2, <2>4
      <3>2. w[n] = Read(loaded, v, l)
        BY <1>2, <2>2, <2>4 DEF Writes
      <3>3. Done(n) = Done(n - 1) \cup {k \in {l} : k.genre \in edition.declared}
        <4>1. 1 .. n = (1 .. n - 1) \cup {n}
          BY <2>2, <2>4
        <4>2. QED
          BY <4>1, Zenon DEF Done
      <3> HIDE DEF v, l
      <3>4. Writing(v) /\ (v.ok => Going(v, rows, loaded, Done(n - 1)))
        BY <2>1, <3>1 DEF v
      <3>5. CASE l.genre \in edition.declared
        <4>1. w[n] = Upsert(loaded, v, l) /\ Done(n) = Done(n - 1) \cup {l}
          BY <3>2, <3>3, <3>5 DEF Read
        <4>2. Writing(w[n]) /\ (w[n].ok => v.ok)
          BY <3>4, <4>1, UpsertWrites
        <4>3. Lines(Done(n - 1) \cup {l})
          BY <1>1, <2>2, <4>1 DEF Lines
        <4>4. QED
          BY <2>2, <3>4, <4>1, <4>2, <4>3, UpsertGoes
      <3>6. CASE l.genre \notin edition.declared
        <4>1. w[n] = v /\ Done(n) = Done(n - 1)
          BY <3>2, <3>3, <3>6 DEF Read
        <4>2. QED
          BY <2>2, <3>4, <4>1
      <3>7. QED
        BY <3>5, <3>6
    <2>5. QED
      BY <2>3, <2>4
  <1>4. m \in 0 .. m
    BY <1>1
  <1>5. QED
    BY <1>1, <1>2, <1>3, <1>4

\* No two built-in rows come out with one text.
LEMMA GoingIsWorded ==
  ASSUME NEW rs, Tables(rs), NEW loaded, Mirrors(loaded, rs), NEW done, Lines(done),
         NEW w, Going(w, rs, loaded, done)
  PROVE  Worded(w.rows)
  <1> DEFINE Stood(q) == \E r \in BuiltIn(rs) : Same(q, r)
  <1>1. ASSUME NEW q \in BuiltIn(w.rows)
        PROVE  Stood(q) \/ Added(q, rs, loaded, done)
    <2>1. Sourced(q, rs, loaded, w.seen, done) /\ ~q.own
      BY BuiltInIs DEF Going
    <2>2. CASE Untouched(q, rs, w.seen)
      BY <2>1, <2>2, BuiltInIs DEF Untouched, Same
    <2>3. CASE Followed(q, loaded, done)
      <3>1. PICK r \in loaded : Same(q, r)
        BY <2>3 DEF Followed
      <3>2. PICK p \in BuiltIn(rs) : Same(p, r)
        BY DEF Mirrors
      <3>3. QED
        BY <3>1, <3>2 DEF Same
    <2>4. QED
      BY <2>1, <2>2, <2>3 DEF Sourced
  <1>2. ASSUME NEW q, Stood(q), NEW r, Added(r, rs, loaded, done), q.text = r.text PROVE FALSE
    <2>1. PICK p \in BuiltIn(rs) : Same(q, p)
      BY <1>2
    <2>2. PICK o \in loaded : Same(o, p)
      BY DEF Mirrors
    <2>3. o.text = r.text
      BY <1>2, <2>1, <2>2 DEF Same
    <2>4. QED
      BY <1>2, <2>3 DEF Added
  <1> SUFFICES ASSUME NEW q \in BuiltIn(w.rows), NEW r \in BuiltIn(w.rows), q.text = r.text
               PROVE  q = r
    BY DEF Worded
  <1>3. CASE Stood(q) /\ Stood(r)
    <2>1. PICK p \in BuiltIn(rs), o \in BuiltIn(rs) : Same(q, p) /\ Same(r, o)
      BY <1>3
    <2>2. p = o
      BY <2>1 DEF Tables, Worded, Same
    <2>3. q.id = r.id
      BY <2>1, <2>2 DEF Same
    <2>4. QED
      BY <2>3, BuiltInIs DEF Going, Numbered
  <1>4. CASE Added(q, rs, loaded, done) /\ Added(r, rs, loaded, done)
    <2>1. PICK k \in done : q.text = k.text /\ q.genre = k.genre /\ q.slug = k.slug
      BY <1>4 DEF Added
    <2>2. PICK l \in done : r.text = l.text /\ r.genre = l.genre /\ r.slug = l.slug
      BY <1>4 DEF Added
    <2>3. k = l
      BY <2>1, <2>2 DEF Lines
    <2>4. QED
      BY <2>1, <2>2, <2>3 DEF Going, Shelved
  <1>5. QED
    BY <1>1, <1>2, <1>3, <1>4

-----------------------------------------------------------------------------
(* The sweep.                                                               *)

Swept(r, seen) == IF r.own \/ r.id \in seen THEN r ELSE [r EXCEPT !.active = FALSE]

LEMMA SweptIs ==
  ASSUME NEW r \in Row, NEW seen
  PROVE  /\ Swept(r, seen) \in Row /\ Same(Swept(r, seen), r) /\ Swept(r, seen).genre = r.genre
         /\ r.own \/ r.id \in seen => Swept(r, seen) = r
         /\ ~(r.own \/ r.id \in seen) => ~Swept(r, seen).active
  <1> DEFINE s == [r EXCEPT !.active = FALSE]
  <1>1. s \in Row /\ s.id = r.id /\ s.text = r.text /\ s.slug = r.slug /\ s.own = r.own
        /\ s.genre = r.genre /\ s.active = FALSE
    BY DEF Row
  <1> HIDE DEF s
  <1>2. CASE r.own \/ r.id \in seen
    BY <1>2 DEF Swept, Same
  <1>3. CASE ~(r.own \/ r.id \in seen)
    <2>1. Swept(r, seen) = s
      BY <1>3 DEF Swept, s
    <2>2. QED
      BY <1>1, <1>3, <2>1 DEF Same
  <1>4. QED
    BY <1>2, <1>3

LEMMA SweepIs ==
  ASSUME NEW rs, Tables(rs), NEW seen
  PROVE  /\ Tables(Sweep(rs, seen))
         /\ \A q : q \in Sweep(rs, seen) <=> \E r \in rs : q = Swept(r, seen)
  <1> DEFINE swept == Sweep(rs, seen)
  <1>1. swept = {Swept(r, seen) : r \in rs}
    BY Zenon DEF Sweep, Swept
  <1>2. \A q : q \in swept <=> \E r \in rs : q = Swept(r, seen)
    BY <1>1
  <1>3. \A r \in rs : r \in Row
    BY DEF Tables
  <1>4. IsFiniteSet(swept)
    <2> DEFINE f == [r \in rs |-> Swept(r, seen)]
    <2>1. f \in Surjection(rs, swept)
      BY <1>1 DEF Surjection
    <2>2. QED
      BY <2>1, FS_Surjection DEF Tables
  <1> HIDE DEF swept
  <1>5. swept \subseteq Row
    BY <1>2, <1>3, SweptIs
  <1>6. ASSUME NEW q \in swept, NEW r \in swept
        PROVE  \E a, b \in rs : /\ q = Swept(a, seen) /\ r = Swept(b, seen)
                                /\ Same(q, a) /\ Same(r, b) /\ q.genre = a.genre /\ r.genre = b.genre
    BY <1>2, <1>3, SweptIs
  <1>7. Numbered(swept)
    BY <1>6 DEF Tables, Numbered, Same
  <1>8. Shelved(swept)
    <2> SUFFICES ASSUME NEW q \in BuiltIn(swept), NEW r \in BuiltIn(swept),
                        <<q.genre, q.slug>> = <<r.genre, r.slug>>
                 PROVE  q = r
      BY DEF Shelved
    <2>1. PICK a \in rs, b \in rs : /\ q = Swept(a, seen) /\ r = Swept(b, seen)
                                    /\ Same(q, a) /\ Same(r, b) /\ q.genre = a.genre /\ r.genre = b.genre
      BY <1>6, BuiltInIs
    <2>2. a \in BuiltIn(rs) /\ b \in BuiltIn(rs) /\ <<a.genre, a.slug>> = <<b.genre, b.slug>>
      BY <2>1, BuiltInIs DEF Same
    <2>3. a = b
      BY <2>2 DEF Tables, Shelved
    <2>4. QED
      BY <2>1, <2>3
  <1>9. Worded(swept)
    <2> SUFFICES ASSUME NEW q \in BuiltIn(swept), NEW r \in BuiltIn(swept), q.text = r.text
                 PROVE  q = r
      BY DEF Worded
    <2>1. PICK a \in rs, b \in rs : /\ q = Swept(a, seen) /\ r = Swept(b, seen)
                                    /\ Same(q, a) /\ Same(r, b) /\ q.genre = a.genre /\ r.genre = b.genre
      BY <1>6, BuiltInIs
    <2>2. a \in BuiltIn(rs) /\ b \in BuiltIn(rs) /\ a.text = b.text
      BY <2>1, BuiltInIs DEF Same
    <2>3. a = b
      BY <2>2 DEF Tables, Worded
    <2>4. QED
      BY <2>1, <2>3
  <1>10. QED
    BY <1>2, <1>4, <1>5, <1>7, <1>8, <1>9 DEF Tables, swept

-----------------------------------------------------------------------------
(* The form.                                                                *)

Kin(rs, out) ==
    /\ \A r \in BuiltIn(rs) : \E q \in BuiltIn(out) : Same(q, r)
    /\ \A q \in BuiltIn(out) : \E r \in BuiltIn(rs) : Same(q, r)

LEMMA MirrorsKin ==
  ASSUME NEW loaded, NEW rs, NEW out, Mirrors(loaded, rs), Kin(rs, out)
  PROVE  Mirrors(loaded, out)
  <1>1. ASSUME NEW r \in loaded PROVE \E q \in BuiltIn(out) : Same(q, r)
    <2>1. PICK p \in BuiltIn(rs) : Same(p, r)
      BY DEF Mirrors
    <2>2. PICK q \in BuiltIn(out) : Same(q, p)
      BY DEF Kin
    <2>3. QED
      BY <2>1, <2>2 DEF Same
  <1>2. ASSUME NEW q \in BuiltIn(out) PROVE \E r \in loaded : Same(r, q)
    <2>1. PICK p \in BuiltIn(rs) : Same(q, p)
      BY DEF Kin
    <2>2. PICK r \in loaded : Same(r, p)
      BY DEF Mirrors
    <2>3. QED
      BY <2>1, <2>2 DEF Same
  <1>3. QED
    BY <1>1, <1>2 DEF Mirrors

LEMMA SavedIs ==
  ASSUME NEW rs, Tables(rs), NEW posted \in Row, ~posted.own, \E q \in BuiltIn(rs) : Same(q, posted),
         ~Clash(OthersThan(posted, rs), posted)
  PROVE  LET out == OthersThan(posted, rs) \cup {posted}
         IN  /\ Tables(out) /\ Kin(rs, out)
             /\ \A r \in rs : r.own => r \in out
             /\ \A q \in out : q = posted \/ (q \in rs /\ q.id # posted.id)
             /\ posted \in BuiltIn(out)
  <1> DEFINE rest == OthersThan(posted, rs)
             out == rest \cup {posted}
  <1>1. PICK p \in BuiltIn(rs) : Same(p, posted)
    OBVIOUS
  <1>2. p \in rs /\ ~p.own /\ p.id = posted.id /\ \A r \in rs : r.id = posted.id => r = p
    BY <1>1, BuiltInIs DEF Same, Tables, Numbered
  <1>3. rest \in SUBSET rs /\ (\A r \in rest : r.id # posted.id) /\ \A r \in rs : r.id # posted.id => r \in rest
    BY DEF OthersThan
  <1>4. ~Clash(rest, posted)
    OBVIOUS
  <1> HIDE DEF rest
  <1>5. out \subseteq Row /\ IsFiniteSet(out)
    <2>1. IsFiniteSet(rest)
      BY <1>3, FS_Subset DEF Tables
    <2>2. IsFiniteSet(out)
      BY <2>1, FS_AddElement
    <2>3. QED
      BY <1>3, <2>2 DEF Tables
  <1>6. Numbered(out)
    BY <1>3 DEF Tables, Numbered
  <1>7. Shelved(out)
    <2> SUFFICES ASSUME NEW q \in BuiltIn(out), NEW r \in BuiltIn(out),
                        <<q.genre, q.slug>> = <<r.genre, r.slug>>
                 PROVE  q = r
      BY DEF Shelved
    <2>1. (q = posted \/ q \in rest) /\ (r = posted \/ r \in rest) /\ ~q.own /\ ~r.own
      BY BuiltInIs
    <2>2. q.genre = r.genre /\ q.slug = r.slug
      OBVIOUS
    <2>3. CASE q \in rest /\ r \in rest
      BY <1>3, <2>1, <2>3, BuiltInIs DEF Tables, Shelved
    <2>4. ASSUME NEW x \in rest, ~x.own, x.genre = posted.genre, x.slug = posted.slug PROVE FALSE
      <3>1. x.own \in BOOLEAN /\ posted.own \in BOOLEAN
        BY <1>3, RowIs DEF Tables
      <3>2. QED
        BY <1>3, <1>4, <2>4, <3>1 DEF Clash
    <2>5. QED
      BY <2>1, <2>2, <2>3, <2>4
  <1>8. Kin(rs, out)
    <2>1. posted \in BuiltIn(out)
      BY BuiltInIs
    <2>2. ASSUME NEW r \in BuiltIn(rs) PROVE \E q \in BuiltIn(out) : Same(q, r)
      <3>1. CASE r.id = posted.id
        BY <1>1, <1>2, <2>1, <3>1, BuiltInIs DEF Same
      <3>2. CASE r.id # posted.id
        BY <1>3, <3>2, BuiltInIs DEF Same
      <3>3. QED
        BY <3>1, <3>2
    <2>3. ASSUME NEW q \in BuiltIn(out) PROVE \E r \in BuiltIn(rs) : Same(q, r)
      <3>1. CASE q = posted
        BY <1>1, <3>1 DEF Same
      <3>2. CASE q # posted
        BY <1>3, <3>2, BuiltInIs DEF Same
      <3>3. QED
        BY <3>1, <3>2
    <2>4. QED
      BY <2>2, <2>3 DEF Kin
  <1>9. Worded(out)
    <2> SUFFICES ASSUME NEW q \in BuiltIn(out), NEW r \in BuiltIn(out), q.text = r.text
                 PROVE  q = r
      BY DEF Worded
    <2>1. PICK a \in BuiltIn(rs), b \in BuiltIn(rs) : Same(q, a) /\ Same(r, b)
      BY <1>8 DEF Kin
    <2>2. a = b
      BY <2>1 DEF Tables, Worded, Same
    <2>3. q.id = r.id
      BY <2>1, <2>2 DEF Same
    <2>4. QED
      BY <1>6, <2>3, BuiltInIs DEF Numbered
  <1>10. /\ \A r \in rs : r.own => r \in out
         /\ \A q \in out : q = posted \/ (q \in rs /\ q.id # posted.id)
         /\ posted \in BuiltIn(out)
    BY <1>2, <1>3, BuiltInIs
  <1>11. QED
    BY <1>5, <1>6, <1>7, <1>8, <1>9, <1>10 DEF Tables, rest

-----------------------------------------------------------------------------
(* The invariant: what is loaded or open names the rows there are.          *)

Stored ==
    /\ Tables(rows) /\ Theirs \subseteq rows
    /\ edition \in Editions /\ DOMAIN offered \subseteq Genres
    /\ \A g \in DOMAIN offered : offered[g] \in BOOLEAN
    /\ \A r \in BuiltIn(rows) : r.genre \in DOMAIN offered
    /\ practised \subseteq Texts /\ off \subseteq Nat /\ seeds \in 0..MaxSeeds /\ refused \in BOOLEAN

Loaded ==
    \/ seeding = Closed
    \/ \E loaded : /\ seeding = [open |-> TRUE, rows |-> loaded, genres |-> DOMAIN offered]
                   /\ Mirrors(loaded, rows)

Opened ==
    \/ form = Closed
    \/ \E r \in Row : /\ form = [open |-> TRUE, row |-> r] /\ ~r.own
                      /\ \E q \in BuiltIn(rows) : Same(q, r)

BankInv == Stored /\ Loaded /\ Opened

LEMMA StoredIsTyped == Stored => BankTypeOK
  <1> SUFFICES ASSUME Stored PROVE BankTypeOK
    OBVIOUS
  <1>1. Range(offered) \subseteq BOOLEAN
    BY DEF Stored, Range
  <1>2. \A q, r \in BuiltIn(rows) :
           q.id = r.id \/ q.text = r.text \/ <<q.genre, q.slug>> = <<r.genre, r.slug>> => q = r
    BY BuiltInIs DEF Stored, Tables, Numbered, Shelved, Worded
  <1>3. rows \subseteq Row /\ \A q, r \in rows : q.id = r.id => q = r
    BY DEF Stored, Tables, Numbered
  <1>4. QED
    BY <1>1, <1>2, <1>3 DEF Stored, BankTypeOK

LEMMA BankStarts == BankInit => BankInv
  <1> SUFFICES ASSUME BankInit PROVE BankInv
    OBVIOUS
  <1>1. rows = Theirs /\ \A r \in Theirs : r.own
    BY BankAssumption DEF BankInit
  <1>2. Tables(rows)
    <2>1. BuiltIn(rows) = {}
      BY <1>1 DEF BuiltIn
    <2>2. QED
      BY <1>1, <2>1, BankAssumption DEF Tables, Numbered, Shelved, Worded
  <1>3. DOMAIN offered = {}
    BY DEF BankInit
  <1>4. BuiltIn(rows) = {}
    BY <1>1 DEF BuiltIn
  <1>5. seeds \in 0 .. MaxSeeds
    BY BankAssumption DEF BankInit
  <1>6. Stored
    BY <1>1, <1>2, <1>3, <1>4, <1>5 DEF Stored, BankInit
  <1>7. QED
    BY <1>6 DEF BankInv, Loaded, Opened, BankInit

-----------------------------------------------------------------------------
(* A seed that goes through.                                                *)

Settling(loaded, w) ==
    /\ seeding = [open |-> TRUE, rows |-> loaded, genres |-> DOMAIN offered]
    /\ Mirrors(loaded, rows)
    /\ Going(w, rows, loaded, LinesOf(edition)) /\ Tables(w.rows)
    /\ Lines(LinesOf(edition)) /\ edition.declared \subseteq Genres
    /\ rows' = Sweep(w.rows, w.seen)
    /\ offered' = Shelves(w.rows, DOMAIN offered)

LEMMA SeedSettles ==
  ASSUME BankInv, SeedEnds, Written(seeding.rows).ok
  PROVE  \E loaded, w : Settling(loaded, w)
  <1>1. PICK loaded : /\ seeding = [open |-> TRUE, rows |-> loaded, genres |-> DOMAIN offered]
                      /\ Mirrors(loaded, rows)
    BY DEF BankInv, Loaded, SeedEnds, Closed
  <1> DEFINE w == Written(loaded)
  <1>2. seeding.rows = loaded /\ seeding.genres = DOMAIN offered
    BY <1>1
  <1>3. edition \in Editions /\ Tables(rows)
    BY DEF BankInv, Stored
  <1>4. Going(w, rows, loaded, LinesOf(edition))
    BY <1>1, <1>2, <1>3, WrittenGoes
  <1>5. Lines(LinesOf(edition)) /\ edition.declared \subseteq Genres
    BY <1>3, EditionIs
  <1>6. w.ok /\ rows' = Sweep(w.rows, w.seen) /\ offered' = Shelves(w.rows, DOMAIN offered)
    BY <1>2 DEF SeedEnds
  <1> HIDE DEF w
  <1>7. Tables(w.rows)
    <2>1. Worded(w.rows)
      BY <1>1, <1>3, <1>4, <1>5, GoingIsWorded
    <2>2. QED
      BY <1>4, <2>1 DEF Going, Tables
  <1>8. QED
    BY <1>1, <1>4, <1>5, <1>6, <1>7 DEF Settling

LEMMA SettledGenres ==
  ASSUME BankInv, NEW loaded, NEW w, Settling(loaded, w)
  PROVE  /\ \A g : g \in DOMAIN offered' <=>
                      /\ g \in DOMAIN offered \cup edition.declared
                      /\ g \in edition.declared \/ \E r \in BuiltIn(w.rows) : r.genre = g
         /\ \A g \in DOMAIN offered' : offered'[g] \in BOOLEAN /\ (offered'[g] <=> g \in edition.declared)
         /\ DOMAIN offered' \subseteq Genres
         /\ \A q \in BuiltIn(w.rows) : q.genre \in DOMAIN offered'
  <1> DEFINE known == DOMAIN offered
             shelves == (known \cup edition.declared) \ Departed(w.rows, known)
  <1>1. offered' = [g \in shelves |-> g \in edition.declared \/ (g \notin known /\ offered[g])]
    BY Zenon DEF Settling, Shelves
  <1>2. DOMAIN offered' = shelves
    BY <1>1
  <1>3. \A g : g \in shelves <=>
                  /\ g \in known \cup edition.declared
                  /\ g \in edition.declared \/ \E r \in BuiltIn(w.rows) : r.genre = g
    BY DEF Departed
  <1>4. ASSUME NEW g \in shelves PROVE offered'[g] \in BOOLEAN /\ (offered'[g] <=> g \in edition.declared)
    <2>1. offered'[g] = (g \in edition.declared \/ (g \notin known /\ offered[g]))
      BY <1>1
    <2>2. g \in edition.declared \/ g \in known
      BY <1>3
    <2>3. QED
      BY <2>1, <2>2
  <1>5. shelves \subseteq Genres
    BY <1>3 DEF BankInv, Stored, Settling
  <1>6. ASSUME NEW q \in BuiltIn(w.rows) PROVE q.genre \in shelves
    <2>1. Sourced(q, rows, loaded, w.seen, LinesOf(edition)) /\ ~q.own
      BY BuiltInIs DEF Settling, Going
    <2>2. CASE Untouched(q, rows, w.seen)
      <3>1. q.genre \in known
        BY <2>1, <2>2, BuiltInIs DEF Untouched, BankInv, Stored
      <3>2. QED
        BY <1>3, <3>1
    <2>3. CASE ~Untouched(q, rows, w.seen)
      <3>1. \E l \in LinesOf(edition) : q.genre = l.genre
        BY <2>1, <2>3 DEF Sourced, Followed, Added
      <3>2. q.genre \in edition.declared
        BY <3>1 DEF LinesOf
      <3>3. QED
        BY <1>3, <3>2
    <2>4. QED
      BY <2>2, <2>3
  <1>7. QED
    BY <1>2, <1>3, <1>4, <1>5, <1>6

LEMMA SettledRows ==
  ASSUME NEW loaded, NEW w, Settling(loaded, w)
  PROVE  /\ Tables(rows')
         /\ \A q \in rows' : \E r \in w.rows : /\ q = Swept(r, w.seen) /\ Same(q, r) /\ q.genre = r.genre
                                               /\ r.own \/ r.id \in w.seen => q = r
                                               /\ ~(r.own \/ r.id \in w.seen) => ~q.active
         /\ \A r \in w.rows : \E q \in rows' : Same(q, r) /\ (r.own \/ r.id \in w.seen => q = r)
         /\ \A r \in rows : r.own => r \in rows'
         /\ \A r \in BuiltIn(rows) : \E q \in BuiltIn(rows') : Same(q, r)
  <1>1. Tables(w.rows) /\ rows' = Sweep(w.rows, w.seen) /\ \A r \in w.rows : r \in Row
    BY DEF Settling, Tables
  <1>2. Tables(rows') /\ \A q : q \in rows' <=> \E r \in w.rows : q = Swept(r, w.seen)
    BY <1>1, SweepIs
  <1>3. ASSUME NEW q \in rows'
        PROVE  \E r \in w.rows : /\ q = Swept(r, w.seen) /\ Same(q, r) /\ q.genre = r.genre
                                 /\ r.own \/ r.id \in w.seen => q = r
                                 /\ ~(r.own \/ r.id \in w.seen) => ~q.active
    BY <1>1, <1>2, SweptIs
  <1>4. ASSUME NEW r \in w.rows
        PROVE  \E q \in rows' : Same(q, r) /\ (r.own \/ r.id \in w.seen => q = r)
    BY <1>1, <1>2, SweptIs
  <1>5. ASSUME NEW r \in rows, r.own PROVE r \in rows'
    <2>1. r \in w.rows
      BY <1>5 DEF Settling, Going
    <2>2. QED
      BY <1>4, <1>5, <2>1
  <1>6. ASSUME NEW r \in BuiltIn(rows) PROVE \E q \in BuiltIn(rows') : Same(q, r)
    <2>1. PICK p \in BuiltIn(w.rows) : Same(p, r)
      BY DEF Settling, Going
    <2>2. PICK q \in rows' : Same(q, p)
      BY <1>4, <2>1, BuiltInIs
    <2>3. QED
      BY <2>1, <2>2, BuiltInIs DEF Same
  <1>7. QED
    BY <1>2, <1>3, <1>4, <1>5, <1>6

LEMMA SeedEndsStep ==
  ASSUME BankInv, SeedEnds
  PROVE  BankInv' /\ LinksSurvive
  <1>0. edition' = edition /\ form' = form /\ practised' = practised /\ off' = off /\ seeds' = seeds
        /\ seeding' = Closed
    BY DEF SeedEnds
  <1>1. CASE Written(seeding.rows).ok
    <2>1. PICK loaded, w : Settling(loaded, w)
      BY <1>1, SeedSettles
    <2>2. /\ Tables(rows') /\ (\A r \in rows : r.own => r \in rows')
          /\ \A r \in BuiltIn(rows) : \E q \in BuiltIn(rows') : Same(q, r)
          /\ \A q \in rows' : \E r \in w.rows : Same(q, r) /\ q.genre = r.genre
      BY <2>1, SettledRows
    <2>3. /\ DOMAIN offered' \subseteq Genres /\ \A g \in DOMAIN offered' : offered'[g] \in BOOLEAN
          /\ \A q \in BuiltIn(w.rows) : q.genre \in DOMAIN offered'
      BY <2>1, SettledGenres
    <2>4. refused' = refused
      BY <1>1 DEF SeedEnds
    <2>5. Theirs \subseteq rows'
      BY <2>2, BankAssumption DEF BankInv, Stored
    <2>6. \A r \in BuiltIn(rows') : r.genre \in DOMAIN offered'
      BY <2>2, <2>3, BuiltInIs DEF Same
    <2>7. Stored'
      BY <1>0, <2>2, <2>3, <2>4, <2>5, <2>6 DEF BankInv, Stored
    <2>8. Opened'
      <3>1. CASE form = Closed
        BY <1>0, <3>1 DEF Opened
      <3>2. CASE form # Closed
        <4>1. PICK r \in Row : /\ form = [open |-> TRUE, row |-> r] /\ ~r.own
                               /\ \E q \in BuiltIn(rows) : Same(q, r)
          BY <3>2 DEF BankInv, Opened
        <4>2. \E q \in BuiltIn(rows') : Same(q, r)
          BY <2>2, <4>1 DEF Same
        <4>3. QED
          BY <1>0, <4>1, <4>2 DEF Opened
      <3>3. QED
        BY <3>1, <3>2
    <2>9. \A r \in rows : \E q \in rows' : q.id = r.id /\ q.text = r.text /\ q.slug = r.slug
      <3>1. ASSUME NEW r \in rows PROVE \E q \in rows' : q.id = r.id /\ q.text = r.text /\ q.slug = r.slug
        <4>1. CASE r.own
          BY <2>2, <4>1
        <4>2. CASE ~r.own
          BY <2>2, <4>2, BuiltInIs DEF Same
        <4>3. QED
          BY <4>1, <4>2
      <3>2. QED
        BY <3>1
    <2>10. QED
      BY <1>0, <2>5, <2>7, <2>8, <2>9 DEF BankInv, Loaded, LinksSurvive
  <1>2. CASE ~Written(seeding.rows).ok
    <2>1. refused' = TRUE /\ rows' = rows /\ offered' = offered
      BY <1>2 DEF SeedEnds
    <2>2. QED
      BY <1>0, <2>1 DEF BankInv, Stored, Loaded, Opened, LinksSurvive
  <1>3. QED
    BY <1>1, <1>2

LEMMA SeedBeginsStep ==
  ASSUME BankInv, SeedBegins
  PROVE  BankInv' /\ LinksSurvive
  <1>1. /\ UNCHANGED <<edition, offered, rows, form, practised, off>> /\ seeds' = seeds + 1
        /\ refused' = FALSE /\ seeds < MaxSeeds
        /\ seeding' = [open |-> TRUE, rows |-> BuiltIn(rows), genres |-> DOMAIN offered]
    BY DEF SeedBegins
  <1>2. Mirrors(BuiltIn(rows), rows)
    BY BuiltInIs DEF BankInv, Stored, Tables, Mirrors, Numbered, Same
  <1>3. seeds' \in 0 .. MaxSeeds
    BY <1>1, BankAssumption DEF BankInv, Stored
  <1>4. QED
    BY <1>1, <1>2, <1>3 DEF BankInv, Stored, Loaded, Opened, LinksSurvive

LEMMA SaveFormStep ==
  ASSUME BankInv, SaveForm
  PROVE  /\ BankInv' /\ LinksSurvive
         /\ \/ rows' = rows /\ off' = off
            \/ \E posted \in Row :
                  /\ posted.id = form.row.id /\ posted \in BuiltIn(rows')
                  /\ \A q \in rows' : q = posted \/ (q \in rows /\ q.id # posted.id)
                  /\ \A r \in BuiltIn(rows) : \E q \in BuiltIn(rows') : Same(q, r)
                  /\ off' = IF posted.active THEN off \ {posted.id} ELSE off \cup {posted.id}
  <1>1. PICK r \in Row : /\ form = [open |-> TRUE, row |-> r] /\ ~r.own
                         /\ \E q \in BuiltIn(rows) : Same(q, r)
    BY DEF BankInv, Opened, SaveForm, Closed
  <1>2. form.row = r
    BY <1>1
  <1>3. PICK active \in BOOLEAN :
           LET row  == [r EXCEPT !.active = active]
               rest == {q \in rows : q.id # row.id}
           IN  IF row.genre \in DOMAIN offered /\ ~Clash(rest, row)
               THEN /\ rows' = rest \cup {row}
                    /\ off' = IF active THEN off \ {row.id} ELSE off \cup {row.id}
               ELSE UNCHANGED <<rows, off>>
    BY <1>2 DEF SaveForm
  <1> DEFINE posted == [r EXCEPT !.active = active]
             rest == OthersThan(posted, rows)
  <1>4. posted \in Row /\ Same(posted, r) /\ posted.genre = r.genre /\ posted.active = active
    BY <1>1, RowIs
  <1>5. form' = Closed /\ UNCHANGED <<edition, offered, seeding, practised, seeds, refused>>
    BY DEF SaveForm
  <1>6. CASE posted.genre \in DOMAIN offered /\ ~Clash(rest, posted)
    <2>1. /\ rows' = rest \cup {posted}
          /\ off' = IF active THEN off \ {posted.id} ELSE off \cup {posted.id}
      BY <1>3, <1>6 DEF OthersThan
    <2> HIDE DEF posted
    <2>2. ~posted.own /\ (\E q \in BuiltIn(rows) : Same(q, posted)) /\ posted.id = form.row.id
      BY <1>1, <1>2, <1>4 DEF Same
    <2>3. Tables(rows)
      BY DEF BankInv, Stored
    <2>4. /\ Tables(rows') /\ Kin(rows, rows') /\ posted \in BuiltIn(rows')
          /\ \A x \in rows : x.own => x \in rows'
          /\ \A q \in rows' : q = posted \/ (q \in rows /\ q.id # posted.id)
      BY <1>4, <1>6, <2>1, <2>2, <2>3, SavedIs
    <2>5. \A x \in BuiltIn(rows') : x.genre \in DOMAIN offered
      BY <1>6, <2>4, BuiltInIs DEF BankInv, Stored
    <2>6. Theirs \subseteq rows'
      BY <2>4, BankAssumption DEF BankInv, Stored
    <2>7. off' \subseteq Nat
      BY <1>4, <2>1, RowIs DEF BankInv, Stored
    <2>8. Stored'
      BY <1>5, <2>4, <2>5, <2>6, <2>7 DEF BankInv, Stored
    <2>9. Loaded'
      <3>1. CASE seeding = Closed
        BY <1>5, <3>1 DEF Loaded
      <3>2. CASE seeding # Closed
        <4>1. PICK loaded : /\ seeding = [open |-> TRUE, rows |-> loaded, genres |-> DOMAIN offered]
                            /\ Mirrors(loaded, rows)
          BY <3>2 DEF BankInv, Loaded
        <4>2. Mirrors(loaded, rows')
          BY <2>4, <4>1, MirrorsKin
        <4>3. QED
          BY <1>5, <4>1, <4>2 DEF Loaded
      <3>3. QED
        BY <3>1, <3>2
    <2>10. LinksSurvive
      <3>1. ASSUME NEW x \in rows PROVE \E q \in rows' : q.id = x.id /\ q.text = x.text /\ q.slug = x.slug
        <4>1. CASE x.own
          BY <2>4, <4>1
        <4>2. CASE ~x.own
          BY <2>4, <4>2, BuiltInIs DEF Kin, Same
        <4>3. QED
          BY <4>1, <4>2
      <3>2. QED
        BY <2>6, <3>1 DEF LinksSurvive
    <2>11. \E p \in Row :
              /\ p.id = form.row.id /\ p \in BuiltIn(rows')
              /\ \A q \in rows' : q = p \/ (q \in rows /\ q.id # p.id)
              /\ \A x \in BuiltIn(rows) : \E q \in BuiltIn(rows') : Same(q, x)
              /\ off' = IF p.active THEN off \ {p.id} ELSE off \cup {p.id}
      BY <1>4, <2>1, <2>2, <2>4 DEF Kin
    <2>12. QED
      BY <1>5, <2>8, <2>9, <2>10, <2>11 DEF BankInv, Opened
  <1>7. CASE ~(posted.genre \in DOMAIN offered /\ ~Clash(rest, posted))
    <2>1. rows' = rows /\ off' = off
      BY <1>3, <1>7 DEF OthersThan
    <2>2. QED
      BY <1>5, <2>1 DEF BankInv, Stored, Loaded, Opened, LinksSurvive
  <1>8. QED
    BY <1>6, <1>7

LEMMA BankStep == BankInv /\ [BankNext]_bankVars => BankInv' /\ LinksSurvive
  <1> SUFFICES ASSUME BankInv, [BankNext]_bankVars PROVE BankInv' /\ LinksSurvive
    OBVIOUS
  <1>1. CASE SeedBegins
    BY <1>1, SeedBeginsStep
  <1>2. CASE SeedEnds
    BY <1>2, SeedEndsStep
  <1>3. CASE EditFiles
    BY <1>3 DEF EditFiles, BankInv, Stored, Loaded, Opened, LinksSurvive
  <1>4. CASE OpenForm
    <2>1. PICK r \in BuiltIn(rows) : form' = [open |-> TRUE, row |-> r]
      BY <1>4 DEF OpenForm
    <2>2. UNCHANGED <<edition, offered, rows, seeding, practised, off, seeds, refused>>
      BY <1>4 DEF OpenForm
    <2>3. r \in Row /\ ~r.own /\ Same(r, r)
      BY BuiltInIs DEF BankInv, Stored, Tables, Same
    <2>4. Opened'
      BY <2>1, <2>2, <2>3 DEF Opened
    <2>5. QED
      BY <2>2, <2>4 DEF BankInv, Stored, Loaded, LinksSurvive
  <1>5. CASE SaveForm
    BY <1>5, SaveFormStep
  <1>6. CASE Practise
    <2>1. PICK r \in Offered \cup Theirs : practised' = practised \cup {r.text}
      BY <1>6 DEF Practise
    <2>2. UNCHANGED <<edition, offered, rows, seeding, form, off, seeds, refused>>
      BY <1>6 DEF Practise
    <2>3. r.text \in Texts
      <3>1. r \in Row
        BY <2>1, BuiltInIs, BankAssumption DEF Offered, BankInv, Stored, Tables
      <3>2. QED
        BY <3>1, RowIs
    <2>4. QED
      BY <2>1, <2>2, <2>3 DEF BankInv, Stored, Loaded, Opened, LinksSurvive
  <1>7. CASE UNCHANGED bankVars
    BY <1>7 DEF bankVars, BankInv, Stored, Loaded, Opened, LinksSurvive
  <1>8. QED
    BY <1>1, <1>2, <1>3, <1>4, <1>5, <1>6, <1>7 DEF BankNext

-----------------------------------------------------------------------------
(* One at a time: while nobody is at the form, what a seed loaded is what   *)
(* the tables hold.                                                         *)

InTurn ==
    /\ seeding.open => seeding.rows = BuiltIn(rows) /\ ~form.open
    /\ form.open => form.row \in BuiltIn(rows)
    /\ SwitchedOffStaysOff
    /\ \A i \in off : \E r \in BuiltIn(rows) : r.id = i

LEMMA SettledIsOff ==
  ASSUME BankInv, InTurn, SeedEnds
  PROVE  SwitchedOffStaysOff' /\ \A i \in off' : \E r \in BuiltIn(rows') : r.id = i
  <1>1. off' = off
    BY DEF SeedEnds
  <1>2. CASE Written(seeding.rows).ok
    <2>1. PICK loaded, w : Settling(loaded, w)
      BY <1>2, SeedSettles
    <2>2. loaded = BuiltIn(rows) /\ Tables(rows)
      BY <2>1 DEF Settling, InTurn, BankInv, Stored
    <2>3. ASSUME NEW q \in rows', q.id \in off PROVE ~q.active
      <3>1. PICK r \in w.rows : /\ Same(q, r)
                                /\ r.own \/ r.id \in w.seen => q = r
                                /\ ~(r.own \/ r.id \in w.seen) => ~q.active
        BY <2>1, SettledRows
      <3>2. PICK p \in BuiltIn(rows) : p.id = r.id /\ ~p.active
        BY <2>3, <3>1, BuiltInIs DEF InTurn, SwitchedOffStaysOff, Same
      <3>3. CASE r.own
        <4>1. r \in rows
          BY <2>1, <3>3 DEF Settling, Going
        <4>2. QED
          BY <2>2, <3>2, <3>3, <4>1, BuiltInIs DEF Tables, Numbered
      <3>4. CASE ~r.own /\ r.id \in w.seen
        <4>1. Followed(r, loaded, LinesOf(edition)) \/ Added(r, rows, loaded, LinesOf(edition))
          BY <2>1, <3>4, BuiltInIs DEF Settling, Going, Sourced, Untouched
        <4>2. CASE Followed(r, loaded, LinesOf(edition))
          <5>1. PICK o \in loaded : Same(r, o) /\ r.active = o.active
            BY <4>2 DEF Followed
          <5>2. o \in rows /\ p \in rows /\ o.id = p.id
            BY <2>2, <3>2, <5>1, BuiltInIs DEF Same
          <5>3. o = p
            BY <2>2, <5>2 DEF Tables, Numbered
          <5>4. QED
            BY <3>1, <3>2, <3>4, <5>1, <5>3
        <4>3. CASE Added(r, rows, loaded, LinesOf(edition))
          BY <3>2, <4>3, BuiltInIs DEF Added
        <4>4. QED
          BY <4>1, <4>2, <4>3
      <3>5. CASE ~r.own /\ r.id \notin w.seen
        BY <3>1, <3>5
      <3>6. QED
        BY <3>3, <3>4, <3>5
    <2>4. ASSUME NEW i \in off PROVE \E r \in BuiltIn(rows') : r.id = i
      <3>1. PICK r \in BuiltIn(rows) : r.id = i
        BY DEF InTurn
      <3>2. PICK q \in BuiltIn(rows') : Same(q, r)
        BY <2>1, SettledRows
      <3>3. QED
        BY <3>1, <3>2 DEF Same
    <2>5. QED
      BY <1>1, <2>3, <2>4 DEF SwitchedOffStaysOff
  <1>3. CASE ~Written(seeding.rows).ok
    <2>1. rows' = rows
      BY <1>3 DEF SeedEnds
    <2>2. QED
      BY <1>1, <2>1 DEF InTurn, SwitchedOffStaysOff
  <1>4. QED
    BY <1>2, <1>3

LEMMA TurnStep ==
  ASSUME ~Overlap, BankInv, InTurn, [BankNext]_bankVars
  PROVE  InTurn'
  <1>1. CASE SeedBegins
    <2>1. /\ UNCHANGED <<rows, form, off>> /\ ~form.open
          /\ seeding' = [open |-> TRUE, rows |-> BuiltIn(rows), genres |-> DOMAIN offered]
      BY <1>1 DEF SeedBegins
    <2>2. QED
      BY <2>1 DEF InTurn, SwitchedOffStaysOff
  <1>2. CASE SeedEnds
    <2>1. ~seeding'.open /\ ~form'.open
      BY <1>2 DEF SeedEnds, Closed, InTurn
    <2>2. QED
      BY <1>2, <2>1, SettledIsOff DEF InTurn
  <1>3. CASE EditFiles
    BY <1>3 DEF EditFiles, InTurn, SwitchedOffStaysOff
  <1>4. CASE OpenForm
    <2>1. PICK r \in BuiltIn(rows) : form' = [open |-> TRUE, row |-> r]
      BY <1>4 DEF OpenForm
    <2>2. UNCHANGED <<rows, seeding, off>> /\ ~seeding.open
      BY <1>4 DEF OpenForm
    <2>3. QED
      BY <2>1, <2>2 DEF InTurn, SwitchedOffStaysOff
  <1>5. CASE SaveForm
    <2>1. form.open /\ ~form'.open /\ seeding' = seeding /\ ~seeding.open
      BY <1>5 DEF SaveForm, Closed, InTurn
    <2>2. CASE rows' = rows /\ off' = off
      BY <2>1, <2>2 DEF InTurn, SwitchedOffStaysOff
    <2>3. CASE ~(rows' = rows /\ off' = off)
      <3>1. PICK posted \in Row :
               /\ posted.id = form.row.id /\ posted \in BuiltIn(rows')
               /\ \A q \in rows' : q = posted \/ (q \in rows /\ q.id # posted.id)
               /\ \A r \in BuiltIn(rows) : \E q \in BuiltIn(rows') : Same(q, r)
               /\ off' = IF posted.active THEN off \ {posted.id} ELSE off \cup {posted.id}
        BY <1>5, <2>3, SaveFormStep
      <3>2. ASSUME NEW q \in rows', q.id \in off' PROVE ~q.active
        <4>1. CASE q = posted
          BY <3>1, <3>2, <4>1
        <4>2. CASE q \in rows /\ q.id # posted.id
          BY <3>1, <3>2, <4>2 DEF InTurn, SwitchedOffStaysOff
        <4>3. QED
          BY <3>1, <4>1, <4>2
      <3>3. ASSUME NEW i \in off' PROVE \E r \in BuiltIn(rows') : r.id = i
        <4>1. CASE i = posted.id
          BY <3>1, <4>1
        <4>2. CASE i # posted.id
          <5>1. i \in off
            BY <3>1, <4>2
          <5>2. PICK r \in BuiltIn(rows) : r.id = i
            BY <5>1 DEF InTurn
          <5>3. QED
            BY <3>1, <5>2 DEF Same
        <4>3. QED
          BY <4>1, <4>2
      <3>4. QED
        BY <2>1, <3>2, <3>3 DEF InTurn, SwitchedOffStaysOff
    <2>4. QED
      BY <2>2, <2>3
  <1>6. CASE Practise
    BY <1>6 DEF Practise, InTurn, SwitchedOffStaysOff
  <1>7. CASE UNCHANGED bankVars
    BY <1>7 DEF bankVars, InTurn, SwitchedOffStaysOff
  <1>8. QED
    BY <1>1, <1>2, <1>3, <1>4, <1>5, <1>6, <1>7 DEF BankNext

LEMMA BankSettled ==
  ASSUME BankInv, InTurn, SeedEnds, Written(seeding.rows).ok
  PROVE  SeedSettlesBank
  <1>1. PICK loaded, w : Settling(loaded, w)
    BY SeedSettles
  <1>2. loaded = BuiltIn(rows) /\ edition' = edition
    BY <1>1 DEF Settling, InTurn, SeedEnds
  <1>3. \A g \in DOMAIN offered' : offered'[g] <=> g \in edition.declared
    BY <1>1, SettledGenres
  <1>4. ASSUME NEW r \in BuiltIn(w.rows), r.id \in w.seen
        PROVE  Followed(r, loaded, LinesOf(edition)) \/ Added(r, rows, loaded, LinesOf(edition))
    BY <1>1, <1>4 DEF Settling, Going, Sourced, Untouched
  <1>5. ASSUME NEW q \in BuiltIn(rows'), q.active
        PROVE  \E l \in LinesOf(edition) : l.text = q.text /\ l.genre = q.genre
    <2>1. PICK r \in w.rows : /\ Same(q, r)
                              /\ r.own \/ r.id \in w.seen => q = r
                              /\ ~(r.own \/ r.id \in w.seen) => ~q.active
      BY <1>1, SettledRows, BuiltInIs
    <2>2. ~q.own /\ r \in BuiltIn(w.rows) /\ r.id \in w.seen /\ q = r
      BY <1>5, <2>1, BuiltInIs DEF Same
    <2>3. CASE Followed(r, loaded, LinesOf(edition))
      BY <2>2, <2>3 DEF Followed, Same
    <2>4. CASE Added(r, rows, loaded, LinesOf(edition))
      BY <2>2, <2>4 DEF Added
    <2>5. QED
      BY <1>4, <2>2, <2>3, <2>4
  <1>6. ASSUME NEW l \in LinesOf(edition)
        PROVE  \/ \E r \in BuiltIn(rows') : r.active /\ r.text = l.text
               \/ \E r \in BuiltIn(rows) : ~r.active /\ r.text = l.text
    <2>1. PICK q \in BuiltIn(w.rows) : q.text = l.text /\ q.id \in w.seen
      BY <1>1 DEF Settling, Going
    <2>2. q \in BuiltIn(rows')
      BY <1>1, <2>1, SettledRows, BuiltInIs
    <2>3. CASE Followed(q, loaded, LinesOf(edition))
      <3>1. PICK r \in loaded : Same(q, r) /\ q.active = r.active
        BY <2>3 DEF Followed
      <3>2. CASE q.active
        BY <2>1, <2>2, <3>2
      <3>3. CASE ~q.active
        BY <1>2, <2>1, <3>1, <3>3 DEF Same
      <3>4. QED
        BY <3>2, <3>3
    <2>4. CASE Added(q, rows, loaded, LinesOf(edition))
      BY <2>1, <2>2, <2>4 DEF Added
    <2>5. QED
      BY <1>4, <2>1, <2>3, <2>4
  <1>7. QED
    BY <1>3, <1>5, <1>6 DEF SeedSettlesBank

LEMMA SettlesStep ==
  ASSUME BankInv, InTurn, [BankNext]_bankVars
  PROVE  SeedSettlesBank
  <1> SUFFICES ASSUME Seeded PROVE SeedSettlesBank
    BY DEF SeedSettlesBank
  <1>1. seeding.open /\ ~seeding'.open /\ ~refused'
    BY DEF Seeded
  <1>2. SeedEnds
    <2>1. CASE SeedBegins
      BY <1>1, <2>1 DEF SeedBegins, Closed
    <2>2. CASE EditFiles \/ OpenForm \/ SaveForm \/ Practise \/ UNCHANGED bankVars
      <3>1. seeding' = seeding
        BY <2>2 DEF EditFiles, OpenForm, SaveForm, Practise, bankVars
      <3>2. QED
        BY <1>1, <3>1
    <2>3. QED
      BY <2>1, <2>2 DEF BankNext
  <1>3. Written(seeding.rows).ok
    BY <1>1, <1>2 DEF SeedEnds
  <1>4. QED
    BY <1>2, <1>3, BankSettled

-----------------------------------------------------------------------------
(* The theorems about the bank.                                             *)

LEMMA BankHolds == BankSpec => []BankInv
  BY BankStarts, BankStep, PTL DEF BankSpec

(* The keys the upsert and the links rest on hold through any series of     *)
(* files, seeds and saves, whoever else is at the form: one built-in row    *)
(* for a text, one for a slug in its genre (models.py, seed_topics).        *)
THEOREM BankTyped == BankSpec => []BankTypeOK
  <1>1. BankInv => BankTypeOK
    BY StoredIsTyped DEF BankInv
  <1>2. QED
    BY <1>1, BankHolds, PTL

(* No edit, merge, seed or save breaks a link that was sent, nor touches a  *)
(* line somebody wrote, whoever else is at the form (_seed_topics, _sweep). *)
THEOREM LinksHold == BankSpec => [][LinksSurvive]_bankVars
  BY BankHolds, BankStep, PTL DEF BankSpec

(* With nobody at the form while it runs, the seed keeps its word: what was *)
(* switched off stays off, and what is on offer is what the files say.      *)
THEOREM SeedKeeps ==
  ASSUME ~Overlap
  PROVE  BankSpec => SeedKeepsItsWord
  <1>1. BankInit => InTurn
    <2> SUFFICES ASSUME BankInit PROVE InTurn
      OBVIOUS
    <2>1. off = {} /\ ~seeding.open /\ ~form.open
      BY DEF BankInit, Closed
    <2>2. QED
      BY <2>1 DEF InTurn, SwitchedOffStaysOff
  <1>2. BankInv /\ InTurn /\ [BankNext]_bankVars => InTurn'
    BY TurnStep
  <1>3. BankSpec => []InTurn
    BY <1>1, <1>2, BankHolds, PTL DEF BankSpec
  <1>4. InTurn' => SwitchedOffStaysOff'
    BY DEF InTurn
  <1>5. BankInv /\ InTurn /\ [BankNext]_bankVars => SwitchedOffStaysOff' /\ SeedSettlesBank /\ LinksSurvive
    BY <1>2, <1>4, SettlesStep, BankStep
  <1>6. BankSpec => [][SwitchedOffStaysOff' /\ SeedSettlesBank /\ LinksSurvive]_bankVars
    BY <1>3, <1>5, BankHolds, PTL DEF BankSpec
  <1>7. QED
    BY <1>6 DEF SeedKeepsItsWord

-----------------------------------------------------------------------------
(* Frames: where the stretches cut so far lie, and the one being heard.     *)

Segment == [from : Nat, to : Nat]

LEMMA SegmentIs ==
  ASSUME NEW segments \in Seq(Segment), NEW i \in 1 .. Len(segments)
  PROVE  segments[i] \in Segment /\ segments[i].from \in Nat /\ segments[i].to \in Nat
  <1>1. segments[i] \in Segment
    BY ElementOfSeq
  <1>2. QED
    BY <1>1 DEF Segment

Begun == [frame |-> 0, start |-> NotYet, quiet |-> 0, out |-> <<>>]

Hears(w, n, heard) == w = [k \in 0 .. n |-> IF k = 0 THEN Begun ELSE Frame(w[k - 1], heard[k])]

LEMMA HearingExists ==
  ASSUME NEW n \in Nat, NEW heard
  PROVE  \E w : Hears(w, n, heard)
  <1> DEFINE Bad == {k \in Nat : ~\E w : Hears(w, k, heard)}
  <1> SUFFICES ASSUME Bad # {} PROVE FALSE
    OBVIOUS
  <1>1. PICK k \in Bad : \A m \in Bad : k <= m
    BY LeastNat
  <1>2. CASE k = 0
    <2> DEFINE w == [j \in 0 .. 0 |-> Begun]
    <2>1. Hears(w, 0, heard)
      BY DEF Hears
    <2>2. QED
      BY <1>1, <1>2, <2>1
  <1>3. CASE k # 0
    <2>1. k - 1 \in Nat /\ k - 1 \notin Bad
      BY <1>1, <1>3
    <2>2. PICK w : Hears(w, k - 1, heard)
      BY <2>1
    <2> DEFINE v == [j \in 0 .. k |-> IF j = 0 THEN Begun ELSE Frame(w[j - 1], heard[j])]
    <2>3. \A j \in 0 .. k - 1 : j \in 0 .. k /\ (j # 0 => j - 1 \in 0 .. k - 1)
      BY <2>1
    <2>4. \A j \in 0 .. k - 1 : v[j] = w[j]
      BY <2>2, <2>3, Zenon DEF Hears
    <2>5. \A j \in 0 .. k : j # 0 => j - 1 \in 0 .. k - 1
      BY <2>1
    <2>6. \A j \in 0 .. k : j # 0 => v[j - 1] = w[j - 1]
      BY <2>4, <2>5
    <2>7. Hears(v, k, heard)
      BY <2>6, Zenon DEF Hears
    <2>8. QED
      BY <1>1, <2>7
  <1>4. QED
    BY <1>2, <1>3

LEMMA SegmentsAre ==
  ASSUME NEW heard, Len(heard) \in Nat
  PROVE  \E w : /\ Hears(w, Len(heard), heard)
                /\ SegmentsFrom(heard) = IF w[Len(heard)].start = NotYet THEN w[Len(heard)].out
                                                                         ELSE Cut(w[Len(heard)])
  <1> DEFINE w == CHOOSE w : Hears(w, Len(heard), heard)
  <1>1. Hears(w, Len(heard), heard)
    BY HearingExists, Zenon
  <1>2. SegmentsFrom(heard) = IF w[Len(heard)].start = NotYet THEN w[Len(heard)].out ELSE Cut(w[Len(heard)])
    BY Zenon DEF SegmentsFrom, Hears, Begun
  <1>3. QED
    BY <1>1, <1>2

\* Stretches cut out of the first so many frames.
Sounds(segments, n, heard) ==
    /\ segments \in Seq(Segment)
    /\ \A i \in 1 .. Len(segments) :
          /\ segments[i].to <= n /\ segments[i].to - segments[i].from >= MinSpeech
          /\ heard[segments[i].from + 1] = "voice" /\ heard[segments[i].to] # "quiet"
    /\ \A i \in 2 .. Len(segments) : segments[i].from - segments[i - 1].to > Hangover

Clear(segments, at) == Len(segments) > 0 => at - segments[Len(segments)].to > Hangover

Heeding(s, k, heard) ==
    /\ s \in [frame : {k}, start : Int, quiet : Nat, out : Seq(Segment)]
    /\ Sounds(s.out, k, heard)
    /\ s.start = NotYet => Clear(s.out, k)
    /\ s.start # NotYet =>
          /\ s.start \in Nat /\ Clear(s.out, s.start)
          /\ s.quiet <= Hangover /\ s.start < k - s.quiet
          /\ heard[s.start + 1] = "voice" /\ heard[k - s.quiet] # "quiet"

LEMMA SoundsOneMore ==
  ASSUME NEW heard, NEW n \in Nat, NEW k \in Nat, NEW segments, Sounds(segments, n, heard),
         NEW start \in Nat, NEW end \in Nat, n <= k, end <= k, end - start >= MinSpeech,
         heard[start + 1] = "voice", heard[end] # "quiet", Clear(segments, start)
  PROVE  Sounds(Append(segments, [from |-> start, to |-> end]), k, heard)
  <1> DEFINE new == [from |-> start, to |-> end]
             out == Append(segments, new)
  <1>1. new \in Segment /\ segments \in Seq(Segment)
    BY DEF Segment, Sounds
  <1>2. /\ out \in Seq(Segment) /\ Len(out) = Len(segments) + 1 /\ Len(segments) \in Nat
        /\ \A i \in 1 .. Len(segments) : out[i] = segments[i]
        /\ out[Len(segments) + 1] = new
    BY <1>1, AppendProperties
  <1> HIDE DEF out
  <1>3. ASSUME NEW i \in 1 .. Len(out)
        PROVE  /\ out[i].to <= k /\ out[i].to - out[i].from >= MinSpeech
               /\ heard[out[i].from + 1] = "voice" /\ heard[out[i].to] # "quiet"
    <2>1. CASE i \in 1 .. Len(segments)
      <3>1. segments[i].from \in Nat /\ segments[i].to \in Nat /\ segments[i].to <= n
        BY <1>1, <2>1, SegmentIs DEF Sounds
      <3>2. segments[i].to <= k
        BY <3>1
      <3>3. QED
        BY <1>2, <2>1, <3>2 DEF Sounds
    <2>2. CASE i = Len(segments) + 1
      BY <1>2, <2>2
    <2>3. QED
      BY <1>2, <2>1, <2>2
  <1>4. ASSUME NEW i \in 2 .. Len(out) PROVE out[i].from - out[i - 1].to > Hangover
    <2>1. CASE i \in 2 .. Len(segments)
      <3>1. i \in 1 .. Len(segments) /\ i - 1 \in 1 .. Len(segments)
        BY <2>1
      <3>2. QED
        BY <1>2, <2>1, <3>1 DEF Sounds
    <2>2. CASE i = Len(segments) + 1
      <3>1. Len(segments) > 0 /\ i - 1 \in 1 .. Len(segments) /\ i - 1 = Len(segments)
        BY <1>2, <2>2
      <3>2. QED
        BY <1>2, <2>2, <3>1 DEF Clear
    <2>3. QED
      BY <1>2, <2>1, <2>2
  <1>5. QED
    BY <1>2, <1>3, <1>4 DEF Sounds, out

LEMMA SoundsLater ==
  ASSUME NEW heard, NEW n \in Nat, NEW k \in Nat, n <= k, NEW segments, Sounds(segments, n, heard)
  PROVE  Sounds(segments, k, heard)
  <1>1. \A i \in 1 .. Len(segments) : segments[i].to \in Nat /\ segments[i].to <= n
    BY SegmentIs DEF Sounds
  <1>2. \A i \in 1 .. Len(segments) : segments[i].to <= k
    BY <1>1
  <1>3. QED
    BY <1>2, Zenon DEF Sounds

\* What a stretch that is over leaves behind.
LEMMA CutIs ==
  ASSUME NEW heard, NEW n \in Nat, NEW k \in Nat, n <= k,
         NEW s, s \in [frame : Nat, start : Nat, quiet : Nat, out : Seq(Segment)],
         Sounds(s.out, n, heard), Clear(s.out, s.start), s.start < s.frame - s.quiet,
         s.frame - s.quiet <= k,
         heard[s.start + 1] = "voice", heard[s.frame - s.quiet] # "quiet"
  PROVE  /\ Sounds(Cut(s), k, heard)
         /\ \A at \in Nat : at - (s.frame - s.quiet) > Hangover => Clear(Cut(s), at)
  <1> DEFINE end == s.frame - s.quiet
  <1>1. end \in Nat /\ s.start \in Nat /\ s.out \in Seq(Segment) /\ end > s.start
    OBVIOUS
  <1>2. Hangover \in Nat /\ MinSpeech \in Nat
    BY MinuteAssumption
  <1> HIDE DEF end
  <1>3. CASE end - s.start >= MinSpeech
    <2> DEFINE new == [from |-> s.start, to |-> end]
    <2>1. Cut(s) = Append(s.out, new)
      BY <1>3 DEF Cut, end
    <2>2. Sounds(Append(s.out, new), k, heard)
      BY <1>1, <1>3, SoundsOneMore DEF end
    <2>3. new \in Segment
      BY <1>1 DEF Segment
    <2>4. Len(Cut(s)) > 0 /\ Cut(s)[Len(Cut(s))] = new
      BY <1>1, <2>1, <2>3, AppendProperties
    <2>5. QED
      BY <1>1, <1>2, <2>1, <2>2, <2>4 DEF Clear, end
  <1>4. CASE ~(end - s.start >= MinSpeech)
    <2>1. Cut(s) = s.out
      BY <1>4 DEF Cut, end
    <2>2. ASSUME NEW at \in Nat, at - end > Hangover PROVE Clear(s.out, at)
      <3>1. Len(s.out) > 0 => s.out[Len(s.out)].to \in Nat
        BY <1>1, SegmentIs, LenProperties
      <3>2. QED
        BY <1>1, <1>2, <2>2, <3>1 DEF Clear
    <2>3. QED
      BY <2>1, <2>2, SoundsLater DEF end
  <1>5. QED
    BY <1>3, <1>4

LEMMA BegunHeeds == ASSUME NEW heard PROVE Heeding(Begun, 0, heard)
  BY DEF Heeding, Begun, Sounds, Clear, NotYet

\* One frame more: a stretch begins on sound, goes on over sound and short
\* quiet, and is over once the quiet has lasted longer than the hangover.
LEMMA FrameHeeds ==
  ASSUME NEW k \in Nat, NEW heard, NEW s, Heeding(s, k, heard), heard[k + 1] \in Loudness
  PROVE  Heeding(Frame(s, heard[k + 1]), k + 1, heard)
  <1> DEFINE value == heard[k + 1]
             t == [s EXCEPT !.frame = @ + 1]
             next == Frame(s, value)
  <1>1. s \in [frame : {k}, start : Int, quiet : Nat, out : Seq(Segment)] /\ Sounds(s.out, k, heard)
    BY DEF Heeding
  <1>2. s.frame = k /\ s.start \in Int /\ s.quiet \in Nat /\ s.out \in Seq(Segment)
    BY <1>1
  <1>3. t = [frame |-> k + 1, start |-> s.start, quiet |-> s.quiet, out |-> s.out]
    BY <1>1, <1>2
  <1>4. Sounds(s.out, k + 1, heard)
    BY <1>1, SoundsLater
  <1>5. Hangover \in Nat /\ MinSpeech \in Nat
    BY MinuteAssumption
  <1>6. Len(s.out) > 0 => s.out[Len(s.out)].to \in Nat
    BY <1>2, SegmentIs, LenProperties
  <1> HIDE DEF t
  <1>7. CASE s.start = NotYet /\ value = "voice"
    <2>1. next = [frame |-> k + 1, start |-> k, quiet |-> 0, out |-> s.out]
      BY <1>2, <1>3, <1>7 DEF Frame, t
    <2>2. Clear(s.out, k) /\ k # NotYet /\ value # "quiet"
      BY <1>1, <1>7 DEF Heeding, NotYet
    <2>3. QED
      BY <1>2, <1>4, <1>5, <1>7, <2>1, <2>2 DEF Heeding
  <1>8. CASE s.start = NotYet /\ value # "voice"
    <2>1. next = [frame |-> k + 1, start |-> s.start, quiet |-> s.quiet, out |-> s.out]
      BY <1>2, <1>3, <1>8 DEF Frame, t
    <2>2. Clear(s.out, k)
      BY <1>1, <1>8 DEF Heeding
    <2>3. Clear(s.out, k + 1)
      BY <1>5, <1>6, <2>2 DEF Clear
    <2>4. QED
      BY <1>2, <1>4, <1>8, <2>1, <2>3 DEF Heeding
  <1>9. CASE s.start # NotYet
    <2>1. /\ s.start \in Nat /\ Clear(s.out, s.start)
          /\ s.quiet <= Hangover /\ s.start < k - s.quiet
          /\ heard[s.start + 1] = "voice" /\ heard[k - s.quiet] # "quiet"
      BY <1>9 DEF Heeding
    <2>2. CASE value # "quiet"
      <3>1. next = [frame |-> k + 1, start |-> s.start, quiet |-> 0, out |-> s.out]
        BY <1>2, <1>3, <1>9, <2>2 DEF Frame, t
      <3>2. s.start < (k + 1) - 0 /\ (k + 1) - 0 = k + 1 /\ 0 <= Hangover
        BY <1>2, <1>5, <2>1
      <3>3. QED
        BY <1>2, <1>4, <1>9, <2>1, <2>2, <3>1, <3>2 DEF Heeding
    <2>3. CASE value = "quiet" /\ s.quiet + 1 <= Hangover
      <3>1. next = [frame |-> k + 1, start |-> s.start, quiet |-> s.quiet + 1, out |-> s.out]
        BY <1>2, <1>3, <1>9, <2>3 DEF Frame, t
      <3>2. (k + 1) - (s.quiet + 1) = k - s.quiet /\ s.quiet + 1 \in Nat
        BY <1>2
      <3>3. QED
        BY <1>2, <1>4, <1>9, <2>1, <2>3, <3>1, <3>2 DEF Heeding
    <2>4. CASE value = "quiet" /\ ~(s.quiet + 1 <= Hangover)
      <3> DEFINE u == [t EXCEPT !.quiet = @ + 1]
      <3>1. u = [frame |-> k + 1, start |-> s.start, quiet |-> s.quiet + 1, out |-> s.out]
        BY <1>2, <1>3
      <3>2. next = [frame |-> k + 1, start |-> NotYet, quiet |-> 0, out |-> Cut(u)]
        <4>1. next = [t EXCEPT !.out = Cut([t EXCEPT !.quiet = @ + 1]), !.start = NotYet, !.quiet = 0]
          BY <1>2, <1>3, <1>9, <2>4 DEF Frame, t
        <4>2. QED
          BY <1>3, <4>1
      <3>3. u.frame - u.quiet = k - s.quiet
        BY <1>2, <3>1
      <3>4. /\ Sounds(Cut(u), k + 1, heard)
            /\ \A at \in Nat : at - (k - s.quiet) > Hangover => Clear(Cut(u), at)
        <4>1. u \in [frame : Nat, start : Nat, quiet : Nat, out : Seq(Segment)]
          BY <1>2, <2>1, <3>1
        <4>2. /\ u.out = s.out /\ u.start = s.start /\ k - s.quiet <= k + 1
          BY <1>2, <3>1
        <4> HIDE DEF u
        <4>3. QED
          BY <1>1, <2>1, <3>3, <4>1, <4>2, CutIs
      <3>5. Clear(Cut(u), k + 1)
        BY <1>2, <1>5, <2>4, <3>4
      <3>6. Cut(u) \in Seq(Segment) /\ NotYet \in Int
        BY <3>4 DEF Sounds, NotYet
      <3> HIDE DEF u
      <3>7. QED
        BY <3>2, <3>4, <3>5, <3>6 DEF Heeding
    <2>5. QED
      BY <2>2, <2>3, <2>4
  <1>10. QED
    BY <1>7, <1>8, <1>9

LEMMA SegmentsSound ==
  ASSUME NEW heard \in Seq(Loudness)
  PROVE  Sounds(SegmentsFrom(heard), Len(heard), heard)
  <1> DEFINE n == Len(heard)
  <1>1. n \in Nat /\ \A k \in 1 .. n : heard[k] \in Loudness
    BY LenProperties, ElementOfSeq
  <1> HIDE DEF n
  <1>2. PICK w : /\ Hears(w, n, heard)
                 /\ SegmentsFrom(heard) = IF w[n].start = NotYet THEN w[n].out ELSE Cut(w[n])
    BY <1>1, SegmentsAre DEF n
  <1>3. \A k \in 0 .. n : Heeding(w[k], k, heard)
    <2> DEFINE Bad == {k \in 0 .. n : ~Heeding(w[k], k, heard)}
    <2> SUFFICES ASSUME Bad # {} PROVE FALSE
      OBVIOUS
    <2>1. PICK k \in Bad : \A m \in Bad : k <= m
      <3>1. Bad \in SUBSET Nat
        BY <1>1
      <3> HIDE DEF Bad
      <3>2. QED
        BY <3>1, LeastNat
    <2>2. k \in 0 .. n /\ k \in Nat /\ ~Heeding(w[k], k, heard)
      BY <1>1, <2>1
    <2>3. k # 0
      BY <1>2, <2>2, BegunHeeds DEF Hears
    <2>4. k - 1 \in 0 .. n /\ k - 1 \in Nat /\ (k - 1) + 1 = k /\ k \in 1 .. n
      BY <1>1, <2>2, <2>3
    <2>5. Heeding(w[k - 1], k - 1, heard)
      BY <2>1, <2>2, <2>4
    <2>6. w[k] = Frame(w[k - 1], heard[k])
      BY <1>2, <2>2, <2>3 DEF Hears
    <2>7. Heeding(Frame(w[k - 1], heard[(k - 1) + 1]), (k - 1) + 1, heard)
      BY <1>1, <2>4, <2>5, FrameHeeds
    <2>8. QED
      BY <2>2, <2>4, <2>6, <2>7
  <1>4. Heeding(w[n], n, heard)
    BY <1>1, <1>3
  <1> DEFINE s == w[n]
  <1>5. s \in [frame : {n}, start : Int, quiet : Nat, out : Seq(Segment)] /\ Sounds(s.out, n, heard)
    BY <1>4 DEF Heeding
  <1> HIDE DEF s
  <1>6. CASE s.start # NotYet
    <2>1. /\ s.start \in Nat /\ Clear(s.out, s.start)
          /\ s.quiet <= Hangover /\ s.start < n - s.quiet
          /\ heard[s.start + 1] = "voice" /\ heard[n - s.quiet] # "quiet"
      BY <1>4, <1>6 DEF Heeding, s
    <2>2. s \in [frame : Nat, start : Nat, quiet : Nat, out : Seq(Segment)] /\ s.frame = n
      BY <1>1, <1>5, <2>1
    <2>3. n - s.quiet <= n
      BY <1>1, <2>2
    <2>4. Sounds(Cut(s), n, heard)
      BY <1>1, <1>5, <2>1, <2>2, <2>3, CutIs
    <2>5. QED
      BY <1>2, <1>6, <2>4 DEF n, s
  <1>7. CASE s.start = NotYet
    BY <1>2, <1>5, <1>7 DEF n, s
  <1>8. QED
    BY <1>6, <1>7

-----------------------------------------------------------------------------
(* What is picked out of a sequence.                                        *)

Picks(w, n, seq, at) ==
    w = [k \in 0 .. n |-> IF k = 0 THEN <<>> ELSE IF k \in at THEN Append(w[k - 1], seq[k]) ELSE w[k - 1]]

LEMMA PickingExists ==
  ASSUME NEW n \in Nat, NEW seq, NEW at
  PROVE  \E w : Picks(w, n, seq, at)
  <1> DEFINE Bad == {k \in Nat : ~\E w : Picks(w, k, seq, at)}
  <1> SUFFICES ASSUME Bad # {} PROVE FALSE
    OBVIOUS
  <1>1. PICK k \in Bad : \A m \in Bad : k <= m
    BY LeastNat
  <1>2. CASE k = 0
    <2> DEFINE w == [j \in 0 .. 0 |-> <<>>]
    <2>1. Picks(w, 0, seq, at)
      BY DEF Picks
    <2>2. QED
      BY <1>1, <1>2, <2>1
  <1>3. CASE k # 0
    <2>1. k - 1 \in Nat /\ k - 1 \notin Bad
      BY <1>1, <1>3
    <2>2. PICK w : Picks(w, k - 1, seq, at)
      BY <2>1
    <2> DEFINE v == [j \in 0 .. k |-> IF j = 0 THEN <<>> ELSE IF j \in at THEN Append(w[j - 1], seq[j]) ELSE w[j - 1]]
    <2>3. \A j \in 0 .. k - 1 : j \in 0 .. k /\ (j # 0 => j - 1 \in 0 .. k - 1)
      BY <2>1
    <2>4. \A j \in 0 .. k - 1 : v[j] = w[j]
      BY <2>2, <2>3, Zenon DEF Picks
    <2>5. \A j \in 0 .. k : j # 0 => j - 1 \in 0 .. k - 1
      BY <2>1
    <2>6. \A j \in 0 .. k : j # 0 => v[j - 1] = w[j - 1]
      BY <2>4, <2>5
    <2>7. Picks(v, k, seq, at)
      BY <2>6, Zenon DEF Picks
    <2>8. QED
      BY <1>1, <2>7
  <1>4. QED
    BY <1>2, <1>3

LEMMA PickedIs ==
  ASSUME NEW seq, Len(seq) \in Nat, NEW at
  PROVE  \E w : Picks(w, Len(seq), seq, at) /\ Picked(seq, at) = w[Len(seq)]
  <1> DEFINE w == CHOOSE w : Picks(w, Len(seq), seq, at)
  <1>1. Picks(w, Len(seq), seq, at)
    BY PickingExists, Zenon
  <1>2. Picked(seq, at) = w[Len(seq)]
    BY Zenon DEF Picked, Picks
  <1>3. QED
    BY <1>1, <1>2

\* Everything picked stood somewhere it was to be picked from.
From(picked, seq, at, S) ==
    picked \in Seq(S) /\ \A i \in 1 .. Len(picked) : \E j \in 1 .. Len(seq) : j \in at /\ picked[i] = seq[j]

LEMMA PickedFrom ==
  ASSUME NEW S, NEW seq \in Seq(S), NEW at
  PROVE  From(Picked(seq, at), seq, at, S)
  <1> DEFINE n == Len(seq)
  <1>1. n \in Nat /\ \A k \in 1 .. n : seq[k] \in S
    BY LenProperties, ElementOfSeq
  <1>2. PICK w : Picks(w, n, seq, at) /\ Picked(seq, at) = w[n]
    BY <1>1, PickedIs
  <1> DEFINE Bad == {k \in 0 .. n : ~From(w[k], seq, at, S)}
  <1>3. SUFFICES ASSUME Bad # {} PROVE FALSE
    <2>1. n \in 0 .. n
      BY <1>1
    <2>2. QED
      BY <1>2, <2>1
  <1>4. PICK k \in Bad : \A m \in Bad : k <= m
    <2>1. Bad \in SUBSET Nat
      BY <1>1
    <2> HIDE DEF Bad
    <2>2. QED
      BY <1>3, <2>1, LeastNat
  <1>5. k \in 0 .. n /\ k \in Nat /\ ~From(w[k], seq, at, S)
    BY <1>1, <1>4
  <1>6. k # 0
    <2>1. k = 0 => w[k] = <<>>
      BY <1>2, <1>5 DEF Picks
    <2>2. From(<<>>, seq, at, S)
      BY EmptySeq DEF From
    <2>3. QED
      BY <1>5, <2>1, <2>2
  <1>7. k - 1 \in 0 .. n /\ k \in 1 .. n /\ ~(k <= k - 1)
    BY <1>1, <1>5, <1>6
  <1>8. From(w[k - 1], seq, at, S)
    BY <1>4, <1>7
  <1>9. w[k] = IF k \in at THEN Append(w[k - 1], seq[k]) ELSE w[k - 1]
    BY <1>2, <1>5, <1>6 DEF Picks
  <1>10. k \in at
    BY <1>5, <1>8, <1>9
  <1> DEFINE s == w[k - 1]
  <1>11. s \in Seq(S) /\ seq[k] \in S
    BY <1>1, <1>7, <1>8 DEF From
  <1> HIDE DEF s
  <1>12. /\ Append(s, seq[k]) \in Seq(S) /\ Len(Append(s, seq[k])) = Len(s) + 1 /\ Len(s) \in Nat
         /\ \A i \in 1 .. Len(s) : Append(s, seq[k])[i] = s[i]
         /\ Append(s, seq[k])[Len(s) + 1] = seq[k]
    BY <1>11, AppendProperties
  <1>13. ASSUME NEW i \in 1 .. Len(s) + 1
         PROVE  \E j \in 1 .. n : j \in at /\ Append(s, seq[k])[i] = seq[j]
    <2>1. CASE i \in 1 .. Len(s)
      BY <1>8, <1>12, <2>1 DEF From, s
    <2>2. CASE i = Len(s) + 1
      BY <1>7, <1>10, <1>12, <2>2
    <2>3. QED
      BY <1>12, <2>1, <2>2
  <1>14. From(Append(s, seq[k]), seq, at, S)
    BY <1>12, <1>13 DEF From
  <1>15. QED
    BY <1>5, <1>9, <1>10, <1>14 DEF s

\* Picking the first so many.
LEMMA PickedFirst ==
  ASSUME NEW S, NEW seq \in Seq(S), NEW at, NEW m \in 0 .. Len(seq), \A k \in 1 .. Len(seq) : k \in at <=> k <= m
  PROVE  Picked(seq, at) \in Seq(S) /\ Len(Picked(seq, at)) = m /\ \A i \in 1 .. m : Picked(seq, at)[i] = seq[i]
  <1> DEFINE n == Len(seq)
             First(s, k) == s \in Seq(S) /\ Len(s) = k /\ \A i \in 1 .. k : s[i] = seq[i]
             Upto(k) == IF k <= m THEN k ELSE m
  <1>1. n \in Nat /\ m \in Nat /\ m <= n /\ \A k \in 1 .. n : seq[k] \in S
    BY LenProperties, ElementOfSeq
  <1>2. PICK w : Picks(w, n, seq, at) /\ Picked(seq, at) = w[n]
    BY <1>1, PickedIs
  <1> DEFINE Bad == {k \in 0 .. n : ~First(w[k], Upto(k))}
  <1>3. SUFFICES ASSUME Bad # {} PROVE FALSE
    <2>1. n \in 0 .. n /\ Upto(n) = m
      BY <1>1
    <2>2. QED
      BY <1>2, <2>1
  <1>4. PICK k \in Bad : \A j \in Bad : k <= j
    <2>1. Bad \in SUBSET Nat
      BY <1>1
    <2> HIDE DEF Bad
    <2>2. QED
      BY <1>3, <2>1, LeastNat
  <1>5. k \in 0 .. n /\ k \in Nat /\ ~First(w[k], Upto(k))
    BY <1>1, <1>4
  <1>6. k # 0
    <2>1. k = 0 => w[k] = <<>>
      BY <1>2, <1>5 DEF Picks
    <2>2. First(<<>>, 0) /\ Upto(0) = 0
      BY <1>1, EmptySeq
    <2>3. QED
      BY <1>5, <2>1, <2>2
  <1>7. k - 1 \in 0 .. n /\ k \in 1 .. n /\ ~(k <= k - 1)
    BY <1>1, <1>5, <1>6
  <1>8. First(w[k - 1], Upto(k - 1))
    BY <1>4, <1>7
  <1>9. w[k] = IF k \in at THEN Append(w[k - 1], seq[k]) ELSE w[k - 1]
    BY <1>2, <1>5, <1>6 DEF Picks
  <1> DEFINE s == w[k - 1]
  <1>10. s \in Seq(S) /\ seq[k] \in S /\ Len(s) = Upto(k - 1) /\ \A i \in 1 .. Len(s) : s[i] = seq[i]
    BY <1>1, <1>7, <1>8
  <1> HIDE DEF s
  <1>11. CASE k <= m
    <2>1. Upto(k - 1) = k - 1 /\ Upto(k) = k
      BY <1>1, <1>5, <1>11
    <2>2. w[k] = Append(s, seq[k])
      BY <1>7, <1>9, <1>11 DEF s
    <2>3. /\ Append(s, seq[k]) \in Seq(S) /\ Len(Append(s, seq[k])) = Len(s) + 1
          /\ \A i \in 1 .. Len(s) : Append(s, seq[k])[i] = s[i]
          /\ Append(s, seq[k])[Len(s) + 1] = seq[k]
      BY <1>10, AppendProperties
    <2>4. Len(s) = k - 1 /\ Len(s) + 1 = k
      BY <1>5, <1>10, <2>1
    <2>5. \A i \in 1 .. k : i \in 1 .. Len(s) \/ i = k
      BY <1>5, <2>4
    <2>6. \A i \in 1 .. k : w[k][i] = seq[i]
      BY <1>10, <2>2, <2>3, <2>4, <2>5
    <2>7. QED
      BY <1>5, <2>1, <2>2, <2>3, <2>4, <2>6
  <1>12. CASE ~(k <= m)
    <2>1. Upto(k - 1) = m /\ Upto(k) = m
      BY <1>1, <1>5, <1>12
    <2>2. w[k] = s
      BY <1>7, <1>9, <1>12 DEF s
    <2>3. QED
      BY <1>5, <1>10, <2>1, <2>2
  <1>13. QED
    BY <1>11, <1>12

-----------------------------------------------------------------------------
(* The timeline of a round, clipped to its length, and the gaps in it.      *)

Spaced(segments, length) ==
    /\ segments \in Seq(Segment)
    /\ \A i \in 1 .. Len(segments) : segments[i].from < segments[i].to /\ segments[i].to <= length
    /\ \A i \in 2 .. Len(segments) : segments[i].from - segments[i - 1].to > Hangover

LEMMA SoundsAreSpaced ==
  ASSUME NEW heard, NEW n \in Nat, NEW segments, Sounds(segments, n, heard)
  PROVE  Spaced(segments, n)
  <1>1. segments \in Seq(Segment)
    BY DEF Sounds
  <1>2. MinSpeech \in Nat /\ MinSpeech > 0
    BY MinuteAssumption
  <1>3. \A i \in 1 .. Len(segments) : segments[i].from < segments[i].to /\ segments[i].to <= n
    <2>1. TAKE i \in 1 .. Len(segments)
    <2>2. segments[i].from \in Nat /\ segments[i].to \in Nat
      BY <1>1, SegmentIs
    <2>3. segments[i].to <= n /\ segments[i].to - segments[i].from >= MinSpeech
      BY DEF Sounds
    <2>4. QED
      BY <1>2, <2>2, <2>3
  <1>4. QED
    BY <1>1, <1>3 DEF Sounds, Spaced

Trimmed(s, length) == [from |-> Min({s.from, length}), to |-> Min({s.to, length})]

\* A clipped timeline is as many of the first stretches as begin in time.
Clipped(spoken, segments, length) ==
    /\ Spaced(spoken, length) /\ Len(spoken) <= Len(segments)
    /\ \A i \in 1 .. Len(spoken) :
          /\ spoken[i].from = segments[i].from /\ segments[i].from < length
          /\ spoken[i].to = Min({segments[i].to, length})
    /\ Len(spoken) < Len(segments) => segments[Len(spoken) + 1].from >= length

LEMMA ClipIs ==
  ASSUME NEW n \in Nat, NEW segments, Spaced(segments, n), NEW length \in Nat
  PROVE  Clipped(Clip(segments, length), segments, length)
  <1> DEFINE N == Len(segments)
             inside == [i \in DOMAIN segments |-> Trimmed(segments[i], length)]
             at == {i \in DOMAIN inside : inside[i].to > inside[i].from}
  <1>1. /\ segments \in Seq(Segment) /\ N \in Nat /\ DOMAIN segments = 1 .. N
        /\ \A i \in 1 .. N : segments[i].from \in Nat /\ segments[i].to \in Nat /\ segments[i].from < segments[i].to
    BY SegmentIs, LenProperties DEF Spaced
  <1>2. Clip(segments, length) = Picked(inside, at)
    BY Zenon DEF Clip, Trimmed
  <1>3. ASSUME NEW i \in 1 .. N
        PROVE  /\ inside[i] \in Segment
               /\ i \in at <=> segments[i].from < length
               /\ i \in at => inside[i].from = segments[i].from
               /\ inside[i].to = Min({segments[i].to, length}) /\ inside[i].to <= length
    <2>1. inside[i] = Trimmed(segments[i], length) /\ DOMAIN inside = 1 .. N
      BY <1>1
    <2>2. /\ Min({segments[i].from, length}) = IF segments[i].from <= length THEN segments[i].from ELSE length
          /\ Min({segments[i].to, length}) = IF segments[i].to <= length THEN segments[i].to ELSE length
      BY <1>1, LessOfTwo
    <2>3. inside[i] \in Segment
      BY <1>1, <2>1, <2>2 DEF Trimmed, Segment
    <2>4. inside[i].from = Min({segments[i].from, length}) /\ inside[i].to = Min({segments[i].to, length})
      BY <2>1 DEF Trimmed
    <2>5. i \in at <=> inside[i].to > inside[i].from
      BY <2>1
    <2> HIDE DEF inside, at
    <2>6. QED
      BY <1>1, <2>2, <2>3, <2>4, <2>5
  <1>4. inside \in Seq(Segment) /\ Len(inside) = N
    <2>1. inside \in [1 .. N -> Segment]
      BY <1>1, <1>3
    <2>2. QED
      BY <1>1, <2>1, SeqDef, LenProperties
  <1> HIDE DEF inside, at
  <1>5. \A i \in 2 .. N : i \in at => i - 1 \in at
    <2>1. TAKE i \in 2 .. N
    <2>2. i \in 1 .. N /\ i - 1 \in 1 .. N
      BY <1>1
    <2>3. Hangover \in Nat /\ segments[i].from - segments[i - 1].to > Hangover
      BY MinuteAssumption DEF Spaced
    <2>4. /\ segments[i].from \in Nat /\ segments[i - 1].from \in Nat /\ segments[i - 1].to \in Nat
          /\ segments[i - 1].from < segments[i - 1].to
      BY <1>1, <2>2
    <2>5. segments[i].from < length => segments[i - 1].from < length
      BY <2>3, <2>4
    <2>6. (i \in at <=> segments[i].from < length) /\ (i - 1 \in at <=> segments[i - 1].from < length)
      BY <1>3, <2>2
    <2>7. QED
      BY <2>5, <2>6
  <1>6. PICK m \in 0 .. N : \A k \in 1 .. N : k \in at <=> k <= m
    <2>1. CASE \A k \in 1 .. N : k \in at
      <3>1. N \in 0 .. N /\ \A k \in 1 .. N : k <= N
        BY <1>1
      <3>2. QED
        BY <2>1, <3>1
    <2>2. CASE \E k \in 1 .. N : k \notin at
      <3> DEFINE Out == {k \in 1 .. N : k \notin at}
      <3>1. Out \in SUBSET Nat /\ Out # {}
        BY <1>1, <2>2
      <3>2. PICK l \in Out : \A k \in Out : l <= k
        <4> HIDE DEF Out
        <4>1. QED
          BY <3>1, LeastNat
      <3>3. \A k \in 1 .. N : k < l => k \in at
        BY <1>1, <3>2
      <3>4. \A k \in 1 .. N : k \in at => k < l
        <4> DEFINE In == {k \in 1 .. N : k \in at /\ ~(k < l)}
        <4> SUFFICES ASSUME In # {} PROVE FALSE
          OBVIOUS
        <4>1. In \in SUBSET Nat
          BY <1>1
        <4>2. PICK k \in In : \A j \in In : k <= j
          <5> HIDE DEF In
          <5>1. QED
            BY <4>1, LeastNat
        <4>3. k \in 1 .. N /\ k \in at /\ k > l /\ l \in 1 .. N /\ l \notin at
          BY <1>1, <3>2, <4>2
        <4>4. k \in 2 .. N /\ k - 1 \in 1 .. N /\ ~(k - 1 < l)
          BY <1>1, <4>3
        <4>5. k - 1 \in at
          BY <1>5, <4>3, <4>4
        <4>6. k - 1 \in In /\ ~(k <= k - 1)
          BY <1>1, <4>3, <4>4, <4>5
        <4>7. QED
          BY <4>2, <4>6
      <3>5. l - 1 \in 0 .. N /\ \A k \in 1 .. N : k < l <=> k <= l - 1
        BY <1>1, <3>2
      <3>6. QED
        BY <3>3, <3>4, <3>5
    <2>3. QED
      BY <2>1, <2>2
  <1> DEFINE spoken == Picked(inside, at)
  <1>7. spoken \in Seq(Segment) /\ Len(spoken) = m /\ \A i \in 1 .. m : spoken[i] = inside[i]
    BY <1>4, <1>6, PickedFirst
  <1> HIDE DEF spoken
  <1>8. m \in Nat /\ m <= N /\ \A i \in 1 .. m : i \in 1 .. N /\ i \in at
    BY <1>1, <1>6
  <1>9. ASSUME NEW i \in 1 .. m
        PROVE  /\ spoken[i].from = segments[i].from /\ segments[i].from < length
               /\ spoken[i].to = Min({segments[i].to, length}) /\ spoken[i].to <= length
    BY <1>3, <1>7, <1>8
  <1>10. \A i \in 1 .. m : spoken[i].from < spoken[i].to /\ spoken[i].to <= length
    <2>1. TAKE i \in 1 .. m
    <2>2. segments[i].to \in Nat /\ segments[i].from \in Nat /\ segments[i].from < segments[i].to
      BY <1>1, <1>8
    <2>3. Min({segments[i].to, length}) = IF segments[i].to <= length THEN segments[i].to ELSE length
      BY <2>2, LessOfTwo
    <2>4. spoken[i].from = segments[i].from /\ segments[i].from < length /\ spoken[i].to = Min({segments[i].to, length})
      BY <1>9
    <2>5. QED
      BY <2>2, <2>3, <2>4
  <1>11. \A i \in 2 .. m : spoken[i].from - spoken[i - 1].to > Hangover
    <2>1. TAKE i \in 2 .. m
    <2>2. i \in 1 .. m /\ i - 1 \in 1 .. m /\ i \in 2 .. N
      BY <1>8
    <2>3. spoken[i - 1].to = IF segments[i - 1].to <= length THEN segments[i - 1].to ELSE length
      <3>1. segments[i - 1].to \in Int
        BY <1>1, <1>8, <2>2
      <3>2. Min({segments[i - 1].to, length}) = IF segments[i - 1].to <= length THEN segments[i - 1].to ELSE length
        BY <3>1, LessOfTwo
      <3>3. QED
        BY <1>9, <2>2, <3>2
    <2>4. segments[i].from - segments[i - 1].to > Hangover /\ Hangover \in Nat /\ spoken[i].from = segments[i].from
      BY <1>9, <2>2, MinuteAssumption DEF Spaced
    <2>5. segments[i].from < length /\ segments[i].from \in Nat /\ segments[i - 1].to \in Nat
      BY <1>1, <1>8, <1>9, <2>2
    <2>6. QED
      BY <2>3, <2>4, <2>5
  <1>12. m < N => segments[m + 1].from >= length
    <2>1. m < N => m + 1 \in 1 .. N /\ ~(m + 1 <= m)
      BY <1>8
    <2>2. SUFFICES ASSUME m < N PROVE segments[m + 1].from >= length
      OBVIOUS
    <2>3. m + 1 \notin at
      BY <1>6, <2>1, <2>2
    <2>4. ~(segments[m + 1].from < length) /\ segments[m + 1].from \in Nat
      BY <1>1, <1>3, <2>1, <2>2, <2>3
    <2>5. QED
      BY <2>4
  <1>13. Clipped(spoken, segments, length)
    BY <1>7, <1>8, <1>9, <1>10, <1>11, <1>12 DEF Clipped, Spaced
  <1>14. QED
    BY <1>2, <1>13 DEF spoken

-----------------------------------------------------------------------------
(* Bars: blocks that follow each other from one tick to another.            *)

BarKinds == {"talking", "breath", "gap", "after"}
BarBlock == [from : Nat, to : Nat, kind : BarKinds]

Runs(bar, a, b) ==
    /\ bar \in Seq(BarBlock)
    /\ bar = <<>> => a = b
    /\ bar # <<>> => bar[1].from = a /\ bar[Len(bar)].to = b
    /\ \A i \in 2 .. Len(bar) : bar[i].from = bar[i - 1].to

LEMMA BlockRuns ==
  ASSUME NEW a \in Nat, NEW b \in Nat, a <= b, NEW kind \in BarKinds
  PROVE  /\ Runs(Block(a, b, kind), a, b)
         /\ \A i \in 1 .. Len(Block(a, b, kind)) : kind # "after" => Block(a, b, kind)[i].kind # "after"
  <1>1. CASE b <= a
    <2>1. Block(a, b, kind) = <<>> /\ a = b
      BY <1>1 DEF Block
    <2>2. QED
      BY <2>1, EmptySeq DEF Runs
  <1>2. CASE ~(b <= a)
    <2> DEFINE part == [from |-> a, to |-> b, kind |-> IF kind = "breath" /\ b - a >= Awkward THEN "gap" ELSE kind]
    <2>1. Block(a, b, kind) = <<part>>
      BY <1>2 DEF Block
    <2>2. part \in BarBlock /\ part.from = a /\ part.to = b /\ (kind # "after" => part.kind # "after")
      BY DEF BarBlock, BarKinds
    <2> HIDE DEF part
    <2>3. <<part>> \in Seq(BarBlock) /\ Len(<<part>>) = 1 /\ <<part>>[1] = part /\ <<part>> # <<>>
      BY <2>2
    <2>4. QED
      BY <2>1, <2>2, <2>3 DEF Runs
  <1>3. QED
    BY <1>1, <1>2

LEMMA RunsOn ==
  ASSUME NEW a, NEW b, NEW c, NEW x, NEW y, Runs(x, a, b), Runs(y, b, c)
  PROVE  Runs(x \o y, a, c)
  <1>1. x \in Seq(BarBlock) /\ y \in Seq(BarBlock)
    BY DEF Runs
  <1>2. CASE x = <<>>
    <2>1. x \o y = y /\ a = b
      BY <1>1, <1>2, ConcatEmptySeq DEF Runs
    <2>2. QED
      BY <2>1
  <1>3. CASE y = <<>>
    <2>1. x \o y = x /\ b = c
      BY <1>1, <1>3, ConcatEmptySeq DEF Runs
    <2>2. QED
      BY <2>1
  <1>4. CASE x # <<>> /\ y # <<>>
    <2> DEFINE z == x \o y
    <2>1. /\ z \in Seq(BarBlock) /\ Len(z) = Len(x) + Len(y) /\ Len(x) \in Nat \ {0} /\ Len(y) \in Nat \ {0}
          /\ \A i \in 1 .. Len(x) + Len(y) : z[i] = IF i <= Len(x) THEN x[i] ELSE y[i - Len(x)]
      BY <1>1, <1>4, ConcatProperties, EmptySeq
    <2> HIDE DEF z
    <2>2. z # <<>>
      BY <2>1, EmptySeq
    <2>3. z[1] = x[1] /\ z[Len(z)] = y[Len(y)] /\ z[Len(x)] = x[Len(x)] /\ z[Len(x) + 1] = y[1]
      <3>1. /\ 1 \in 1 .. Len(x) + Len(y) /\ 1 <= Len(x) /\ Len(z) \in 1 .. Len(x) + Len(y) /\ ~(Len(z) <= Len(x))
            /\ Len(z) - Len(x) = Len(y) /\ Len(x) \in 1 .. Len(x) + Len(y) /\ Len(x) <= Len(x)
            /\ Len(x) + 1 \in 1 .. Len(x) + Len(y) /\ ~(Len(x) + 1 <= Len(x)) /\ (Len(x) + 1) - Len(x) = 1
        BY <2>1
      <3>2. QED
        BY <2>1, <3>1
    <2>4. ASSUME NEW i \in 2 .. Len(z) PROVE z[i].from = z[i - 1].to
      <3>1. CASE i <= Len(x)
        <4>1. i \in 1 .. Len(x) + Len(y) /\ i - 1 \in 1 .. Len(x) + Len(y) /\ i - 1 <= Len(x) /\ i \in 2 .. Len(x)
          BY <2>1, <3>1
        <4>2. z[i] = x[i] /\ z[i - 1] = x[i - 1]
          BY <2>1, <3>1, <4>1
        <4>3. QED
          BY <4>1, <4>2 DEF Runs
      <3>2. CASE i = Len(x) + 1
        <4>1. i - 1 = Len(x)
          BY <2>1, <3>2
        <4>2. x[Len(x)].to = b /\ y[1].from = b
          BY <1>4 DEF Runs
        <4>3. QED
          BY <2>3, <3>2, <4>1, <4>2
      <3>3. CASE i > Len(x) + 1
        <4>1. /\ i \in 1 .. Len(x) + Len(y) /\ i - 1 \in 1 .. Len(x) + Len(y) /\ ~(i <= Len(x)) /\ ~(i - 1 <= Len(x))
              /\ i - Len(x) \in 2 .. Len(y) /\ (i - 1) - Len(x) = (i - Len(x)) - 1
          BY <2>1, <3>3
        <4>2. z[i] = y[i - Len(x)] /\ z[i - 1] = y[(i - Len(x)) - 1]
          BY <2>1, <4>1
        <4>3. QED
          BY <4>1, <4>2 DEF Runs
      <3>4. QED
        BY <2>1, <3>1, <3>2, <3>3
    <2>5. z[1].from = a /\ z[Len(z)].to = c
      BY <1>4, <2>3 DEF Runs
    <2>6. QED
      BY <2>1, <2>2, <2>4, <2>5 DEF Runs, z
  <1>5. QED
    BY <1>2, <1>3, <1>4

\* What has no "after" in it.
Before(bar) == bar \in Seq(BarBlock) /\ \A i \in 1 .. Len(bar) : bar[i].kind # "after"

LEMMA BeforeOn ==
  ASSUME NEW x, NEW y, Before(x), Before(y)
  PROVE  Before(x \o y)
  <1>1. x \in Seq(BarBlock) /\ y \in Seq(BarBlock)
    BY DEF Before
  <1> DEFINE z == x \o y
  <1>2. /\ z \in Seq(BarBlock) /\ Len(z) = Len(x) + Len(y) /\ Len(x) \in Nat /\ Len(y) \in Nat
        /\ \A i \in 1 .. Len(x) + Len(y) : z[i] = IF i <= Len(x) THEN x[i] ELSE y[i - Len(x)]
    BY <1>1, ConcatProperties, LenProperties
  <1> HIDE DEF z
  <1>3. ASSUME NEW i \in 1 .. Len(z) PROVE z[i].kind # "after"
    <2>1. CASE i <= Len(x)
      BY <1>2, <2>1 DEF Before
    <2>2. CASE ~(i <= Len(x))
      <3>1. i - Len(x) \in 1 .. Len(y) /\ z[i] = y[i - Len(x)]
        BY <1>2, <2>2
      <3>2. QED
        BY <3>1 DEF Before
    <2>3. QED
      BY <2>1, <2>2
  <1>4. QED
    BY <1>2, <1>3 DEF Before, z

-----------------------------------------------------------------------------
(* The bar above the latest, stretch by stretch.                            *)

Blank == [cursor |-> 0, out |-> <<>>]

Drew(s, g, length) ==
    IF s.cursor >= length THEN s
    ELSE [cursor |-> Min({g.to, length}),
          out |-> s.out \o Block(s.cursor, Min({g.from, length}), "breath")
                        \o Block(Min({g.from, length}), Min({g.to, length}), "talking")]

Draws(w, n, segments, length) ==
    w = [k \in 0 .. n |-> IF k = 0 THEN Blank ELSE Drew(w[k - 1], segments[k], length)]

LEMMA DrawingExists ==
  ASSUME NEW n \in Nat, NEW segments, NEW length
  PROVE  \E w : Draws(w, n, segments, length)
  <1> DEFINE Bad == {k \in Nat : ~\E w : Draws(w, k, segments, length)}
  <1> SUFFICES ASSUME Bad # {} PROVE FALSE
    OBVIOUS
  <1>1. PICK k \in Bad : \A m \in Bad : k <= m
    BY LeastNat
  <1>2. CASE k = 0
    <2> DEFINE w == [j \in 0 .. 0 |-> Blank]
    <2>1. Draws(w, 0, segments, length)
      BY DEF Draws
    <2>2. QED
      BY <1>1, <1>2, <2>1
  <1>3. CASE k # 0
    <2>1. k - 1 \in Nat /\ k - 1 \notin Bad
      BY <1>1, <1>3
    <2>2. PICK w : Draws(w, k - 1, segments, length)
      BY <2>1
    <2> DEFINE v == [j \in 0 .. k |-> IF j = 0 THEN Blank ELSE Drew(w[j - 1], segments[j], length)]
    <2>3. \A j \in 0 .. k - 1 : j \in 0 .. k /\ (j # 0 => j - 1 \in 0 .. k - 1)
      BY <2>1
    <2>4. \A j \in 0 .. k - 1 : v[j] = w[j]
      BY <2>2, <2>3, Zenon DEF Draws
    <2>5. \A j \in 0 .. k : j # 0 => j - 1 \in 0 .. k - 1
      BY <2>1
    <2>6. \A j \in 0 .. k : j # 0 => v[j - 1] = w[j - 1]
      BY <2>4, <2>5
    <2>7. Draws(v, k, segments, length)
      BY <2>6, Zenon DEF Draws
    <2>8. QED
      BY <1>1, <2>7
  <1>4. QED
    BY <1>2, <1>3

LEMMA MinuteBlocksAre ==
  ASSUME NEW segments, Len(segments) \in Nat, NEW length, ~(segments = <<>> \/ length <= 0)
  PROVE  \E w : /\ Draws(w, Len(segments), segments, length)
                /\ MinuteBlocks(segments, length)
                     = w[Len(segments)].out \o Block(w[Len(segments)].cursor, length, "after")
  <1> DEFINE w == CHOOSE w : Draws(w, Len(segments), segments, length)
  <1>1. Draws(w, Len(segments), segments, length)
    BY DrawingExists, Zenon
  <1>2. MinuteBlocks(segments, length) = w[Len(segments)].out \o Block(w[Len(segments)].cursor, length, "after")
    BY Zenon DEF MinuteBlocks, Draws, Drew, Blank
  <1>3. QED
    BY <1>1, <1>2

\* The bar so far ends with the last stretch, or with the round.
Ends(k, segments, length) == IF k = 0 THEN 0 ELSE Min({segments[k].to, length})

Drawn(s, k, segments, length) ==
    /\ s.cursor = Ends(k, segments, length) /\ s.cursor \in Nat /\ s.cursor <= length
    /\ Runs(s.out, 0, s.cursor) /\ Before(s.out)

LEMMA EndsIs ==
  ASSUME NEW n \in Nat, NEW segments, Spaced(segments, n), NEW length \in Nat, NEW k \in 1 .. Len(segments)
  PROVE  /\ Ends(k, segments, length) = IF segments[k].to <= length THEN segments[k].to ELSE length
         /\ Ends(k, segments, length) \in Nat /\ Ends(k, segments, length) <= length
         /\ segments[k].from \in Nat /\ segments[k].to \in Nat /\ segments[k].from < segments[k].to
         /\ k # 1 => k - 1 \in 1 .. Len(segments) /\ segments[k - 1].to \in Nat /\ segments[k].from > segments[k - 1].to
         /\ k # 0 /\ k \in Nat
  <1>1. segments \in Seq(Segment)
    BY DEF Spaced
  <1>2. segments[k].from \in Nat /\ segments[k].to \in Nat /\ segments[k].from < segments[k].to
    BY <1>1, SegmentIs DEF Spaced
  <1>3. k # 0 /\ k \in Nat /\ Len(segments) \in Nat
    BY <1>1, LenProperties
  <1>4. Ends(k, segments, length) = IF segments[k].to <= length THEN segments[k].to ELSE length
    BY <1>2, <1>3, LessOfTwo DEF Ends
  <1>5. ASSUME k # 1
        PROVE  k - 1 \in 1 .. Len(segments) /\ segments[k - 1].to \in Nat /\ segments[k].from > segments[k - 1].to
    <2>1. k - 1 \in 1 .. Len(segments) /\ k \in 2 .. Len(segments)
      BY <1>3, <1>5
    <2>2. segments[k - 1].to \in Nat
      BY <1>1, <2>1, SegmentIs
    <2>3. segments[k].from - segments[k - 1].to > Hangover /\ Hangover \in Nat
      BY <2>1, MinuteAssumption DEF Spaced
    <2>4. QED
      BY <1>2, <2>1, <2>2, <2>3
  <1>6. QED
    BY <1>2, <1>3, <1>4, <1>5

LEMMA DrewIs ==
  ASSUME NEW n \in Nat, NEW segments, Spaced(segments, n), NEW length \in Nat, NEW k \in 1 .. Len(segments),
         NEW s, Drawn(s, k - 1, segments, length)
  PROVE  Drawn(Drew(s, segments[k], length), k, segments, length)
  <1> DEFINE g == segments[k]
             from == Min({g.from, length})
             to == Min({g.to, length})
  <1>1. /\ Ends(k, segments, length) = to /\ to \in Nat /\ to <= length
        /\ to = IF g.to <= length THEN g.to ELSE length
        /\ g.from \in Nat /\ g.to \in Nat /\ g.from < g.to /\ k \in Nat /\ k # 0
    BY EndsIs DEF Ends
  <1>2. from = (IF g.from <= length THEN g.from ELSE length) /\ from \in Nat /\ from <= to
    BY <1>1, LessOfTwo
  <1>3. s.cursor \in Nat /\ s.cursor <= length /\ s.cursor = Ends(k - 1, segments, length)
    BY DEF Drawn
  <1>4. s.cursor <= from /\ (s.cursor >= length => to = length)
    <2>1. CASE k = 1
      BY <1>1, <1>2, <1>3, <2>1 DEF Ends
    <2>2. CASE k # 1
      <3>1. k - 1 \in 1 .. Len(segments) /\ segments[k - 1].to \in Nat /\ g.from > segments[k - 1].to
        BY <2>2, EndsIs
      <3>2. s.cursor = IF segments[k - 1].to <= length THEN segments[k - 1].to ELSE length
        BY <1>3, <3>1, EndsIs
      <3>3. QED
        BY <1>1, <1>2, <3>1, <3>2
    <2>3. QED
      BY <2>1, <2>2
  <1> HIDE DEF g, from, to
  <1>5. CASE s.cursor >= length
    <2>1. Drew(s, g, length) = s
      BY <1>5 DEF Drew
    <2>2. s.cursor = to
      BY <1>3, <1>4, <1>5
    <2>3. QED
      BY <1>1, <2>1, <2>2 DEF Drawn, g
  <1>6. CASE ~(s.cursor >= length)
    <2> DEFINE one == Block(s.cursor, from, "breath")
               two == Block(from, to, "talking")
               out == s.out \o one \o two
    <2>1. Drew(s, g, length) = [cursor |-> to, out |-> out]
      BY <1>6 DEF Drew, g, from, to
    <2>2. Runs(one, s.cursor, from) /\ Runs(two, from, to) /\ Before(one) /\ Before(two)
      <3>1. "breath" \in BarKinds /\ "talking" \in BarKinds /\ "breath" # "after" /\ "talking" # "after"
        BY DEF BarKinds
      <3>2. Runs(one, s.cursor, from) /\ \A i \in 1 .. Len(one) : one[i].kind # "after"
        BY <1>2, <1>3, <1>4, <3>1, BlockRuns
      <3>3. Runs(two, from, to) /\ \A i \in 1 .. Len(two) : two[i].kind # "after"
        BY <1>1, <1>2, <3>1, BlockRuns
      <3>4. QED
        BY <3>2, <3>3 DEF Before, Runs
    <2>3. Runs(s.out, 0, s.cursor) /\ Before(s.out)
      BY DEF Drawn
    <2> HIDE DEF one, two
    <2>4. Runs(s.out \o one, 0, from) /\ Before(s.out \o one)
      BY <2>2, <2>3, RunsOn, BeforeOn
    <2>5. Runs(out, 0, to) /\ Before(out)
      BY <2>2, <2>4, RunsOn, BeforeOn
    <2> HIDE DEF out
    <2>6. QED
      BY <1>1, <2>1, <2>5 DEF Drawn, g
  <1>7. QED
    BY <1>5, <1>6

LEMMA DrawsOn ==
  ASSUME NEW n \in Nat, NEW segments, Spaced(segments, n), NEW length \in Nat,
         NEW w, Draws(w, Len(segments), segments, length)
  PROVE  \A k \in 0 .. Len(segments) : Drawn(w[k], k, segments, length)
  <1> DEFINE N == Len(segments)
             Bad == {k \in 0 .. N : ~Drawn(w[k], k, segments, length)}
  <1>1. N \in Nat
    BY LenProperties DEF Spaced
  <1> SUFFICES ASSUME Bad # {} PROVE FALSE
    OBVIOUS
  <1>2. PICK k \in Bad : \A m \in Bad : k <= m
    <2>1. Bad \in SUBSET Nat
      BY <1>1
    <2> HIDE DEF Bad
    <2>2. QED
      BY <2>1, LeastNat
  <1>3. k \in 0 .. N /\ k \in Nat /\ ~Drawn(w[k], k, segments, length)
    BY <1>1, <1>2
  <1>4. k # 0
    <2>1. k = 0 => w[k] = Blank
      BY <1>3 DEF Draws
    <2>2. Drawn(Blank, 0, segments, length)
      BY EmptySeq DEF Drawn, Blank, Ends, Runs, Before
    <2>3. QED
      BY <1>3, <2>1, <2>2
  <1>5. k - 1 \in 0 .. N /\ k \in 1 .. N /\ ~(k <= k - 1)
    BY <1>1, <1>3, <1>4
  <1>6. Drawn(w[k - 1], k - 1, segments, length)
    BY <1>2, <1>5
  <1>7. w[k] = Drew(w[k - 1], segments[k], length)
    BY <1>3, <1>4 DEF Draws
  <1>8. QED
    BY <1>3, <1>5, <1>6, <1>7, DrewIs

\* The bar of a round is all of the round and no more.
LEMMA MinuteBlocksRun ==
  ASSUME NEW n \in Nat, NEW segments, Spaced(segments, n), NEW length \in Nat
  PROVE  MinuteBlocks(segments, length) # <<>> => Runs(MinuteBlocks(segments, length), 0, length)
  <1> SUFFICES ASSUME MinuteBlocks(segments, length) # <<>>
               PROVE  Runs(MinuteBlocks(segments, length), 0, length)
    OBVIOUS
  <1>1. ~(segments = <<>> \/ length <= 0)
    BY Zenon DEF MinuteBlocks
  <1>2. Len(segments) \in Nat
    BY LenProperties DEF Spaced
  <1>3. PICK w : /\ Draws(w, Len(segments), segments, length)
                 /\ MinuteBlocks(segments, length)
                      = w[Len(segments)].out \o Block(w[Len(segments)].cursor, length, "after")
    BY <1>1, <1>2, MinuteBlocksAre
  <1> DEFINE s == w[Len(segments)]
  <1>4. Drawn(s, Len(segments), segments, length)
    BY <1>2, <1>3, DrawsOn
  <1> HIDE DEF s
  <1>5. Runs(s.out, 0, s.cursor) /\ s.cursor \in Nat /\ s.cursor <= length
    BY <1>4 DEF Drawn
  <1>6. Runs(Block(s.cursor, length, "after"), s.cursor, length)
    BY <1>5, BlockRuns DEF BarKinds
  <1>7. QED
    BY <1>3, <1>5, <1>6, RunsOn DEF s

-----------------------------------------------------------------------------
(* What holds of the stretches of a minute, and of its bars.                *)

LEMMA StretchesApart ==
  ASSUME levels \in Seq(Loudness)
  PROVE  SegmentsApart
  <1>1. Sounds(Segments, Len(levels), levels)
    BY SegmentsSound DEF Segments
  <1>2. Segments \in Seq(Segment) /\ DOMAIN Segments = 1 .. Len(Segments)
    BY <1>1, LenProperties DEF Sounds
  <1>3. QED
    BY <1>1, <1>2 DEF SegmentsApart, Sounds, Length

LEMMA BarsWithinRound ==
  ASSUME levels \in Seq(Loudness), Overrun \in Nat
  PROVE  BarWithinRound
  <1> SUFFICES ASSUME NEW length \in Lengths, MinuteBlocks(Segments, length) # <<>>
               PROVE  LET bar == MinuteBlocks(Segments, length)
                      IN  /\ bar[1].from = 0 /\ bar[Len(bar)].to = length
                          /\ \A i \in 2 .. Len(bar) : bar[i].from = bar[i - 1].to
    BY DEF BarWithinRound
  <1>1. Len(levels) \in Nat /\ Spaced(Segments, Len(levels))
    BY SegmentsSound, SoundsAreSpaced, LenProperties DEF Segments
  <1>2. length \in Nat
    BY <1>1 DEF Lengths
  <1>3. Runs(MinuteBlocks(Segments, length), 0, length)
    BY <1>1, <1>2, MinuteBlocksRun
  <1>4. QED
    BY <1>3 DEF Runs

\* Of a timeline within its round, clipping leaves all.
LEMMA ClipIsAll ==
  ASSUME NEW n \in Nat, NEW segments, Spaced(segments, n)
  PROVE  Clip(segments, n) = segments
  <1> DEFINE spoken == Clip(segments, n)
  <1>1. Clipped(spoken, segments, n)
    BY ClipIs
  <1> HIDE DEF spoken
  <1>2. segments \in Seq(Segment) /\ spoken \in Seq(Segment) /\ Len(spoken) \in Nat /\ Len(segments) \in Nat
    BY <1>1, LenProperties DEF Clipped, Spaced
  <1>3. Len(spoken) = Len(segments)
    <2> SUFFICES ASSUME Len(spoken) < Len(segments) PROVE FALSE
      BY <1>1, <1>2 DEF Clipped
    <2>1. Len(spoken) + 1 \in 1 .. Len(segments) /\ segments[Len(spoken) + 1].from >= n
      BY <1>1, <1>2 DEF Clipped
    <2>2. segments[Len(spoken) + 1].from \in Nat /\ segments[Len(spoken) + 1].to \in Nat
      BY <1>2, <2>1, SegmentIs
    <2>3. segments[Len(spoken) + 1].from < segments[Len(spoken) + 1].to /\ segments[Len(spoken) + 1].to <= n
      BY <2>1 DEF Spaced
    <2>4. QED
      BY <2>1, <2>2, <2>3
  <1>4. ASSUME NEW i \in 1 .. Len(spoken) PROVE spoken[i] = segments[i]
    <2>1. i \in 1 .. Len(segments)
      BY <1>3
    <2>2. spoken[i] \in Segment /\ segments[i] \in Segment /\ segments[i].to \in Nat
      BY <1>2, <2>1, SegmentIs
    <2>3. segments[i].to <= n /\ Min({segments[i].to, n}) = segments[i].to
      <3>1. segments[i].to <= n
        BY <2>1 DEF Spaced
      <3>2. Min({segments[i].to, n}) = IF segments[i].to <= n THEN segments[i].to ELSE n
        BY <2>2, LessOfTwo
      <3>3. QED
        BY <3>1, <3>2
    <2>4. spoken[i].from = segments[i].from /\ spoken[i].to = segments[i].to
      BY <1>1, <2>3 DEF Clipped
    <2>5. QED
      BY <2>2, <2>4 DEF Segment
  <1>5. QED
    BY <1>2, <1>3, <1>4, SeqEqual DEF spoken

LEMMA NothingSpoken == Spoken(<<>>) = 0
  <1> DEFINE f == [i \in DOMAIN <<>> |-> Length(<<>>[i])]
  <1>1. DOMAIN f = {}
    OBVIOUS
  <1>2. Spoken(<<>>) = SumFunctionOnSet(f, DOMAIN f)
    BY Zenon DEF Spoken, Sum, SumFunction
  <1>3. QED
    BY <1>1, <1>2, SumOfNone

LEMMA WarningsAreVerdicts ==
  ASSUME levels \in Seq(Loudness)
  PROVE  WarningIsVerdict
  <1> SUFFICES ASSUME levels # <<>>
               PROVE  LiveHeard(levels) <=> Timing(Segments, Len(levels)).heard
    BY DEF WarningIsVerdict
  <1>1. Len(levels) \in Nat \ {0}
    BY EmptySeq
  <1>2. Spaced(Segments, Len(levels))
    BY SegmentsSound, SoundsAreSpaced DEF Segments
  <1>3. Clip(Segments, Len(levels)) = Segments
    BY <1>1, <1>2, ClipIsAll
  <1>4. LiveHeard(levels) <=> HeardEnough(Spoken(Segments), Len(levels))
    BY Zenon DEF LiveHeard, Segments
  <1>5. Timing(Segments, Len(levels)).heard <=> ~(Segments = <<>> \/ ~HeardEnough(Spoken(Segments), Len(levels)))
    BY <1>1, <1>3 DEF Timing, Unheard
  <1>6. Segments = <<>> => ~HeardEnough(Spoken(Segments), Len(levels))
    <2>1. ~HeardEnough(0, Len(levels))
      BY <1>1, MinuteAssumption DEF HeardEnough
    <2>2. QED
      BY <2>1, NothingSpoken
  <1>7. QED
    BY <1>4, <1>5, <1>6

-----------------------------------------------------------------------------
(* One timeline to two scales.                                              *)

LEMMA DrewToScale ==
  ASSUME NEW n \in Nat, NEW segments, Spaced(segments, n), NEW scale \in Nat, n <= scale,
         NEW k \in 1 .. Len(segments), NEW s, Drawn(s, k - 1, segments, n)
  PROVE  Drew(s, segments[k], scale) = Drew(s, segments[k], n)
  <1> DEFINE g == segments[k]
  <1>1. /\ g.from \in Nat /\ g.to \in Nat /\ g.from < g.to /\ k \in Nat /\ k # 0
        /\ k # 1 => k - 1 \in 1 .. Len(segments) /\ segments[k - 1].to \in Nat /\ g.from > segments[k - 1].to
    BY EndsIs
  <1>2. g.to <= n
    BY DEF Spaced
  <1>3. s.cursor < n /\ s.cursor \in Nat
    <2>1. s.cursor = Ends(k - 1, segments, n) /\ s.cursor \in Nat
      BY DEF Drawn
    <2>2. CASE k = 1
      BY <1>1, <1>2, <2>1, <2>2 DEF Ends
    <2>3. CASE k # 1
      <3>1. s.cursor = IF segments[k - 1].to <= n THEN segments[k - 1].to ELSE n
        BY <1>1, <2>1, <2>3, EndsIs
      <3>2. QED
        BY <1>1, <1>2, <2>1, <2>3, <3>1
    <2>4. QED
      BY <2>2, <2>3
  <1> HIDE DEF g
  <1>4. /\ Min({g.from, n}) = g.from /\ Min({g.to, n}) = g.to
        /\ Min({g.from, scale}) = g.from /\ Min({g.to, scale}) = g.to
    <2>1. Min({g.from, n}) = g.from /\ Min({g.to, n}) = g.to
      BY <1>1, <1>2, LessOfTwo
    <2>2. g.from <= scale /\ g.to <= scale
      BY <1>1, <1>2
    <2>3. Min({g.from, scale}) = g.from /\ Min({g.to, scale}) = g.to
      BY <1>1, <2>2, LessOfTwo
    <2>4. QED
      BY <2>1, <2>3
  <1>5. ~(s.cursor >= n) /\ ~(s.cursor >= scale)
    BY <1>3
  <1>6. Drew(s, g, scale) = Drew(s, g, n)
    BY <1>4, <1>5, Zenon DEF Drew
  <1>7. QED
    BY <1>6 DEF g

LEMMA DrawsToScale ==
  ASSUME NEW n \in Nat, NEW segments, Spaced(segments, n), NEW scale \in Nat, n <= scale,
         NEW w, Draws(w, Len(segments), segments, n), NEW v, Draws(v, Len(segments), segments, scale)
  PROVE  \A k \in 0 .. Len(segments) : v[k] = w[k]
  <1> DEFINE N == Len(segments)
             Bad == {k \in 0 .. N : v[k] # w[k]}
  <1>1. N \in Nat
    BY LenProperties DEF Spaced
  <1> SUFFICES ASSUME Bad # {} PROVE FALSE
    OBVIOUS
  <1>2. PICK k \in Bad : \A m \in Bad : k <= m
    <2>1. Bad \in SUBSET Nat
      BY <1>1
    <2> HIDE DEF Bad
    <2>2. QED
      BY <2>1, LeastNat
  <1>3. k \in 0 .. N /\ k \in Nat /\ v[k] # w[k]
    BY <1>1, <1>2
  <1>4. k # 0
    BY <1>3 DEF Draws
  <1>5. k - 1 \in 0 .. N /\ k \in 1 .. N /\ ~(k <= k - 1)
    BY <1>1, <1>3, <1>4
  <1>6. v[k - 1] = w[k - 1]
    BY <1>2, <1>5
  <1>7. w[k] = Drew(w[k - 1], segments[k], n) /\ v[k] = Drew(v[k - 1], segments[k], scale)
    BY <1>3, <1>4 DEF Draws
  <1>8. Drawn(w[k - 1], k - 1, segments, n)
    BY <1>5, DrawsOn
  <1>9. QED
    BY <1>3, <1>5, <1>6, <1>7, <1>8, DrewToScale

\* All of a bar but what comes after its last stretch.
LEMMA ButTheRest ==
  ASSUME NEW x, Before(x), NEW a \in Nat, NEW b \in Nat, a <= b
  PROVE  LET bar == x \o Block(a, b, "after")
         IN  Picked(bar, {i \in DOMAIN bar : bar[i].kind # "after"}) = x
  <1> DEFINE y == Block(a, b, "after")
             bar == x \o y
             at == {i \in DOMAIN bar : bar[i].kind # "after"}
  <1>1. x \in Seq(BarBlock) /\ \A i \in 1 .. Len(x) : x[i].kind # "after"
    BY DEF Before
  <1>2. y \in Seq(BarBlock) /\ \A i \in 1 .. Len(y) : y[i].kind = "after"
    <2>1. y \in Seq(BarBlock)
      BY BlockRuns DEF BarKinds, Runs
    <2>2. y = <<>> \/ y = <<[from |-> a, to |-> b, kind |-> "after"]>>
      BY DEF Block
    <2>3. QED
      BY <2>1, <2>2
  <1>3. /\ bar \in Seq(BarBlock) /\ Len(bar) = Len(x) + Len(y) /\ Len(x) \in Nat /\ Len(y) \in Nat
        /\ \A i \in 1 .. Len(x) + Len(y) : bar[i] = IF i <= Len(x) THEN x[i] ELSE y[i - Len(x)]
    BY <1>1, <1>2, ConcatProperties, LenProperties
  <1> HIDE DEF y, bar
  <1>4. DOMAIN bar = 1 .. Len(bar)
    BY <1>3, LenProperties
  <1>5. ASSUME NEW k \in 1 .. Len(bar) PROVE k \in at <=> k <= Len(x)
    <2>1. CASE k <= Len(x)
      BY <1>1, <1>3, <1>4, <2>1
    <2>2. CASE ~(k <= Len(x))
      <3>1. k - Len(x) \in 1 .. Len(y) /\ bar[k] = y[k - Len(x)]
        BY <1>3, <2>2
      <3>2. QED
        BY <1>2, <2>2, <3>1
    <2>3. QED
      BY <2>1, <2>2
  <1> HIDE DEF at
  <1> DEFINE p == Picked(bar, at)
  <1>6. Len(x) \in 0 .. Len(bar) /\ bar \in Seq(BarBlock) /\ \A k \in 1 .. Len(bar) : k \in at <=> k <= Len(x)
    BY <1>3, <1>5
  <1>7. p \in Seq(BarBlock) /\ Len(p) = Len(x) /\ \A i \in 1 .. Len(x) : p[i] = bar[i]
    BY ONLY <1>6, PickedFirst
  <1> HIDE DEF p
  <1>8. \A i \in 1 .. Len(p) : p[i] = x[i]
    BY <1>3, <1>7
  <1>9. p = x
    BY <1>1, <1>7, <1>8, SeqEqual
  <1>10. QED
    BY <1>9 DEF p, at, bar, y

LEMMA WavesAreToScale ==
  ASSUME levels \in Seq(Loudness), Overrun \in Nat
  PROVE  WavesToScale
  <1> DEFINE n == Len(levels)
             Rid(bar) == Picked(bar, {i \in DOMAIN bar : bar[i].kind # "after"})
  <1> SUFFICES ASSUME levels # <<>>, NEW scale \in n .. n + Overrun
               PROVE  Rid(Wave(Segments, scale)) = Rid(MinuteBlocks(Segments, n))
    BY Zenon DEF WavesToScale
  <1>1. n \in Nat /\ n > 0 /\ scale \in Nat /\ n <= scale
    BY EmptySeq
  <1>2. Spaced(Segments, n)
    BY SegmentsSound, SoundsAreSpaced DEF Segments
  <1> HIDE DEF n
  <1>3. CASE Segments = <<>>
    BY <1>3, Zenon DEF Wave, MinuteBlocks
  <1>4. CASE Segments # <<>>
    <2> DEFINE N == Len(Segments)
    <2>1. N \in Nat /\ N \in 0 .. N /\ ~(Segments = <<>> \/ n <= 0) /\ ~(Segments = <<>> \/ scale <= 0)
      BY <1>1, <1>2, <1>4, LenProperties DEF Spaced
    <2>2. PICK w : /\ Draws(w, N, Segments, n)
                   /\ MinuteBlocks(Segments, n) = w[N].out \o Block(w[N].cursor, n, "after")
      BY <2>1, MinuteBlocksAre
    <2>3. PICK v : /\ Draws(v, N, Segments, scale)
                   /\ MinuteBlocks(Segments, scale) = v[N].out \o Block(v[N].cursor, scale, "after")
      BY <2>1, MinuteBlocksAre
    <2>4. v[N] = w[N] /\ Drawn(w[N], N, Segments, n)
      BY <1>1, <1>2, <2>1, <2>2, <2>3, DrawsToScale, DrawsOn
    <2>5. Before(w[N].out) /\ w[N].cursor \in Nat /\ w[N].cursor <= n /\ w[N].cursor <= scale
      BY <1>1, <2>4 DEF Drawn
    <2>6. Rid(w[N].out \o Block(w[N].cursor, n, "after")) = w[N].out
      BY <1>1, <2>5, ButTheRest
    <2>7. Rid(w[N].out \o Block(w[N].cursor, scale, "after")) = w[N].out
      BY <1>1, <2>5, ButTheRest
    <2>8. Wave(Segments, scale) = v[N].out \o Block(v[N].cursor, scale, "after")
      BY <2>3 DEF Wave
    <2>9. QED
      BY <2>2, <2>4, <2>6, <2>7, <2>8, Zenon
  <1>5. QED
    BY <1>3, <1>4

-----------------------------------------------------------------------------
(* The pauses of a round and the bar rebuilt from them.                     *)

Rest == [at : Nat, seconds : Nat]

LEMMA GapsAre ==
  ASSUME NEW n \in Nat, NEW spoken, Spaced(spoken, n), spoken # <<>>
  PROVE  /\ Gaps(spoken) \in Seq(Rest) /\ Len(Gaps(spoken)) = Len(spoken) - 1 /\ Len(spoken) - 1 \in Nat
         /\ \A i \in 1 .. Len(spoken) - 1 :
              /\ Gaps(spoken)[i] = [at |-> spoken[i].to, seconds |-> spoken[i + 1].from - spoken[i].to]
              /\ i \in 1 .. Len(spoken) /\ i + 1 \in 1 .. Len(spoken)
  <1> DEFINE N == Len(spoken)
             gaps == Gaps(spoken)
  <1>1. spoken \in Seq(Segment) /\ N \in Nat \ {0} /\ N - 1 \in Nat
    BY EmptySeq DEF Spaced
  <1>2. gaps = [i \in 1 .. N - 1 |-> [at |-> spoken[i].to, seconds |-> spoken[i + 1].from - spoken[i].to]]
    BY DEF Gaps
  <1>3. ASSUME NEW i \in 1 .. N - 1
        PROVE  gaps[i] \in Rest /\ i \in 1 .. N /\ i + 1 \in 1 .. N
    <2>1. i \in 1 .. N /\ i + 1 \in 2 .. N /\ i + 1 \in 1 .. N /\ (i + 1) - 1 = i
      BY <1>1
    <2>2. spoken[i].to \in Nat /\ spoken[i + 1].from \in Nat
      BY <1>1, <2>1, SegmentIs
    <2>3. spoken[i + 1].from - spoken[i].to > Hangover /\ Hangover \in Nat
      BY <2>1, MinuteAssumption DEF Spaced
    <2>4. spoken[i + 1].from - spoken[i].to \in Nat
      BY <2>2, <2>3
    <2>5. QED
      BY <1>2, <2>1, <2>2, <2>4 DEF Rest
  <1> HIDE DEF gaps
  <1>4. gaps \in [1 .. N - 1 -> Rest]
    BY <1>2, <1>3
  <1>5. gaps \in Seq(Rest) /\ Len(gaps) = N - 1
    BY <1>1, <1>4, SeqDef, LenProperties
  <1>6. QED
    BY <1>1, <1>2, <1>3, <1>5 DEF gaps

LEMMA PausesAre ==
  ASSUME NEW n \in Nat, NEW spoken, Spaced(spoken, n), spoken # <<>>
  PROVE  /\ Pauses(spoken) \in Seq(Rest)
         /\ ~GapUnreported(spoken) => Pauses(spoken) = Gaps(spoken)
  <1> DEFINE gaps == Gaps(spoken)
             at == {i \in DOMAIN gaps : gaps[i].seconds >= MinPause}
             p == Picked(gaps, at)
  <1>1. gaps \in Seq(Rest) /\ Len(gaps) \in Nat /\ DOMAIN gaps = 1 .. Len(gaps)
    BY GapsAre, LenProperties
  <1>2. Pauses(spoken) = p
    BY Zenon DEF Pauses
  <1>3. p \in Seq(Rest)
    BY <1>1, PickedFrom DEF From
  <1>4. ASSUME ~GapUnreported(spoken) PROVE p = gaps
    <2>1. ASSUME NEW i \in 1 .. Len(gaps) PROVE gaps[i].seconds >= MinPause
      <3>1. ~(gaps[i].seconds < MinPause)
        BY <1>1, <1>4 DEF GapUnreported
      <3>2. gaps[i].seconds \in Nat /\ MinPause \in Nat
        <4>1. gaps[i] \in Rest
          BY <1>1, ElementOfSeq
        <4>2. QED
          BY <4>1, MinuteAssumption DEF Rest
      <3>3. QED
        BY <3>1, <3>2
    <2>2. Len(gaps) \in 0 .. Len(gaps) /\ gaps \in Seq(Rest) /\ \A k \in 1 .. Len(gaps) : k \in at <=> k <= Len(gaps)
      BY <1>1, <2>1
    <2> HIDE DEF gaps, at
    <2>3. p \in Seq(Rest) /\ Len(p) = Len(gaps) /\ \A i \in 1 .. Len(gaps) : p[i] = gaps[i]
      BY ONLY <2>2, PickedFirst
    <2>4. QED
      BY <1>1, <2>3, SeqEqual
  <1>5. QED
    BY <1>2, <1>3, <1>4

LEMMA OneMore ==
  ASSUME NEW k \in Nat, k > 0
  PROVE  IsFiniteSet(1 .. k - 1) /\ k \notin 1 .. k - 1 /\ (1 .. k - 1) \cup {k} = 1 .. k
  <1>1. k - 1 \in Int /\ 1 \in Int
    OBVIOUS
  <1>2. IsFiniteSet(1 .. k - 1)
    BY <1>1, FS_Interval
  <1>3. QED
    BY <1>2

\* The silence before a round, its pauses and its stretches add up to where
\* the last stretch ends.
LEMMA AddsUp ==
  ASSUME NEW n \in Nat, NEW spoken, Spaced(spoken, n), spoken # <<>>
  PROVE  spoken[1].from + Sum(Gaps(spoken), LAMBDA p : p.seconds) + Spoken(spoken) = spoken[Len(spoken)].to
  <1> DEFINE N == Len(spoken)
             f == [i \in DOMAIN Gaps(spoken) |-> Gaps(spoken)[i].seconds]
             g == [i \in DOMAIN spoken |-> Length(spoken[i])]
             F(k) == SumFunctionOnSet(f, 1 .. k)
             G(k) == SumFunctionOnSet(g, 1 .. k)
  <1>1. spoken \in Seq(Segment) /\ N \in Nat \ {0} /\ N - 1 \in Nat /\ DOMAIN spoken = 1 .. N /\ 1 \in 1 .. N
    BY EmptySeq, LenProperties DEF Spaced
  <1>2. DOMAIN Gaps(spoken) = 1 .. N - 1
    BY GapsAre, LenProperties
  <1>3. /\ Sum(Gaps(spoken), LAMBDA p : p.seconds) = SumFunctionOnSet(f, DOMAIN f)
        /\ Spoken(spoken) = SumFunctionOnSet(g, DOMAIN g)
    BY Zenon DEF Sum, SumFunction, Spoken
  <1>4. DOMAIN f = 1 .. N - 1 /\ DOMAIN g = 1 .. N
    BY <1>1, <1>2
  <1>5. \A i \in 1 .. N : /\ spoken[i].from \in Nat /\ spoken[i].to \in Nat /\ g[i] = spoken[i].to - spoken[i].from
                          /\ g[i] \in Nat
    <2>1. TAKE i \in 1 .. N
    <2>2. spoken[i].from \in Nat /\ spoken[i].to \in Nat /\ spoken[i].from < spoken[i].to
      BY <1>1, SegmentIs DEF Spaced
    <2>3. QED
      BY <1>1, <2>2 DEF Length
  <1>6. \A i \in 1 .. N - 1 : f[i] = spoken[i + 1].from - spoken[i].to /\ f[i] \in Nat
    <2>1. TAKE i \in 1 .. N - 1
    <2>2. Gaps(spoken)[i] = [at |-> spoken[i].to, seconds |-> spoken[i + 1].from - spoken[i].to]
      BY GapsAre
    <2>3. Gaps(spoken)[i] \in Rest
      BY GapsAre, ElementOfSeq
    <2>4. QED
      BY <1>2, <2>2, <2>3 DEF Rest
  <1> HIDE DEF f, g
  <1> DEFINE Bad == {k \in 1 .. N : spoken[1].from + F(k - 1) + G(k) # spoken[k].to}
  <1>7. Bad = {}
    <2> SUFFICES ASSUME Bad # {} PROVE FALSE
      OBVIOUS
    <2>1. PICK k \in Bad : \A m \in Bad : k <= m
      <3>1. Bad \in SUBSET Nat
        BY <1>1
      <3> HIDE DEF Bad
      <3>2. QED
        BY <3>1, LeastNat
    <2>2. k \in 1 .. N /\ k \in Nat /\ spoken[1].from + F(k - 1) + G(k) # spoken[k].to
      BY <1>1, <2>1
    <2>3. IsFiniteSet(1 .. k - 1) /\ k \notin 1 .. k - 1 /\ (1 .. k - 1) \cup {k} = 1 .. k
      BY <2>2, OneMore
    <2>4. \A x \in (1 .. k - 1) \cup {k} : g[x] \in Nat
      BY <1>1, <1>5, <2>2
    <2>5. G(k) = g[k] + G(k - 1) /\ G(k - 1) \in Nat
      BY <2>3, <2>4, SumWithOneMore, SumIsNat
    <2>6. CASE k = 1
      <3>1. 1 .. k - 1 = {}
        BY <2>6
      <3>2. F(k - 1) = 0 /\ G(k - 1) = 0
        BY <3>1, SumOfNone
      <3>3. QED
        BY <1>1, <1>5, <2>2, <2>5, <2>6, <3>2
    <2>7. CASE k # 1
      <3>1. k - 1 \in 1 .. N /\ ~(k <= k - 1) /\ k - 1 \in 1 .. N - 1 /\ (k - 1) - 1 \in Nat
        BY <1>1, <2>2, <2>7
      <3>2. spoken[1].from + F((k - 1) - 1) + G(k - 1) = spoken[k - 1].to
        BY <2>1, <3>1
      <3>3. IsFiniteSet(1 .. (k - 1) - 1) /\ k - 1 \notin 1 .. (k - 1) - 1 /\ (1 .. (k - 1) - 1) \cup {k - 1} = 1 .. k - 1
        BY <3>1, OneMore
      <3>4. \A x \in (1 .. (k - 1) - 1) \cup {k - 1} : f[x] \in Nat
        BY <1>1, <1>6, <2>2, <3>1
      <3>5. F(k - 1) = f[k - 1] + F((k - 1) - 1) /\ F((k - 1) - 1) \in Nat
        BY <3>3, <3>4, SumWithOneMore, SumIsNat
      <3>6. (k - 1) + 1 = k /\ f[k - 1] = spoken[k].from - spoken[k - 1].to
        BY <1>6, <2>2, <3>1
      <3>7. /\ spoken[1].from \in Nat /\ spoken[k].from \in Nat /\ spoken[k].to \in Nat /\ spoken[k - 1].to \in Nat
            /\ g[k] = spoken[k].to - spoken[k].from
        BY <1>1, <1>5, <2>2, <3>1
      <3> DEFINE F0 == F((k - 1) - 1)
                 F1 == F(k - 1)
                 G1 == G(k - 1)
                 G2 == G(k)
                 first == spoken[1].from
                 before == spoken[k - 1].to
                 from == spoken[k].from
                 to == spoken[k].to
                 fk == f[k - 1]
                 gk == g[k]
      <3>8. /\ first + F1 + G2 # to /\ first + F0 + G1 = before
            /\ F1 = fk + F0 /\ F0 \in Nat /\ G2 = gk + G1 /\ G1 \in Nat
            /\ fk = from - before /\ gk = to - from
            /\ first \in Nat /\ before \in Nat /\ from \in Nat /\ to \in Nat
        BY <2>2, <2>5, <3>2, <3>5, <3>6, <3>7
      <3> HIDE DEF F0, F1, G1, G2, first, before, from, to, fk, gk
      <3>9. F1 = (from - before) + F0 /\ G2 = (to - from) + G1
        BY <3>8
      <3>10. first + F1 + G2 = (first + F0 + G1) + (to - before)
        BY <3>8, <3>9
      <3>11. (first + F0 + G1) + (to - before) = to
        BY <3>8
      <3>12. QED
        BY <3>8, <3>10, <3>11
    <2>8. QED
      BY <2>6, <2>7
  <1>8. spoken[1].from + F(N - 1) + G(N) = spoken[N].to
    BY <1>1, <1>7
  <1>9. QED
    BY <1>3, <1>4, <1>8

\* One pause more.
Rested(s, p) ==
    [cursor |-> p.at + p.seconds,
     out |-> s.out \o Block(s.cursor, p.at, "talking") \o Block(p.at, p.at + p.seconds, "breath")]

Rebuilds(w, n, report) ==
    w = [k \in 0 .. n |-> IF k = 0 THEN [cursor |-> report.stall, out |-> Block(0, report.stall, "breath")]
                                   ELSE Rested(w[k - 1], report.pauses[k])]

LEMMA RebuildingExists ==
  ASSUME NEW n \in Nat, NEW report
  PROVE  \E w : Rebuilds(w, n, report)
  <1> DEFINE Bad == {k \in Nat : ~\E w : Rebuilds(w, k, report)}
             first == [cursor |-> report.stall, out |-> Block(0, report.stall, "breath")]
  <1> SUFFICES ASSUME Bad # {} PROVE FALSE
    OBVIOUS
  <1>1. PICK k \in Bad : \A m \in Bad : k <= m
    BY LeastNat
  <1>2. CASE k = 0
    <2> DEFINE w == [j \in 0 .. 0 |-> first]
    <2>1. Rebuilds(w, 0, report)
      BY DEF Rebuilds
    <2>2. QED
      BY <1>1, <1>2, <2>1
  <1>3. CASE k # 0
    <2>1. k - 1 \in Nat /\ k - 1 \notin Bad
      BY <1>1, <1>3
    <2>2. PICK w : Rebuilds(w, k - 1, report)
      BY <2>1
    <2> DEFINE v == [j \in 0 .. k |-> IF j = 0 THEN first ELSE Rested(w[j - 1], report.pauses[j])]
    <2>3. \A j \in 0 .. k - 1 : j \in 0 .. k /\ (j # 0 => j - 1 \in 0 .. k - 1)
      BY <2>1
    <2>4. \A j \in 0 .. k - 1 : v[j] = w[j]
      BY <2>2, <2>3, Zenon DEF Rebuilds
    <2>5. \A j \in 0 .. k : j # 0 => j - 1 \in 0 .. k - 1
      BY <2>1
    <2>6. \A j \in 0 .. k : j # 0 => v[j - 1] = w[j - 1]
      BY <2>4, <2>5
    <2>7. Rebuilds(v, k, report)
      BY <2>6, Zenon DEF Rebuilds
    <2>8. QED
      BY <1>1, <2>7
  <1>4. QED
    BY <1>2, <1>3

LEMMA BlocksAre ==
  ASSUME NEW report, NEW length, ~(~report.heard \/ length <= 0), Len(report.pauses) \in Nat
  PROVE  \E w : /\ Rebuilds(w, Len(report.pauses), report)
                /\ Blocks(report, length)
                     = w[Len(report.pauses)].out
                         \o Block(w[Len(report.pauses)].cursor, LastSound(report, length), "talking")
                         \o Block(LastSound(report, length), length, "after")
  <1> DEFINE w == CHOOSE w : Rebuilds(w, Len(report.pauses), report)
  <1>1. Rebuilds(w, Len(report.pauses), report)
    BY RebuildingExists, Zenon
  <1>2. Blocks(report, length) = w[Len(report.pauses)].out
                         \o Block(w[Len(report.pauses)].cursor, LastSound(report, length), "talking")
                         \o Block(LastSound(report, length), length, "after")
    BY Zenon DEF Blocks, Rebuilds, Rested
  <1>3. QED
    BY <1>1, <1>2

\* The stretch s is drawn in the bar.
Voiced(s, bar) == \E j \in 1 .. Len(bar) : bar[j] = [from |-> s.from, to |-> s.to, kind |-> "talking"]

LEMMA VoicedOn ==
  ASSUME NEW x \in Seq(BarBlock), NEW y \in Seq(BarBlock), NEW s, Voiced(s, x) \/ Voiced(s, y)
  PROVE  Voiced(s, x \o y)
  <1> DEFINE z == x \o y
  <1>1. /\ Len(z) = Len(x) + Len(y) /\ Len(x) \in Nat /\ Len(y) \in Nat
        /\ \A i \in 1 .. Len(x) + Len(y) : z[i] = IF i <= Len(x) THEN x[i] ELSE y[i - Len(x)]
    BY ConcatProperties, LenProperties
  <1> HIDE DEF z
  <1> DEFINE part == [from |-> s.from, to |-> s.to, kind |-> "talking"]
  <1> HIDE DEF part
  <1>2. CASE Voiced(s, x)
    <2>1. PICK j \in 1 .. Len(x) : x[j] = part
      BY <1>2 DEF Voiced, part
    <2>2. j \in 1 .. Len(z) /\ z[j] = part
      BY <1>1, <2>1
    <2>3. QED
      BY <2>2 DEF Voiced, z, part
  <1>3. CASE Voiced(s, y)
    <2>1. PICK j \in 1 .. Len(y) : y[j] = part
      BY <1>3 DEF Voiced, part
    <2>2. j + Len(x) \in 1 .. Len(z) /\ ~(j + Len(x) <= Len(x)) /\ (j + Len(x)) - Len(x) = j
      BY <1>1, <2>1
    <2>3. z[j + Len(x)] = part
      BY <1>1, <2>1, <2>2
    <2>4. QED
      BY <2>2, <2>3 DEF Voiced, z, part
  <1>4. QED
    BY <1>2, <1>3

LEMMA BlockVoiced ==
  ASSUME NEW s \in Segment, s.from < s.to
  PROVE  Voiced(s, Block(s.from, s.to, "talking"))
  <1>1. s.from \in Nat /\ s.to \in Nat
    BY DEF Segment
  <1>2. Block(s.from, s.to, "talking") = <<[from |-> s.from, to |-> s.to, kind |-> "talking"]>>
    BY <1>1 DEF Block
  <1>3. QED
    BY <1>2 DEF Voiced

\* The bar so far is up to the next stretch, and has the ones before it.
Rebuilt(s, k, spoken) ==
    /\ s.cursor = spoken[k + 1].from
    /\ s.out \in Seq(BarBlock)
    /\ \A i \in 1 .. k : Voiced(spoken[i], s.out)

LEMMA RestedIs ==
  ASSUME NEW n \in Nat, NEW spoken, Spaced(spoken, n), NEW k \in 1 .. Len(spoken) - 1,
         NEW s, Rebuilt(s, k - 1, spoken)
  PROVE  /\ Rebuilt(Rested(s, Gaps(spoken)[k]), k, spoken)
         /\ Rested(s, Gaps(spoken)[k]).out = s.out \o Block(spoken[k].from, spoken[k].to, "talking")
                                                   \o Block(spoken[k].to, spoken[k + 1].from, "breath")
  <1>1. /\ spoken \in Seq(Segment) /\ Len(spoken) \in Nat /\ k \in 1 .. Len(spoken) /\ k + 1 \in 1 .. Len(spoken)
        /\ (k - 1) + 1 = k /\ spoken # <<>> /\ (k + 1) - 1 = k /\ k + 1 \in 2 .. Len(spoken)
    BY LenProperties, EmptySeq DEF Spaced
  <1>2. /\ spoken[k] \in Segment /\ spoken[k].from \in Nat /\ spoken[k].to \in Nat /\ spoken[k].from < spoken[k].to
        /\ spoken[k + 1].from \in Nat
    BY <1>1, SegmentIs DEF Spaced
  <1>3. spoken[k].to <= spoken[k + 1].from
    <2>1. spoken[k + 1].from - spoken[k].to > Hangover /\ Hangover \in Nat
      BY <1>1, MinuteAssumption DEF Spaced
    <2>2. QED
      BY <1>2, <2>1
  <1>4. Gaps(spoken)[k] = [at |-> spoken[k].to, seconds |-> spoken[k + 1].from - spoken[k].to]
    BY <1>1, GapsAre
  <1>5. Gaps(spoken)[k].at = spoken[k].to /\ Gaps(spoken)[k].at + Gaps(spoken)[k].seconds = spoken[k + 1].from
    BY <1>2, <1>4
  <1>6. s.cursor = spoken[k].from /\ s.out \in Seq(BarBlock) /\ \A i \in 1 .. k - 1 : Voiced(spoken[i], s.out)
    BY <1>1 DEF Rebuilt
  <1> DEFINE one == Block(spoken[k].from, spoken[k].to, "talking")
             two == Block(spoken[k].to, spoken[k + 1].from, "breath")
             out == s.out \o one \o two
  <1>7. Rested(s, Gaps(spoken)[k]) = [cursor |-> spoken[k + 1].from, out |-> out]
    BY <1>5, <1>6, Zenon DEF Rested
  <1>8. one \in Seq(BarBlock) /\ two \in Seq(BarBlock) /\ Voiced(spoken[k], one)
    <2>1. "talking" \in BarKinds /\ "breath" \in BarKinds
      BY DEF BarKinds
    <2>2. Runs(one, spoken[k].from, spoken[k].to)
      BY <1>2, <2>1, BlockRuns
    <2>3. Runs(two, spoken[k].to, spoken[k + 1].from)
      BY <1>2, <1>3, <2>1, BlockRuns
    <2>4. QED
      BY <1>2, <2>2, <2>3, BlockVoiced DEF Runs
  <1> HIDE DEF one, two
  <1>9. s.out \o one \in Seq(BarBlock) /\ out \in Seq(BarBlock)
    BY <1>6, <1>8, ConcatProperties
  <1>10. ASSUME NEW i \in 1 .. k PROVE Voiced(spoken[i], out)
    <2>1. Voiced(spoken[i], s.out) \/ Voiced(spoken[i], one)
      BY <1>6, <1>8
    <2>2. Voiced(spoken[i], s.out \o one)
      BY <1>6, <1>8, <2>1, VoicedOn
    <2>3. QED
      BY <1>8, <1>9, <2>2, VoicedOn
  <1> DEFINE next == Rested(s, Gaps(spoken)[k])
  <1> HIDE DEF out, next
  <1>11. next.cursor = spoken[k + 1].from /\ next.out = out
    BY <1>7 DEF next
  <1>12. Rebuilt(next, k, spoken)
    BY <1>9, <1>10, <1>11 DEF Rebuilt
  <1>13. QED
    BY <1>11, <1>12 DEF next, out, one, two

LEMMA RebuildsOn ==
  ASSUME NEW n \in Nat, NEW spoken, Spaced(spoken, n), spoken # <<>>,
         NEW report, report.stall = spoken[1].from, report.pauses = Gaps(spoken),
         NEW w, Rebuilds(w, Len(spoken) - 1, report)
  PROVE  \A k \in 0 .. Len(spoken) - 1 : Rebuilt(w[k], k, spoken)
  <1> DEFINE N == Len(spoken)
             Bad == {k \in 0 .. N - 1 : ~Rebuilt(w[k], k, spoken)}
  <1>1. spoken \in Seq(Segment) /\ N \in Nat \ {0} /\ 1 \in 1 .. N
    BY EmptySeq DEF Spaced
  <1> SUFFICES ASSUME Bad # {} PROVE FALSE
    OBVIOUS
  <1>2. PICK k \in Bad : \A m \in Bad : k <= m
    <2>1. Bad \in SUBSET Nat
      BY <1>1
    <2> HIDE DEF Bad
    <2>2. QED
      BY <2>1, LeastNat
  <1>3. k \in 0 .. N - 1 /\ k \in Nat /\ ~Rebuilt(w[k], k, spoken)
    BY <1>1, <1>2
  <1>4. k # 0
    <2>1. k = 0 => w[k] = [cursor |-> spoken[1].from, out |-> Block(0, spoken[1].from, "breath")]
      BY <1>3 DEF Rebuilds
    <2>2. spoken[1].from \in Nat /\ 0 <= spoken[1].from
      BY <1>1, SegmentIs
    <2>3. Block(0, spoken[1].from, "breath") \in Seq(BarBlock)
      BY <2>2, BlockRuns DEF BarKinds, Runs
    <2>4. QED
      BY <1>3, <2>1, <2>3 DEF Rebuilt
  <1>5. k - 1 \in 0 .. N - 1 /\ k \in 1 .. N - 1 /\ ~(k <= k - 1)
    BY <1>1, <1>3, <1>4
  <1>6. Rebuilt(w[k - 1], k - 1, spoken)
    BY <1>2, <1>5
  <1>7. w[k] = Rested(w[k - 1], Gaps(spoken)[k])
    BY <1>3, <1>4 DEF Rebuilds
  <1>8. QED
    BY <1>3, <1>5, <1>6, <1>7, RestedIs

-----------------------------------------------------------------------------
(* What the report of a heard round says.                                   *)

LEMMA TimingIs ==
  ASSUME NEW segments, NEW length, Timing(segments, length).heard
  PROVE  LET report == Timing(segments, length)
             spoken == Clip(segments, length)
         IN  /\ spoken # <<>> /\ length # 0
             /\ report.heard = TRUE
             /\ report.stall = spoken[1].from /\ report.pauses = Pauses(spoken) /\ report.speaking = Spoken(spoken)
             /\ report.longest = Max({0} \cup {p.seconds : p \in ToSet(Pauses(spoken))})
             /\ report.awkward = Cardinality({i \in DOMAIN Pauses(spoken) : Pauses(spoken)[i].seconds >= Awkward})
  <1> DEFINE spoken == Clip(segments, length)
             unheard == length = 0 \/ spoken = <<>> \/ ~HeardEnough(Spoken(spoken), length)
  <1>1. ~unheard
    <2> SUFFICES ASSUME unheard PROVE FALSE
      OBVIOUS
    <2>1. Timing(segments, length) = Unheard
      BY Zenon DEF Timing
    <2>2. QED
      BY <2>1 DEF Unheard
  <1>2. Timing(segments, length) =
          [heard    |-> TRUE,
           stall    |-> spoken[1].from,
           pauses   |-> Pauses(spoken),
           longest  |-> Max({0} \cup {p.seconds : p \in ToSet(Pauses(spoken))}),
           awkward  |-> Cardinality({i \in DOMAIN Pauses(spoken) : Pauses(spoken)[i].seconds >= Awkward}),
           speaking |-> Spoken(spoken),
           faded    |-> Faded(spoken, length)]
    BY <1>1, Zenon DEF Timing
  <1> HIDE DEF spoken
  <1>3. QED
    BY <1>1, <1>2 DEF spoken

\* What a reader knows of a round all of whose gaps are in its report.
Reported(segments, length) ==
    LET report == Timing(segments, length)
        spoken == Clip(segments, length)
    IN  report.heard /\ ~GapUnreported(spoken)

LEMMA ReportedIs ==
  ASSUME NEW n \in Nat, NEW segments, Spaced(segments, n), NEW length \in Nat, Reported(segments, length)
  PROVE  LET report == Timing(segments, length)
             spoken == Clip(segments, length)
         IN  /\ Clipped(spoken, segments, length) /\ spoken # <<>> /\ ~(~report.heard \/ length <= 0)
             /\ report.stall = spoken[1].from /\ report.pauses = Gaps(spoken)
             /\ LastSound(report, length) = spoken[Len(spoken)].to
             /\ Len(spoken) \in 1 .. Len(spoken) /\ Len(spoken) \in Nat /\ spoken[Len(spoken)] \in Segment
             /\ spoken[Len(spoken)].from < spoken[Len(spoken)].to /\ spoken[Len(spoken)].to <= length
  <1> DEFINE report == Timing(segments, length)
             spoken == Clip(segments, length)
  <1>1. report.heard /\ ~GapUnreported(spoken)
    BY DEF Reported
  <1>2. /\ spoken # <<>> /\ length # 0
        /\ report.stall = spoken[1].from /\ report.pauses = Pauses(spoken) /\ report.speaking = Spoken(spoken)
    BY <1>1, TimingIs
  <1>3. Clipped(spoken, segments, length)
    BY ClipIs
  <1> HIDE DEF report, spoken
  <1>4. Spaced(spoken, length)
    BY <1>3 DEF Clipped
  <1>5. report.pauses = Gaps(spoken)
    BY <1>1, <1>2, <1>4, PausesAre
  <1>6. /\ Len(spoken) \in 1 .. Len(spoken) /\ Len(spoken) \in Nat /\ spoken[Len(spoken)] \in Segment
        /\ spoken[Len(spoken)].from < spoken[Len(spoken)].to /\ spoken[Len(spoken)].to <= length
        /\ spoken[Len(spoken)].to \in Nat
    <2>1. spoken \in Seq(Segment)
      BY <1>4 DEF Spaced
    <2>2. Len(spoken) \in 1 .. Len(spoken) /\ Len(spoken) \in Nat
      BY <1>2, <2>1, EmptySeq
    <2>3. QED
      BY <1>4, <2>1, <2>2, SegmentIs DEF Spaced
  <1>7. LastSound(report, length) = spoken[Len(spoken)].to
    <2>1. spoken[1].from + Sum(Gaps(spoken), LAMBDA p : p.seconds) + Spoken(spoken) = spoken[Len(spoken)].to
      BY <1>2, <1>4, AddsUp
    <2>2. LastSound(report, length) = Min({length, spoken[1].from + Sum(Gaps(spoken), LAMBDA p : p.seconds) + Spoken(spoken)})
      BY <1>2, <1>5, Zenon DEF LastSound
    <2>3. LastSound(report, length) = Min({length, spoken[Len(spoken)].to})
      BY <2>1, <2>2
    <2>4. QED
      BY <1>6, <2>3, LessOfTwo
  <1>8. QED
    BY <1>1, <1>2, <1>3, <1>5, <1>6, <1>7 DEF report, spoken

\* The bar of such a round: the pauses, and the last stretch.
LEMMA ReportedBlocks ==
  ASSUME NEW n \in Nat, NEW segments, Spaced(segments, n), NEW length \in Nat, Reported(segments, length)
  PROVE  LET report == Timing(segments, length)
             spoken == Clip(segments, length)
             last   == spoken[Len(spoken)]
         IN  \E w : /\ Rebuilds(w, Len(spoken) - 1, report)
                    /\ \A k \in 0 .. Len(spoken) - 1 : Rebuilt(w[k], k, spoken)
                    /\ Blocks(report, length) = w[Len(spoken) - 1].out \o Block(last.from, last.to, "talking")
                                                                       \o Block(last.to, length, "after")
  <1> DEFINE report == Timing(segments, length)
             spoken == Clip(segments, length)
             N == Len(spoken)
  <1>1. /\ Clipped(spoken, segments, length) /\ spoken # <<>> /\ ~(~report.heard \/ length <= 0)
        /\ report.stall = spoken[1].from /\ report.pauses = Gaps(spoken)
        /\ LastSound(report, length) = spoken[N].to /\ N \in 1 .. N /\ N \in Nat
    BY ReportedIs
  <1> HIDE DEF report, spoken
  <1>2. Spaced(spoken, length)
    BY <1>1 DEF Clipped
  <1>3. Len(report.pauses) = N - 1 /\ N - 1 \in Nat /\ N - 1 \in 0 .. N - 1 /\ (N - 1) + 1 = N
    BY <1>1, <1>2, GapsAre
  <1>4. PICK w : /\ Rebuilds(w, Len(report.pauses), report)
                 /\ Blocks(report, length)
                      = w[Len(report.pauses)].out
                          \o Block(w[Len(report.pauses)].cursor, LastSound(report, length), "talking")
                          \o Block(LastSound(report, length), length, "after")
    BY <1>1, <1>3, BlocksAre
  <1>5. Rebuilds(w, N - 1, report)
    BY <1>3, <1>4
  <1>6. \A k \in 0 .. N - 1 : Rebuilt(w[k], k, spoken)
    BY <1>1, <1>2, <1>5, RebuildsOn
  <1>7. w[N - 1].cursor = spoken[N].from
    BY <1>3, <1>6 DEF Rebuilt
  <1>8. Blocks(report, length) = w[N - 1].out \o Block(spoken[N].from, spoken[N].to, "talking")
                                              \o Block(spoken[N].to, length, "after")
    BY <1>1, <1>3, <1>4, <1>7
  <1>9. QED
    BY <1>5, <1>6, <1>8 DEF report, spoken

LEMMA StrokeOver ==
  ASSUME NEW s \in Segment, s.from < s.to
  PROVE  \E x \in Strokes([from |-> s.from, to |-> s.to, kind |-> "talking"]) : 2 * s.from <= x /\ x <= 2 * s.to
  <1> DEFINE b == [from |-> s.from, to |-> s.to, kind |-> "talking"]
  <1>1. s.from \in Nat /\ s.to \in Nat /\ b.from = s.from /\ b.to = s.to /\ Pitch \in Nat /\ Pitch > 0
    BY MinuteAssumption DEF Segment
  <1> HIDE DEF b
  <1>2. CASE b.to - b.from < Pitch
    <2>1. Strokes(b) = {b.from + b.to}
      BY <1>2 DEF Strokes
    <2>2. 2 * s.from <= s.from + s.to /\ s.from + s.to <= 2 * s.to
      BY <1>1
    <2>3. QED
      BY <1>1, <2>1, <2>2 DEF b
  <1>3. CASE ~(b.to - b.from < Pitch)
    <2> DEFINE x == 2 * b.from + Pitch
    <2>1. x \in 2 * b.from .. 2 * b.to - 1 /\ x \in Nat
      BY <1>1, <1>3
    <2>2. 0 \in 0 .. x /\ x = 2 * b.from + Pitch + 2 * 0 * Pitch
      BY <1>1, <2>1
    <2> HIDE DEF x
    <2>3. x \in Strokes(b)
      BY <1>3, <2>1, <2>2, Zenon DEF Strokes
    <2>4. 2 * s.from <= x /\ x <= 2 * s.to
      BY <1>1, <2>1
    <2>5. QED
      BY <2>3, <2>4 DEF b
  <1>4. QED
    BY <1>2, <1>3

LEMMA EveryWordDrawn ==
  ASSUME levels \in Seq(Loudness), Overrun \in Nat
  PROVE  WordsDrawn
  <1> SUFFICES ASSUME NEW length \in Lengths,
                      Timing(Segments, length).heard, ~GapUnreported(Clip(Segments, length)),
                      NEW i \in DOMAIN Clip(Segments, length)
               PROVE  \E b \in {c \in ToSet(Blocks(Timing(Segments, length), length)) : c.kind = "talking"} :
                         \E x \in Strokes(b) :
                            2 * Clip(Segments, length)[i].from <= x /\ x <= 2 * Clip(Segments, length)[i].to
    BY Zenon DEF WordsDrawn
  <1> DEFINE report == Timing(Segments, length)
             spoken == Clip(Segments, length)
             N == Len(spoken)
             bar == Blocks(report, length)
  <1>1. Len(levels) \in Nat /\ Spaced(Segments, Len(levels))
    BY SegmentsSound, SoundsAreSpaced, LenProperties DEF Segments
  <1>2. length \in Nat
    BY <1>1 DEF Lengths
  <1>3. Reported(Segments, length)
    BY DEF Reported
  <1>4. PICK w : /\ \A k \in 0 .. N - 1 : Rebuilt(w[k], k, spoken)
                 /\ bar = w[N - 1].out \o Block(spoken[N].from, spoken[N].to, "talking")
                                       \o Block(spoken[N].to, length, "after")
    BY <1>1, <1>2, <1>3, ReportedBlocks
  <1>5. /\ Clipped(spoken, Segments, length) /\ N \in 1 .. N /\ N \in Nat /\ spoken[N] \in Segment
        /\ spoken[N].from < spoken[N].to /\ spoken[N].to <= length
    BY <1>1, <1>2, <1>3, ReportedIs
  <1> HIDE DEF spoken, report
  <1>6. spoken \in Seq(Segment) /\ DOMAIN spoken = 1 .. N /\ i \in 1 .. N
    BY <1>5, LenProperties DEF Clipped, Spaced, spoken
  <1>7. spoken[i] \in Segment /\ spoken[i].from < spoken[i].to
    BY <1>5, <1>6, SegmentIs DEF Clipped, Spaced
  <1> DEFINE body == w[N - 1].out
             last == Block(spoken[N].from, spoken[N].to, "talking")
             after == Block(spoken[N].to, length, "after")
  <1>8. body \in Seq(BarBlock) /\ \A k \in 1 .. N - 1 : Voiced(spoken[k], body)
    BY <1>4, <1>5 DEF Rebuilt
  <1>9. last \in Seq(BarBlock) /\ after \in Seq(BarBlock) /\ Voiced(spoken[N], last)
    <2>1. spoken[N].from \in Nat /\ spoken[N].to \in Nat /\ "talking" \in BarKinds /\ "after" \in BarKinds
      BY <1>5 DEF Segment, BarKinds
    <2>2. Runs(last, spoken[N].from, spoken[N].to)
      BY <1>5, <2>1, BlockRuns
    <2>3. Runs(after, spoken[N].to, length)
      BY <1>2, <1>5, <2>1, BlockRuns
    <2>4. QED
      BY <1>5, <2>2, <2>3, BlockVoiced DEF Runs
  <1>10. bar = body \o last \o after
    BY <1>4
  <1> HIDE DEF body, last, after, bar
  <1>11. body \o last \in Seq(BarBlock) /\ bar \in Seq(BarBlock)
    BY <1>8, <1>9, <1>10, ConcatProperties
  <1>12. Voiced(spoken[i], body) \/ Voiced(spoken[i], last)
    BY <1>5, <1>6, <1>8, <1>9
  <1>13. Voiced(spoken[i], body \o last)
    BY <1>8, <1>9, <1>12, VoicedOn
  <1>14. Voiced(spoken[i], bar)
    BY <1>9, <1>10, <1>11, <1>13, VoicedOn
  <1> DEFINE part == [from |-> spoken[i].from, to |-> spoken[i].to, kind |-> "talking"]
  <1>15. PICK j \in 1 .. Len(bar) : bar[j] = part
    BY <1>14 DEF Voiced
  <1>16. part.kind = "talking" /\ part \in ToSet(bar)
    <2>1. j \in DOMAIN bar
      BY <1>11, LenProperties
    <2>2. QED
      BY <1>15, <2>1 DEF ToSet
  <1>17. PICK x \in Strokes(part) : 2 * spoken[i].from <= x /\ x <= 2 * spoken[i].to
    BY <1>7, StrokeOver
  <1> HIDE DEF part
  <1>18. QED
    BY <1>16, <1>17 DEF bar, spoken, report

\* Stretch by stretch the two bars are one, but that the rebuilt one has not
\* yet been told where the stretch ends.
\* Two walks over one round, that of its timeline and that of its report.
BothWalk(segments, length, spoken, report, w, v) ==
    /\ (\E n \in Nat : Spaced(segments, n)) /\ length \in Nat
    /\ Clipped(spoken, segments, length) /\ spoken # <<>> /\ Len(spoken) = Len(segments)
    /\ report.stall = spoken[1].from /\ report.pauses = Gaps(spoken)
    /\ Rebuilds(w, Len(spoken) - 1, report)
    /\ Draws(v, Len(segments), segments, length)

InStep(k, spoken, w, v) ==
    v[k + 1].out = w[k].out \o Block(spoken[k + 1].from, spoken[k + 1].to, "talking")

LEMMA BarsInStep ==
  ASSUME NEW segments, NEW length, NEW spoken, NEW report, NEW w, NEW v,
         BothWalk(segments, length, spoken, report, w, v)
  PROVE  \A k \in 0 .. Len(spoken) - 1 : InStep(k, spoken, w, v)
  <1> DEFINE N == Len(spoken)
             Bad == {k \in 0 .. N - 1 : ~InStep(k, spoken, w, v)}
  <1>1. /\ length \in Nat /\ Clipped(spoken, segments, length) /\ spoken # <<>> /\ Len(spoken) = Len(segments)
        /\ report.stall = spoken[1].from /\ report.pauses = Gaps(spoken)
        /\ Rebuilds(w, Len(spoken) - 1, report) /\ Draws(v, Len(segments), segments, length)
    BY DEF BothWalk
  <1>2. PICK n \in Nat : Spaced(segments, n)
    BY DEF BothWalk
  <1>3. Spaced(spoken, length) /\ spoken \in Seq(Segment) /\ N \in Nat \ {0} /\ 1 \in 1 .. N
    BY <1>1, EmptySeq DEF Clipped, Spaced
  <1>4. \A k \in 0 .. N : Drawn(v[k], k, segments, length)
    BY <1>1, <1>2, DrawsOn
  <1>5. \A k \in 0 .. N - 1 : Rebuilt(w[k], k, spoken)
    BY <1>1, <1>3, RebuildsOn
  <1> SUFFICES ASSUME Bad # {} PROVE FALSE
    OBVIOUS
  <1>6. PICK k \in Bad : \A j \in Bad : k <= j
    <2>1. Bad \in SUBSET Nat
      BY <1>3
    <2> HIDE DEF Bad
    <2>2. QED
      BY <2>1, LeastNat
  <1>7. k \in 0 .. N - 1 /\ k \in Nat /\ ~InStep(k, spoken, w, v)
    BY <1>3, <1>6
  <1>8. k + 1 \in 0 .. N /\ k + 1 \in 1 .. N /\ k + 1 # 0 /\ (k + 1) - 1 = k /\ k \in 0 .. N
    BY <1>3, <1>7
  <1> HIDE DEF Bad
  <1> DEFINE from == spoken[k + 1].from
             to == spoken[k + 1].to
  <1>9. /\ from = segments[k + 1].from /\ to = Min({segments[k + 1].to, length})
        /\ from < length /\ from \in Nat /\ to \in Nat
    <2>1. spoken[k + 1].from \in Nat /\ spoken[k + 1].to \in Nat
      BY <1>3, <1>8, SegmentIs
    <2>2. QED
      BY <1>1, <1>8, <2>1 DEF Clipped
  <1>10. Min({segments[k + 1].from, length}) = from
    BY <1>1, <1>9, LessOfTwo
  <1>11. v[k + 1] = Drew(v[k], segments[k + 1], length)
    BY <1>1, <1>8 DEF Draws
  <1>12. k # 0 => k \in 1 .. N /\ v[k].cursor = spoken[k].to
    <2> SUFFICES ASSUME k # 0 PROVE k \in 1 .. N /\ v[k].cursor = spoken[k].to
      OBVIOUS
    <2>1. k \in 1 .. N
      BY <1>7, <1>8
    <2>2. v[k].cursor = Ends(k, segments, length)
      BY <1>4, <1>8 DEF Drawn
    <2>3. v[k].cursor = Min({segments[k].to, length})
      BY <2>2 DEF Ends
    <2>4. QED
      BY <1>1, <2>1, <2>3 DEF Clipped
  <1>13. ~(v[k].cursor >= length)
    <2>1. CASE k = 0
      <3>1. v[k].cursor = 0
        BY <1>4, <1>8, <2>1 DEF Drawn, Ends
      <3>2. QED
        BY <1>1, <1>9, <3>1
    <2>2. CASE k # 0
      <3>1. k + 1 \in 2 .. N /\ k \in 1 .. N /\ spoken[k].to \in Nat
        BY <1>3, <1>7, <1>8, <1>12, <2>2, SegmentIs
      <3>2. from - spoken[k].to > Hangover /\ Hangover \in Nat
        BY <1>3, <1>8, <3>1, MinuteAssumption DEF Spaced
      <3>3. QED
        BY <1>1, <1>9, <1>12, <2>2, <3>1, <3>2
    <2>3. QED
      BY <2>1, <2>2
  <1>14. v[k + 1].out = v[k].out \o Block(v[k].cursor, from, "breath") \o Block(from, to, "talking")
    <2> DEFINE out == v[k].out \o Block(v[k].cursor, from, "breath") \o Block(from, to, "talking")
    <2>1. v[k + 1] = [cursor |-> to, out |-> out]
      BY <1>9, <1>10, <1>11, <1>13, Zenon DEF Drew
    <2> HIDE DEF out
    <2>2. v[k + 1].out = out
      BY <2>1
    <2>3. QED
      BY <2>2 DEF out
  <1>15. v[k].out \o Block(v[k].cursor, from, "breath") = w[k].out
    <2>1. CASE k = 0
      <3>1. v[k].out = <<>> /\ v[k].cursor = 0
        BY <1>1, <1>8, <2>1 DEF Draws, Blank
      <3>2. w[k].out = Block(0, spoken[1].from, "breath") /\ from = spoken[1].from
        BY <1>1, <1>7, <2>1 DEF Rebuilds
      <3>3. Block(0, from, "breath") \in Seq(BarBlock)
        <4>1. "breath" \in BarKinds /\ 0 <= from
          BY <1>9 DEF BarKinds
        <4>2. Runs(Block(0, from, "breath"), 0, from)
          BY <1>9, <4>1, BlockRuns
        <4>3. QED
          BY <4>2 DEF Runs
      <3>4. QED
        BY <3>1, <3>2, <3>3, ConcatEmptySeq
    <2>2. CASE k # 0
      <3>1. k - 1 \in 0 .. N - 1 /\ k \in 1 .. N - 1 /\ ~(k <= k - 1) /\ (k - 1) + 1 = k
        BY <1>3, <1>7, <2>2
      <3>2. InStep(k - 1, spoken, w, v)
        BY <1>6, <3>1 DEF Bad
      <3>3. v[k].out = w[k - 1].out \o Block(spoken[k].from, spoken[k].to, "talking")
        BY <3>1, <3>2 DEF InStep
      <3>4. w[k] = Rested(w[k - 1], Gaps(spoken)[k])
        BY <1>1, <1>7, <2>2 DEF Rebuilds
      <3>5. Rebuilt(w[k - 1], k - 1, spoken)
        BY <1>5, <3>1
      <3>6. w[k].out = w[k - 1].out \o Block(spoken[k].from, spoken[k].to, "talking")
                                    \o Block(spoken[k].to, spoken[k + 1].from, "breath")
        BY <1>1, <1>3, <3>1, <3>4, <3>5, RestedIs
      <3>7. QED
        BY <1>12, <2>2, <3>3, <3>6
    <2>3. QED
      BY <2>1, <2>2
  <1>16. InStep(k, spoken, w, v)
    BY <1>14, <1>15 DEF InStep
  <1>17. QED
    BY <1>7, <1>16

LEMMA BarsAreOne ==
  ASSUME levels \in Seq(Loudness), Overrun \in Nat
  PROVE  SameBar
  <1> SUFFICES ASSUME NEW length \in Lengths,
                      Timing(Segments, length).heard, ~GapUnreported(Clip(Segments, length)),
                      Len(Clip(Segments, length)) = Len(Segments)
               PROVE  Blocks(Timing(Segments, length), length) = MinuteBlocks(Segments, length)
    BY Zenon DEF SameBar
  <1> DEFINE report == Timing(Segments, length)
             spoken == Clip(Segments, length)
             N == Len(spoken)
  <1>1. Len(levels) \in Nat /\ Spaced(Segments, Len(levels))
    BY SegmentsSound, SoundsAreSpaced, LenProperties DEF Segments
  <1>2. length \in Nat
    BY <1>1 DEF Lengths
  <1>3. Reported(Segments, length)
    BY DEF Reported
  <1>4. PICK w : /\ Rebuilds(w, N - 1, report)
                 /\ Blocks(report, length) = w[N - 1].out \o Block(spoken[N].from, spoken[N].to, "talking")
                                                          \o Block(spoken[N].to, length, "after")
    BY <1>1, <1>2, <1>3, ReportedBlocks
  <1>5. /\ Clipped(spoken, Segments, length) /\ spoken # <<>> /\ ~(~report.heard \/ length <= 0)
        /\ report.stall = spoken[1].from /\ report.pauses = Gaps(spoken)
        /\ N \in 1 .. N /\ N \in Nat
    BY <1>1, <1>2, <1>3, ReportedIs
  <1> HIDE DEF spoken, report
  <1>6. Len(Segments) = N /\ Len(Segments) \in Nat
    BY <1>5 DEF spoken
  <1>7. Segments # <<>>
    BY <1>5, <1>6
  <1>8. PICK v : /\ Draws(v, N, Segments, length)
                 /\ MinuteBlocks(Segments, length) = v[N].out \o Block(v[N].cursor, length, "after")
    <2>1. ~(Segments = <<>> \/ length <= 0)
      BY <1>5, <1>7
    <2>2. QED
      BY <1>6, <2>1, MinuteBlocksAre
  <1>9. \A k \in 0 .. N - 1 : InStep(k, spoken, w, v)
    <2>1. Draws(v, Len(Segments), Segments, length)
      BY <1>6, <1>8
    <2>2. /\ Len(levels) \in Nat /\ Spaced(Segments, Len(levels)) /\ length \in Nat
          /\ Clipped(spoken, Segments, length) /\ spoken # <<>> /\ Len(spoken) = Len(Segments)
          /\ report.stall = spoken[1].from /\ report.pauses = Gaps(spoken)
          /\ Rebuilds(w, Len(spoken) - 1, report)
      BY <1>1, <1>2, <1>4, <1>5, <1>6
    <2>3. BothWalk(Segments, length, spoken, report, w, v)
      BY <2>1, <2>2 DEF BothWalk
    <2>4. QED
      BY <2>3, BarsInStep
  <1>10. N - 1 \in 0 .. N - 1 /\ (N - 1) + 1 = N /\ N \in 0 .. N /\ N # 0
    BY <1>5
  <1>11. v[N].out = w[N - 1].out \o Block(spoken[N].from, spoken[N].to, "talking")
    BY <1>9, <1>10 DEF InStep
  <1>12. v[N].cursor = spoken[N].to
    <2>1. Drawn(v[N], N, Segments, length)
      BY <1>1, <1>2, <1>6, <1>8, <1>10, DrawsOn
    <2>2. v[N].cursor = Min({Segments[N].to, length})
      BY <1>10, <2>1 DEF Drawn, Ends
    <2>3. QED
      BY <1>5, <2>2 DEF Clipped
  <1>13. Blocks(report, length) = MinuteBlocks(Segments, length)
    BY <1>4, <1>8, <1>11, <1>12
  <1>14. QED
    BY <1>13 DEF report

-----------------------------------------------------------------------------
(* The sentence under the bar and the bands under it.                       *)

LEMMA VerdictIs ==
  ASSUME NEW key, NEW value \in Nat, NEW most \in Nat
  PROVE  Verdict(Band(key, value, <<0, most>>)) = IF value > most THEN "high" ELSE "good"
  <1> DEFINE b == Band(key, value, <<0, most>>)
  <1>1. b.value = value /\ b.good[1] = 0 /\ b.good[2] = most
    BY DEF Band
  <1> HIDE DEF b
  <1>2. Verdict(b) = IF value > most THEN "high" ELSE "good"
    BY <1>1 DEF Verdict
  <1>3. QED
    BY <1>2 DEF b

\* The longest pause is as long as any, and awkward whenever one is.
LEMMA LongestIs ==
  ASSUME NEW n \in Nat, NEW segments, Spaced(segments, n), NEW length \in Nat, Timing(segments, length).heard
  PROVE  LET report == Timing(segments, length)
         IN  /\ report.stall \in Nat /\ report.longest \in Nat /\ report.awkward \in Nat
             /\ report.awkward > 0 <=> report.longest >= Awkward
  <1> DEFINE report == Timing(segments, length)
             spoken == Clip(segments, length)
             pauses == Pauses(spoken)
             lasted == {p.seconds : p \in ToSet(pauses)}
             long == {i \in DOMAIN pauses : pauses[i].seconds >= Awkward}
  <1>1. /\ spoken # <<>> /\ report.stall = spoken[1].from
        /\ report.longest = Max({0} \cup lasted) /\ report.awkward = Cardinality(long)
    BY TimingIs
  <1>2. Spaced(spoken, length)
    BY ClipIs DEF Clipped
  <1> HIDE DEF report, spoken
  <1>3. pauses \in Seq(Rest)
    BY <1>1, <1>2, PausesAre
  <1>4. spoken[1].from \in Nat
    <2>1. spoken \in Seq(Segment)
      BY <1>2 DEF Spaced
    <2>2. 1 \in 1 .. Len(spoken)
      BY <1>1, <2>1, EmptySeq
    <2>3. QED
      BY <2>1, <2>2, SegmentIs
  <1> HIDE DEF pauses
  <1>5. DOMAIN pauses = 1 .. Len(pauses) /\ Len(pauses) \in Nat /\ IsFiniteSet(DOMAIN pauses)
    BY <1>3, LenProperties, FS_Interval
  <1>6. \A i \in DOMAIN pauses : pauses[i].seconds \in Nat
    <2>1. TAKE i \in DOMAIN pauses
    <2>2. pauses[i] \in Rest
      BY <1>3, <1>5, ElementOfSeq
    <2>3. QED
      BY <2>2 DEF Rest
  <1>7. lasted = {pauses[i].seconds : i \in DOMAIN pauses}
    BY Zenon DEF ToSet
  <1>8. IsFiniteSet(lasted)
    <2> DEFINE f == [i \in DOMAIN pauses |-> pauses[i].seconds]
    <2>1. f \in Surjection(DOMAIN pauses, lasted)
      BY <1>7 DEF Surjection
    <2>2. QED
      BY <1>5, <2>1, FS_Surjection
  <1> HIDE DEF lasted
  <1>9. /\ IsFiniteSet({0} \cup lasted) /\ {0} \cup lasted \in SUBSET Int /\ {0} \cup lasted \in SUBSET Nat
        /\ {0} \cup lasted # {}
    <2>1. IsFiniteSet(lasted \cup {0}) /\ lasted \cup {0} = {0} \cup lasted
      BY <1>8, FS_AddElement
    <2>2. lasted \in SUBSET Nat
      BY <1>6, <1>7
    <2>3. QED
      BY <2>1, <2>2
  <1>10. /\ report.longest \in {0} \cup lasted /\ report.longest \in Nat
         /\ \A y \in {0} \cup lasted : report.longest >= y
    <2>1. Max({0} \cup lasted) \in {0} \cup lasted /\ \A y \in {0} \cup lasted : Max({0} \cup lasted) >= y
      BY <1>9, MaxIs
    <2>2. QED
      BY <1>1, <1>9, <2>1
  <1>11. IsFiniteSet(long) /\ Cardinality(long) \in Nat /\ (Cardinality(long) = 0 <=> long = {})
    BY <1>5, FS_Subset, FS_CardinalityType, FS_EmptySet
  <1>12. Awkward \in Nat /\ Awkward > 0
    BY MinuteAssumption
  <1>13. long # {} <=> report.longest >= Awkward
    <2>1. ASSUME NEW i \in long PROVE report.longest >= Awkward
      <3>1. pauses[i].seconds \in lasted /\ pauses[i].seconds >= Awkward /\ pauses[i].seconds \in Nat
        BY <1>6, <1>7
      <3>2. report.longest >= pauses[i].seconds
        BY <1>10, <3>1
      <3>3. QED
        BY <1>10, <1>12, <3>1, <3>2
    <2>2. ASSUME report.longest >= Awkward PROVE long # {}
      <3>1. report.longest \in lasted
        BY <1>10, <1>12, <2>2
      <3>2. PICK i \in DOMAIN pauses : report.longest = pauses[i].seconds
        BY <1>7, <3>1
      <3>3. i \in long
        BY <2>2, <3>2
      <3>4. QED
        BY <3>3
    <2>3. QED
      BY <2>1, <2>2
  <1> HIDE DEF long
  <1>14. QED
    BY <1>1, <1>4, <1>10, <1>11, <1>13 DEF report

LEMMA HeadlinesAgree ==
  ASSUME levels \in Seq(Loudness), Overrun \in Nat, UmRates \subseteq Nat
  PROVE  HeadlineAgrees
  <1> SUFFICES ASSUME NEW length \in Lengths, NEW ums \in UmRates \cup {None}
               PROVE  LET report == Timing(Segments, length)
                          says   == Headline(report, ums)
                      IN  /\ says = "start" => Verdict(StartBand(report)) = "high"
                          /\ says = "gap" /\ report.longest # Awkward => Verdict(GapBand(report)) = "high"
                          /\ says = "ums" /\ ums # ManyUms => Verdict(UmsBand(ums)) = "high"
                          /\ says = "steady" => Verdict(GapBand(report)) = "good" /\ (ums = None \/ Verdict(UmsBand(ums)) = "good")
    BY DEF HeadlineAgrees
  <1> DEFINE report == Timing(Segments, length)
             says == Headline(report, ums)
  <1>1. Len(levels) \in Nat /\ Spaced(Segments, Len(levels))
    BY SegmentsSound, SoundsAreSpaced, LenProperties DEF Segments
  <1>2. length \in Nat
    BY <1>1 DEF Lengths
  <1>3. report.heard =>
          /\ report.stall \in Nat /\ report.longest \in Nat /\ report.awkward \in Nat
          /\ report.awkward > 0 <=> report.longest >= Awkward
    BY <1>1, <1>2, LongestIs
  <1> HIDE DEF report
  <1>4. /\ GoodStart \in Nat /\ Awkward \in Nat /\ ManyUms \in Nat /\ LongStart \in Nat /\ LongGap \in Nat
        /\ LongStart > GoodStart /\ LongGap > Awkward
    BY MinuteAssumption
  <1>5. CASE ~report.heard
    <2>1. says = "unheard"
      BY <1>5 DEF Headline
    <2> HIDE DEF says
    <2>2. QED
      BY <2>1 DEF says, report
  <1>6. CASE report.heard
    <2>1. Verdict(StartBand(report)) = IF report.stall > GoodStart THEN "high" ELSE "good"
      BY <1>3, <1>4, <1>6, VerdictIs DEF StartBand
    <2>2. Verdict(GapBand(report)) = IF report.longest > Awkward THEN "high" ELSE "good"
      BY <1>3, <1>4, <1>6, VerdictIs DEF GapBand
    <2>3. ums # None => ums \in Nat /\ Verdict(UmsBand(ums)) = IF ums > ManyUms THEN "high" ELSE "good"
      BY <1>4, VerdictIs DEF UmsBand
    <2>4. says = "start" => report.stall >= LongStart
      BY <1>6 DEF Headline
    <2>5. says = "gap" => report.longest >= LongGap \/ report.awkward > 0
      BY <1>6 DEF Headline
    <2>6. says = "ums" => ums # None /\ ums >= ManyUms
      BY <1>6 DEF Headline
    <2>7. says = "steady" => ~(report.awkward > 0) /\ ~(ums # None /\ ums >= ManyUms)
      BY <1>6 DEF Headline
    <2> HIDE DEF says
    <2>8. says = "start" => Verdict(StartBand(report)) = "high"
      BY <1>3, <1>4, <1>6, <2>1, <2>4
    <2>9. says = "gap" /\ report.longest # Awkward => Verdict(GapBand(report)) = "high"
      BY <1>3, <1>4, <1>6, <2>2, <2>5
    <2>10. says = "ums" /\ ums # ManyUms => Verdict(UmsBand(ums)) = "high"
      BY <1>4, <2>3, <2>6
    <2>11. says = "steady" => Verdict(GapBand(report)) = "good" /\ (ums = None \/ Verdict(UmsBand(ums)) = "good")
      <3> SUFFICES ASSUME says = "steady"
                   PROVE  Verdict(GapBand(report)) = "good" /\ (ums = None \/ Verdict(UmsBand(ums)) = "good")
        OBVIOUS
      <3>1. ~(report.longest > Awkward)
        BY <1>3, <1>4, <1>6, <2>7
      <3>2. ums # None => ~(ums > ManyUms)
        BY <1>4, <2>3, <2>7
      <3>3. QED
        BY <2>2, <2>3, <3>1, <3>2
    <2>12. QED
      BY <2>8, <2>9, <2>10, <2>11 DEF says, report
  <1>7. QED
    BY <1>5, <1>6

-----------------------------------------------------------------------------
(* The theorem.                                                             *)

Levelled == levels \in Seq(Loudness)

LEMMA InsightStep == Levelled /\ [InsightNext]_insightVars => Levelled'
  <1> SUFFICES ASSUME levels \in Seq(Loudness), [InsightNext]_insightVars PROVE levels' \in Seq(Loudness)
    BY DEF Levelled
  <1>1. CASE Hear
    <2>1. PICK l \in Loudness : levels' = Append(levels, l)
      BY <1>1 DEF Hear
    <2>2. QED
      BY <2>1, AppendProperties
  <1>2. CASE Utter \/ Say \/ NextRound \/ Midnight \/ UNCHANGED insightVars
    <2>1. levels' = levels
      BY <1>2 DEF Utter, Say, NextRound, Midnight, insightVars
    <2>2. QED
      BY <2>1
  <1>3. QED
    BY <1>1, <1>2 DEF InsightNext

LEMMA MinuteHolds == Levelled => MinuteReadBack
  <1> SUFFICES ASSUME levels \in Seq(Loudness) PROVE MinuteReadBack
    BY DEF Levelled
  <1>1. Overrun \in Nat /\ UmRates \subseteq Nat
    BY InsightsAssumption
  <1>2. QED
    BY <1>1, StretchesApart, BarsWithinRound, WarningsAreVerdicts, WavesAreToScale, EveryWordDrawn, BarsAreOne,
       HeadlinesAgree DEF MinuteReadBack, BarIsTheMinute

(* Of a minute of any frames the bar and the wave are of one timeline on    *)
(* either page, where no gap was too short to be reported, and what the     *)
(* sentence calls out the bands do too, their common edges left out. Of the *)
(* start and the pace of a minute called steady it says nothing.            *)
THEOREM MinuteReadsBack == InsightSpec => []MinuteReadBack
  <1>1. InsightInit => Levelled
    BY EmptySeq DEF InsightInit, Levelled
  <1>2. QED
    BY <1>1, InsightStep, MinuteHolds, PTL DEF InsightSpec
=============================================================================
