-------------------------------- MODULE Sums --------------------------------
(***************************************************************************)
(* What the library's sum of a function over a finite set comes to, of use *)
(* to every proof about what was charged, counted or earned.  The library  *)
(* defines it by recursion on subsets; here it is shown that the recursion *)
(* has a solution and that the order it takes the elements in is of no     *)
(* matter, both by looking at a smallest set that would say otherwise.     *)
(***************************************************************************)
EXTENDS Integers, FiniteSets, Functions, FiniteSetTheorems, WellFoundedInduction, TLAPS

Chosen(s) == CHOOSE x \in s : TRUE

\* g adds f up over the members of T, a set closed under taking out a member.
Adds(g, f, T) ==
    g = [s \in T |-> IF s = {} THEN 0 ELSE f[Chosen(s)] + g[s \ {Chosen(s)}]]

UpTo(S, n) == {s \in SUBSET S : Cardinality(s) <= n}

(* Of numbers some of which are in a set, one is the least.                *)
LEMMA LeastNat ==
  ASSUME NEW T \in SUBSET Nat, T # {}
  PROVE  \E n \in T : \A m \in T : n <= m
  <1>1. PICK n \in T : \A m \in T : ~(<<m, n>> \in OpToRel(<, Nat))
    BY NatLessThanWellFounded, WFMin
  <1>2. \A m \in T : ~(m < n)
    BY <1>1 DEF OpToRel
  <1>3. QED
    BY <1>2

LEMMA ChosenIsIn == \A s : s # {} => Chosen(s) \in s
  BY DEF Chosen

LEMMA SmallerSets ==
  ASSUME NEW S, IsFiniteSet(S), NEW n \in Nat, NEW s \in UpTo(S, n + 1), s # {}
  PROVE  s \ {Chosen(s)} \in UpTo(S, n)
  <1>1. IsFiniteSet(s)
    BY FS_Subset DEF UpTo
  <1>2. Cardinality(s \ {Chosen(s)}) = Cardinality(s) - 1 /\ Cardinality(s) \in Nat
    BY <1>1, ChosenIsIn, FS_RemoveElement, FS_CardinalityType
  <1>3. QED
    BY <1>2 DEF UpTo

LEMMA AddsUpTo ==
  ASSUME NEW f, NEW S, IsFiniteSet(S), NEW n \in Nat
  PROVE  \E g : Adds(g, f, UpTo(S, n))
  <1> DEFINE Bad == {k \in Nat : ~\E g : Adds(g, f, UpTo(S, k))}
  <1> SUFFICES ASSUME Bad # {} PROVE FALSE
    OBVIOUS
  <1>1. PICK k \in Bad : \A m \in Bad : k <= m
    BY LeastNat
  <1>2. CASE k = 0
    <2>1. \A s \in UpTo(S, 0) : s = {}
      BY FS_Subset, FS_CardinalityType, FS_EmptySet DEF UpTo
    <2> DEFINE g == [s \in UpTo(S, 0) |-> 0]
    <2>2. Adds(g, f, UpTo(S, 0))
      BY <2>1 DEF Adds
    <2>3. QED
      BY <1>1, <1>2, <2>2
  <1>3. CASE k # 0
    <2>1. k - 1 \in Nat /\ k - 1 \notin Bad
      BY <1>1, <1>3
    <2>2. PICK g : Adds(g, f, UpTo(S, k - 1))
      BY <2>1
    <2> DEFINE h == [s \in UpTo(S, k) |-> IF s = {} THEN 0 ELSE f[Chosen(s)] + g[s \ {Chosen(s)}]]
    <2>3. ASSUME NEW s \in UpTo(S, k), s # {}
          PROVE  h[s \ {Chosen(s)}] = g[s \ {Chosen(s)}]
      <3>1. s \ {Chosen(s)} \in UpTo(S, k - 1)
        BY <2>1, <2>3, SmallerSets
      <3>2. s \ {Chosen(s)} \in UpTo(S, k)
        BY <2>1, <3>1, FS_Subset, FS_CardinalityType DEF UpTo
      <3>3. QED
        BY <2>2, <3>1, <3>2 DEF Adds
    <2>4. Adds(h, f, UpTo(S, k))
      BY <2>3, Zenon DEF Adds
    <2>5. QED
      BY <1>1, <2>4
  <1>4. QED
    BY <1>2, <1>3

(* The library's sum is what some such g says.                             *)
LEMMA SumIsAdded ==
  ASSUME NEW f, NEW S, IsFiniteSet(S)
  PROVE  \E g : Adds(g, f, SUBSET S) /\ SumFunctionOnSet(f, S) = g[S]
  <1>1. SUBSET S = UpTo(S, Cardinality(S)) /\ Cardinality(S) \in Nat
    BY FS_Subset, FS_CardinalityType DEF UpTo
  <1>2. \E g : Adds(g, f, SUBSET S)
    <2>1. \E g : Adds(g, f, UpTo(S, Cardinality(S)))
      BY <1>1, AddsUpTo
    <2>2. QED
      BY <1>1, <2>1
  <1> DEFINE h == CHOOSE g : Adds(g, f, SUBSET S)
  <1>3. Adds(h, f, SUBSET S)
    BY <1>2, Zenon
  <1>4. SumFunctionOnSet(f, S) = h[S]
    BY Zenon DEF SumFunctionOnSet, FoldFunctionOnSet, MapThenFoldSet, Adds, Chosen
  <1>5. QED
    BY <1>3, <1>4

(* Solutions on two sets say the same of what they share.                  *)
LEMMA AddsAgree ==
  ASSUME NEW f, NEW R, IsFiniteSet(R), NEW S \in SUBSET R, NEW g, NEW h,
         Adds(g, f, SUBSET S), Adds(h, f, SUBSET R)
  PROVE  \A s \in SUBSET S : g[s] = h[s]
  <1> DEFINE Bad == {n \in Nat : \E s \in SUBSET S : Cardinality(s) = n /\ g[s] # h[s]}
  <1>0. \A s \in SUBSET S : IsFiniteSet(s) /\ Cardinality(s) \in Nat
    BY FS_Subset, FS_CardinalityType
  <1> SUFFICES ASSUME Bad # {} PROVE FALSE
    BY <1>0
  <1>1. PICK n \in Bad : \A m \in Bad : n <= m
    BY LeastNat
  <1>2. PICK s \in SUBSET S : Cardinality(s) = n /\ g[s] # h[s]
    BY <1>1
  <1>3. s # {}
    BY <1>2 DEF Adds
  <1> DEFINE t == s \ {Chosen(s)}
  <1>4. t \in SUBSET S /\ Cardinality(t) \in Nat /\ Cardinality(t) = n - 1
    BY <1>0, <1>2, <1>3, ChosenIsIn, FS_RemoveElement
  <1>5. g[t] = h[t]
    BY <1>1, <1>4
  <1>6. g[s] = f[Chosen(s)] + g[t] /\ h[s] = f[Chosen(s)] + h[t]
    BY <1>3, Zenon DEF Adds
  <1>7. QED
    BY <1>2, <1>5, <1>6

LEMMA SumOfNone == ASSUME NEW f PROVE SumFunctionOnSet(f, {}) = 0
  <1>1. PICK g : Adds(g, f, SUBSET {}) /\ SumFunctionOnSet(f, {}) = g[{}]
    BY SumIsAdded, FS_EmptySet
  <1>2. QED
    BY <1>1 DEF Adds

LEMMA SumTakesChosen ==
  ASSUME NEW f, NEW S, IsFiniteSet(S), S # {}
  PROVE  SumFunctionOnSet(f, S) = f[Chosen(S)] + SumFunctionOnSet(f, S \ {Chosen(S)})
  <1> DEFINE T == S \ {Chosen(S)}
  <1>1. IsFiniteSet(T) /\ T \in SUBSET S
    BY FS_Subset
  <1>2. PICK g : Adds(g, f, SUBSET S) /\ SumFunctionOnSet(f, S) = g[S]
    BY SumIsAdded
  <1>3. PICK h : Adds(h, f, SUBSET T) /\ SumFunctionOnSet(f, T) = h[T]
    BY <1>1, SumIsAdded
  <1>4. h[T] = g[T]
    <2>1. \A G, H : Adds(G, f, SUBSET T) /\ Adds(H, f, SUBSET S) => G[T] = H[T]
      <3> HIDE DEF T
      <3>1. \A G, H : Adds(G, f, SUBSET T) /\ Adds(H, f, SUBSET S) => \A s \in SUBSET T : G[s] = H[s]
        BY <1>1, AddsAgree
      <3>2. QED
        BY <3>1
    <2>2. QED
      BY <1>2, <1>3, <2>1
  <1>5. g[S] = f[Chosen(S)] + g[T]
    BY <1>2, Zenon DEF Adds
  <1>6. QED
    BY <1>2, <1>3, <1>4, <1>5

(* What a sum of whole numbers is.                                         *)
LEMMA SumIsNat ==
  ASSUME NEW f, NEW S, IsFiniteSet(S), \A x \in S : f[x] \in Nat
  PROVE  SumFunctionOnSet(f, S) \in Nat
  <1> DEFINE Bad == {n \in Nat : \E s \in SUBSET S : Cardinality(s) = n /\ SumFunctionOnSet(f, s) \notin Nat}
  <1>0. \A s \in SUBSET S : IsFiniteSet(s) /\ Cardinality(s) \in Nat
    BY FS_Subset, FS_CardinalityType
  <1> SUFFICES ASSUME Bad # {} PROVE FALSE
    BY <1>0
  <1>1. PICK n \in Bad : \A m \in Bad : n <= m
    BY LeastNat
  <1>2. PICK s \in SUBSET S : Cardinality(s) = n /\ SumFunctionOnSet(f, s) \notin Nat
    BY <1>1
  <1>3. s # {}
    BY <1>2, SumOfNone
  <1> DEFINE t == s \ {Chosen(s)}
  <1>4. t \in SUBSET S /\ Cardinality(t) \in Nat /\ Cardinality(t) = n - 1
    BY <1>0, <1>2, <1>3, ChosenIsIn, FS_RemoveElement
  <1>5. SumFunctionOnSet(f, t) \in Nat
    BY <1>1, <1>4
  <1>6. SumFunctionOnSet(f, s) = f[Chosen(s)] + SumFunctionOnSet(f, t)
    BY <1>0, <1>3, SumTakesChosen
  <1>7. f[Chosen(s)] \in Nat
    BY <1>3, ChosenIsIn
  <1>8. QED
    BY <1>2, <1>5, <1>6, <1>7

(* The order elements are added in does not matter.                        *)
LEMMA SumTakesAny ==
  ASSUME NEW f, NEW S, IsFiniteSet(S), \A x \in S : f[x] \in Nat, NEW a \in S
  PROVE  SumFunctionOnSet(f, S) = f[a] + SumFunctionOnSet(f, S \ {a})
  <1> DEFINE Odd(s) == \E b \in s : SumFunctionOnSet(f, s) # f[b] + SumFunctionOnSet(f, s \ {b})
             Bad == {n \in Nat : \E s \in SUBSET S : Cardinality(s) = n /\ Odd(s)}
  <1>0. \A s \in SUBSET S : IsFiniteSet(s) /\ Cardinality(s) \in Nat /\ SumFunctionOnSet(f, s) \in Nat
    BY FS_Subset, FS_CardinalityType, SumIsNat
  <1> SUFFICES ASSUME Bad # {} PROVE FALSE
    BY <1>0
  <1>1. PICK n \in Bad : \A m \in Bad : n <= m
    BY LeastNat
  <1>2. PICK s \in SUBSET S : Cardinality(s) = n /\ Odd(s)
    BY <1>1
  <1>3. PICK b \in s : SumFunctionOnSet(f, s) # f[b] + SumFunctionOnSet(f, s \ {b})
    BY <1>2
  <1> DEFINE c == Chosen(s)
             t == s \ {c}
             u == s \ {b}
  <1>4. c \in s /\ SumFunctionOnSet(f, s) = f[c] + SumFunctionOnSet(f, t)
    BY <1>0, <1>3, ChosenIsIn, SumTakesChosen
  <1>5. b # c
    BY <1>3, <1>4
  <1>6. /\ t \in SUBSET S /\ Cardinality(t) \in Nat /\ Cardinality(t) = n - 1
        /\ u \in SUBSET S /\ Cardinality(u) \in Nat /\ Cardinality(u) = n - 1
    BY <1>0, <1>2, <1>4, FS_RemoveElement
  <1>7. ~Odd(t) /\ ~Odd(u)
    <2>1. n - 1 \in Nat /\ n - 1 \notin Bad
      BY <1>1, <1>6
    <2> HIDE DEF Odd, t, u
    <2>2. QED
      BY <1>6, <2>1
  <1>8. SumFunctionOnSet(f, t) = f[b] + SumFunctionOnSet(f, t \ {b})
    BY <1>5, <1>7
  <1>9. SumFunctionOnSet(f, u) = f[c] + SumFunctionOnSet(f, u \ {c})
    BY <1>4, <1>5, <1>7
  <1>10. t \ {b} = u \ {c} /\ SumFunctionOnSet(f, t \ {b}) \in Nat /\ f[b] \in Nat /\ f[c] \in Nat
    BY <1>0, <1>4
  <1>11. SumFunctionOnSet(f, t \ {b}) = SumFunctionOnSet(f, u \ {c})
    BY <1>10
  <1> HIDE DEF t, u, c
  <1>12. QED
    BY <1>3, <1>4, <1>8, <1>9, <1>10, <1>11 DEF u

LEMMA SumWithOneMore ==
  ASSUME NEW f, NEW S, IsFiniteSet(S), NEW a, a \notin S, \A x \in S \cup {a} : f[x] \in Nat
  PROVE  SumFunctionOnSet(f, S \cup {a}) = f[a] + SumFunctionOnSet(f, S)
  <1>1. IsFiniteSet(S \cup {a}) /\ (S \cup {a}) \ {a} = S
    BY FS_AddElement
  <1>2. QED
    BY <1>1, SumTakesAny

(* Functions that agree on a set have one sum there.                       *)
LEMMA SumOfTheSame ==
  ASSUME NEW f, NEW g, NEW S, IsFiniteSet(S), \A x \in S : f[x] = g[x]
  PROVE  SumFunctionOnSet(f, S) = SumFunctionOnSet(g, S)
  <1> DEFINE Bad == {n \in Nat : \E s \in SUBSET S :
                       Cardinality(s) = n /\ SumFunctionOnSet(f, s) # SumFunctionOnSet(g, s)}
  <1>0. \A s \in SUBSET S : IsFiniteSet(s) /\ Cardinality(s) \in Nat
    BY FS_Subset, FS_CardinalityType
  <1> SUFFICES ASSUME Bad # {} PROVE FALSE
    BY <1>0
  <1>1. PICK n \in Bad : \A m \in Bad : n <= m
    BY LeastNat
  <1>2. PICK s \in SUBSET S : Cardinality(s) = n /\ SumFunctionOnSet(f, s) # SumFunctionOnSet(g, s)
    BY <1>1
  <1>3. s # {}
    BY <1>2, SumOfNone
  <1> DEFINE t == s \ {Chosen(s)}
  <1>4. t \in SUBSET S /\ Cardinality(t) \in Nat /\ Cardinality(t) = n - 1
    BY <1>0, <1>2, <1>3, ChosenIsIn, FS_RemoveElement
  <1>5. SumFunctionOnSet(f, t) = SumFunctionOnSet(g, t)
    BY <1>1, <1>4
  <1>6. /\ SumFunctionOnSet(f, s) = f[Chosen(s)] + SumFunctionOnSet(f, t)
        /\ SumFunctionOnSet(g, s) = g[Chosen(s)] + SumFunctionOnSet(g, t)
    BY <1>0, <1>3, SumTakesChosen
  <1>7. f[Chosen(s)] = g[Chosen(s)]
    BY <1>3, ChosenIsIn
  <1>8. QED
    BY <1>2, <1>5, <1>6, <1>7

(* A part sums up to no more than the whole.                               *)
LEMMA SumOfPart ==
  ASSUME NEW f, NEW S, IsFiniteSet(S), \A x \in S : f[x] \in Nat, NEW T \in SUBSET S
  PROVE  SumFunctionOnSet(f, T) <= SumFunctionOnSet(f, S)
  <1> DEFINE Less(s) == T \subseteq s /\ ~(SumFunctionOnSet(f, T) <= SumFunctionOnSet(f, s))
             Bad == {n \in Nat : \E s \in SUBSET S : Cardinality(s) = n /\ Less(s)}
  <1>0. \A s \in SUBSET S : IsFiniteSet(s) /\ Cardinality(s) \in Nat /\ SumFunctionOnSet(f, s) \in Nat
    BY FS_Subset, FS_CardinalityType, SumIsNat
  <1> SUFFICES ASSUME Bad # {} PROVE FALSE
    BY <1>0
  <1>1. PICK n \in Bad : \A m \in Bad : n <= m
    BY LeastNat
  <1>2. PICK s \in SUBSET S : Cardinality(s) = n /\ Less(s)
    BY <1>1
  <1>3. PICK a \in s : a \notin T
    BY <1>0, <1>2
  <1> DEFINE t == s \ {a}
  <1>4. t \in SUBSET S /\ Cardinality(t) \in Nat /\ Cardinality(t) = n - 1
    BY <1>0, <1>2, FS_RemoveElement
  <1>5. ~Less(t) /\ T \subseteq t
    BY <1>1, <1>2, <1>3, <1>4
  <1>6. SumFunctionOnSet(f, s) = f[a] + SumFunctionOnSet(f, t)
    BY <1>0, SumTakesAny
  <1>7. f[a] \in Nat /\ SumFunctionOnSet(f, t) \in Nat /\ SumFunctionOnSet(f, T) \in Nat
    BY <1>0, <1>4
  <1>8. QED
    BY <1>2, <1>5, <1>6, <1>7

(* What adds nothing may be left out.                                      *)
LEMMA SumCovered ==
  ASSUME NEW f, NEW R, IsFiniteSet(R), \A x \in R : f[x] \in Nat,
         NEW S \in SUBSET R, NEW T \in SUBSET R, \A x \in T : x \in S \/ f[x] = 0
  PROVE  SumFunctionOnSet(f, T) <= SumFunctionOnSet(f, S)
  <1> DEFINE More(s) == ~(SumFunctionOnSet(f, s) <= SumFunctionOnSet(f, S))
             Bad == {n \in Nat : \E s \in SUBSET T : Cardinality(s) = n /\ More(s)}
  <1>0. \A s \in SUBSET R : IsFiniteSet(s) /\ Cardinality(s) \in Nat /\ SumFunctionOnSet(f, s) \in Nat
    BY FS_Subset, FS_CardinalityType, SumIsNat
  <1> SUFFICES ASSUME Bad # {} PROVE FALSE
    BY <1>0
  <1>1. PICK n \in Bad : \A m \in Bad : n <= m
    BY LeastNat
  <1>2. PICK s \in SUBSET T : Cardinality(s) = n /\ More(s)
    BY <1>1
  <1>3. s \in SUBSET R
    OBVIOUS
  <1>4. PICK a \in s : a \notin S
    BY <1>0, <1>2, <1>3, SumOfPart
  <1> DEFINE t == s \ {a}
  <1>5. t \in SUBSET T /\ t \in SUBSET R /\ Cardinality(t) \in Nat /\ Cardinality(t) = n - 1
    BY <1>0, <1>2, <1>3, FS_RemoveElement
  <1>6. ~More(t)
    <2>1. n - 1 \in Nat /\ n - 1 \notin Bad
      BY <1>1, <1>5
    <2> HIDE DEF More, t
    <2>2. QED
      BY <1>5, <2>1
  <1>7. SumFunctionOnSet(f, s) = f[a] + SumFunctionOnSet(f, t) /\ f[a] = 0
    BY <1>0, <1>3, <1>4, SumTakesAny
  <1>8. SumFunctionOnSet(f, t) \in Nat /\ SumFunctionOnSet(f, S) \in Nat
    BY <1>0, <1>5
  <1>9. QED
    BY <1>2, <1>6, <1>7, <1>8
=============================================================================
