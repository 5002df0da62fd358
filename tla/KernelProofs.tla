---------------------------- MODULE KernelProofs ----------------------------
(***************************************************************************)
(* What the kernel's accounts promise, for any workloads, rates, periods   *)
(* and confirmations: no hour is billed twice or lost, a confirmation      *)
(* cannot hide what was metered, and a resized application is left alone.  *)
(***************************************************************************)
EXTENDS Kernel, FiniteSetTheorems, WellFoundedInduction, TLAPS

-----------------------------------------------------------------------------
(* Finite sets *)

Less == {ss \in Nat \X Nat : ss[1] < ss[2]}

\* A non-empty set of naturals has a least element.
LEMMA LeastNat ==
    ASSUME NEW T, T \subseteq Nat, T # {}
    PROVE  \E x \in T : \A y \in T : x <= y
<1>1. IsWellFoundedOn(Less, Nat)
  BY NatLessThanWellFounded DEF OpToRel, Less
<1>2. \E x \in T : \A y \in T : ~(<<y, x>> \in Less)
  BY <1>1, WFMin
<1>3. PICK x \in T : \A y \in T : ~(<<y, x>> \in Less)
  BY <1>2
<1>4. ASSUME NEW y \in T PROVE x <= y
  <2>1. x \in Nat /\ y \in Nat
    OBVIOUS
  <2>2. y < x => <<y, x>> \in Less
    BY <2>1 DEF Less
  <2>3. <<y, x>> \notin Less
    BY <1>3
  <2> QED BY <2>1, <2>2, <2>3
<1> QED BY <1>4

\* Among some subsets of a finite set there is one that no longer is one of
\* them once an element is taken away: induction over finite sets.
LEMMA MinimalSubset ==
    ASSUME NEW S, IsFiniteSet(S), NEW B, B \subseteq SUBSET S, B # {}
    PROVE  \E s \in B : IsFiniteSet(s) /\ \A x \in s : s \ {x} \notin B
<1> DEFINE T == {Cardinality(s) : s \in B}
<1>1. \A s \in B : IsFiniteSet(s) /\ Cardinality(s) \in Nat
  BY FS_Subset, FS_CardinalityType
<1>2. T \subseteq Nat /\ T # {}
  BY <1>1
<1>3. PICK n \in T : \A m \in T : n <= m
  BY <1>2, LeastNat
<1>4. PICK s \in B : n = Cardinality(s)
  BY <1>3
<1>5. ASSUME NEW x \in s, s \ {x} \in B PROVE FALSE
  <2>1. Cardinality(s \ {x}) = Cardinality(s) - 1
    BY <1>1, FS_RemoveElement
  <2>2. Cardinality(s \ {x}) \in T
    BY <1>5
  <2>3. n <= Cardinality(s \ {x}) /\ n \in Nat
    BY <1>2, <1>3, <2>2
  <2> QED BY ONLY <1>4, <2>1, <2>3
<1> QED BY <1>1, <1>4, <1>5

\* A finite set of integers has a greatest element, and Max is it.
LEMMA MaxOfFinite ==
    ASSUME NEW S, IsFiniteSet(S), S # {}, S \subseteq Int
    PROVE  Max(S) \in S /\ \A y \in S : Max(S) >= y
<1> DEFINE HasMax(s) == \E x \in s : \A y \in s : x >= y
           B == {s \in SUBSET S : s # {} /\ ~HasMax(s)}
<1>1. B = {}
  <2> SUFFICES ASSUME B # {} PROVE FALSE
    OBVIOUS
  <2>0. B \subseteq SUBSET S
    OBVIOUS
  <2>1. PICK s \in B : \A x \in s : s \ {x} \notin B
    <3> HIDE DEF B
    <3> QED BY <2>0, MinimalSubset
  <2>2. PICK x \in s : TRUE
    BY <2>1
  <2>3. CASE s \ {x} = {}
    BY <2>1, <2>2, <2>3
  <2>4. CASE s \ {x} # {}
    <3>1. HasMax(s \ {x})
      BY <2>1, <2>2, <2>4
    <3>2. PICK m \in s \ {x} : \A y \in s \ {x} : m >= y
      BY <3>1
    <3>3. m \in Int /\ x \in Int /\ \A y \in s : y \in Int
      OBVIOUS
    <3>4. CASE m >= x
      BY <3>2, <3>3, <3>4
    <3>5. CASE x > m
      BY <3>2, <3>3, <3>5
    <3> QED BY <3>3, <3>4, <3>5
  <2> QED BY <2>3, <2>4
<1>2. HasMax(S)
  BY <1>1
<1> QED BY <1>2 DEF Max

\* The image of a finite set under a function is finite.
LEMMA ImageFinite ==
    ASSUME NEW S, IsFiniteSet(S), NEW f, f = [x \in S |-> f[x]]
    PROVE  IsFiniteSet({f[x] : x \in S})
<1> DEFINE T == {f[x] : x \in S}
<1>1. f \in [S -> T]
  OBVIOUS
<1>2. \A t \in T : \E x \in S : f[x] = t
  OBVIOUS
<1>3. f \in Surjection(S, T)
  BY <1>1, <1>2 DEF Surjection
<1> QED BY <1>3, FS_Surjection

-----------------------------------------------------------------------------
(* Sums over finite sets *)

Pick(s) == CHOOSE y \in s : TRUE

\* h is what the library's fold iterates over the subsets of S.
Iterates(h, f, S) ==
    h = [s \in SUBSET S |-> IF s = {} THEN 0 ELSE f[Pick(s)] + h[s \ {Pick(s)}]]

\* The same, of the subsets of at most n elements.
IteratesTo(h, f, S, n) ==
    /\ h = [s \in SUBSET S |-> h[s]]
    /\ \A s \in SUBSET S : Cardinality(s) <= n =>
          h[s] = IF s = {} THEN 0 ELSE f[Pick(s)] + h[s \ {Pick(s)}]

\* The iteration is defined for every bound on the subsets' size.
LEMMA IterationTo ==
    ASSUME NEW S, IsFiniteSet(S), NEW f
    PROVE  \A n \in Nat : \E h : IteratesTo(h, f, S, n)
<1> DEFINE B == {n \in Nat : ~\E h : IteratesTo(h, f, S, n)}
<1> SUFFICES ASSUME B # {} PROVE FALSE
  OBVIOUS
<1>0. \A s \in SUBSET S : IsFiniteSet(s) /\ Cardinality(s) \in Nat /\ (Cardinality(s) = 0 <=> s = {})
  BY FS_Subset, FS_CardinalityType, FS_EmptySet
<1>1. PICK n \in B : \A m \in B : n <= m
  BY LeastNat
<1>2. CASE n = 0
  <2>1. IteratesTo([s \in SUBSET S |-> 0], f, S, 0)
    BY <1>0 DEF IteratesTo
  <2> QED BY <1>1, <1>2, <2>1
<1>3. CASE n # 0
  <2>1. n - 1 \in Nat /\ n - 1 \notin B /\ n \in Nat
    BY <1>1, <1>3
  <2>2. PICK h : IteratesTo(h, f, S, n - 1)
    BY <2>1
  <2> DEFINE g == [s \in SUBSET S |->
                     IF Cardinality(s) = n THEN f[Pick(s)] + h[s \ {Pick(s)}] ELSE h[s]]
  <2>3. ASSUME NEW s \in SUBSET S, Cardinality(s) <= n
        PROVE  g[s] = IF s = {} THEN 0 ELSE f[Pick(s)] + g[s \ {Pick(s)}]
    <3>1. CASE s = {}
      <4>1. Cardinality(s) = 0
        BY <1>0, <3>1
      <4>2. g[s] = h[s]
        BY <4>1, <1>3
      <4>3. Cardinality(s) <= n - 1
        BY <2>1, <4>1
      <4>4. h[s] = 0
        BY <2>2, <3>1, <4>3 DEF IteratesTo
      <4> QED BY <3>1, <4>2, <4>4
    <3>2. CASE s # {}
      <4>1. Pick(s) \in s
        BY <3>2 DEF Pick
      <4>2. s \ {Pick(s)} \in SUBSET S /\ Cardinality(s \ {Pick(s)}) = Cardinality(s) - 1
        BY <1>0, <4>1, FS_RemoveElement
      <4>3. Cardinality(s \ {Pick(s)}) # n
        BY <1>0, <2>1, <2>3, <4>2
      <4>4. g[s \ {Pick(s)}] = h[s \ {Pick(s)}]
        BY <4>2, <4>3
      <4>5. CASE Cardinality(s) = n
        BY <3>2, <4>4, <4>5
      <4>6. CASE Cardinality(s) # n
        <5>1. Cardinality(s) <= n - 1
          BY <1>0, <2>1, <2>3, <4>6
        <5>2. h[s] = f[Pick(s)] + h[s \ {Pick(s)}]
          BY <2>2, <3>2, <5>1 DEF IteratesTo
        <5> QED BY <3>2, <4>4, <4>6, <5>2
      <4> QED BY <4>5, <4>6
    <3> QED BY <3>1, <3>2
  <2>4. g = [s \in SUBSET S |-> g[s]]
    OBVIOUS
  <2>5. IteratesTo(g, f, S, n)
    <3> HIDE DEF g
    <3> QED BY <2>3, <2>4 DEF IteratesTo
  <2>6. \E h_1 : IteratesTo(h_1, f, S, n)
    BY <2>5
  <2> QED BY <1>1, <2>6
<1> QED BY <1>2, <1>3

\* The library's sum over a finite set is the iteration's last value.
LEMMA SumIterates ==
    ASSUME NEW S, IsFiniteSet(S), NEW f
    PROVE  \E h : Iterates(h, f, S) /\ SumFunctionOnSet(f, S) = h[S]
<1>1. Cardinality(S) \in Nat
  BY FS_CardinalityType
<1>2. PICK g : IteratesTo(g, f, S, Cardinality(S))
  BY <1>1, IterationTo
<1>3. \A s \in SUBSET S : Cardinality(s) <= Cardinality(S)
  BY FS_Subset
<1>4. \A s \in SUBSET S : g[s] = IF s = {} THEN 0 ELSE f[Pick(s)] + g[s \ {Pick(s)}]
  BY <1>2, <1>3 DEF IteratesTo
<1>5. g = [s \in SUBSET S |-> g[s]]
  BY <1>2 DEF IteratesTo
<1>6. g = [s \in SUBSET S |-> IF s = {} THEN 0 ELSE f[Pick(s)] + g[s \ {Pick(s)}]]
  BY ONLY <1>4, <1>5, Zenon
<1>7. g = [s \in SUBSET S |-> IF s = {} THEN 0 ELSE LET x == CHOOSE y \in s : TRUE IN f[x] + g[s \ {x}]]
  BY ONLY <1>6, Zenon DEF Pick
<1>8. \E h : /\ h = [s \in SUBSET S |-> IF s = {} THEN 0
                       ELSE LET x == CHOOSE y \in s : TRUE IN f[x] + h[s \ {x}]]
             /\ SumFunctionOnSet(f, S) = h[S]
  BY ONLY <1>7, Zenon DEF SumFunctionOnSet, FoldFunctionOnSet, MapThenFoldSet
<1> QED BY <1>8, Zenon DEF Iterates, Pick

\* Iterations over two sets agree on the subsets of both.
LEMMA IterationsAgree ==
    ASSUME NEW S, IsFiniteSet(S), NEW T, T \subseteq S, NEW f, NEW g, NEW h,
           Iterates(g, f, S), Iterates(h, f, T)
    PROVE  h[T] = g[T]
<1> DEFINE B == {s \in SUBSET T : h[s] # g[s]}
<1>1. B = {}
  <2> SUFFICES ASSUME B # {} PROVE FALSE
    OBVIOUS
  <2>1. PICK s \in B : \A x \in s : s \ {x} \notin B
    BY MinimalSubset
  <2>2. \A r \in SUBSET S : g[r] = IF r = {} THEN 0 ELSE f[Pick(r)] + g[r \ {Pick(r)}]
    BY Zenon DEF Iterates
  <2>3. \A r \in SUBSET T : h[r] = IF r = {} THEN 0 ELSE f[Pick(r)] + h[r \ {Pick(r)}]
    BY Zenon DEF Iterates
  <2>4. s \in SUBSET T /\ s \in SUBSET S /\ h[s] # g[s]
    OBVIOUS
  <2>5. CASE s = {}
    BY <2>2, <2>3, <2>4, <2>5
  <2>6. CASE s # {}
    <3>1. Pick(s) \in s
      BY <2>6 DEF Pick
    <3>2. h[s \ {Pick(s)}] = g[s \ {Pick(s)}]
      BY <2>1, <3>1
    <3> QED BY <2>2, <2>3, <2>4, <2>6, <3>2
  <2> QED BY <2>5, <2>6
<1> QED BY <1>1

\* The library's sum, one element at a time, in the order it picks them.
LEMMA SumPicks ==
    ASSUME NEW S, IsFiniteSet(S), NEW f
    PROVE  /\ S = {} => SumFunctionOnSet(f, S) = 0
           /\ S # {} => SumFunctionOnSet(f, S) = f[Pick(S)] + SumFunctionOnSet(f, S \ {Pick(S)})
<1>1. PICK g : Iterates(g, f, S) /\ SumFunctionOnSet(f, S) = g[S]
  BY SumIterates
<1> DEFINE T == S \ {Pick(S)}
<1>2. IsFiniteSet(T) /\ T \subseteq S
  BY FS_RemoveElement
<1>3. PICK h : Iterates(h, f, T) /\ SumFunctionOnSet(f, T) = h[T]
  BY <1>2, SumIterates
<1>4. h[T] = g[T]
  <2> HIDE DEF T
  <2> QED BY <1>1, <1>2, <1>3, IterationsAgree
<1>5. g[S] = IF S = {} THEN 0 ELSE f[Pick(S)] + g[S \ {Pick(S)}]
  BY <1>1, Zenon DEF Iterates
<1> QED BY <1>1, <1>3, <1>4, <1>5

\* Every partial sum of integers is an integer, and of naturals a natural.
LEMMA SumType ==
    ASSUME NEW S, IsFiniteSet(S), NEW f, \A x \in S : f[x] \in Int
    PROVE  /\ SumFunctionOnSet(f, S) \in Int
           /\ (\A x \in S : f[x] >= 0) => SumFunctionOnSet(f, S) >= 0
<1> DEFINE Good(s) == /\ SumFunctionOnSet(f, s) \in Int
                      /\ (\A x \in S : f[x] >= 0) => SumFunctionOnSet(f, s) >= 0
           B == {s \in SUBSET S : ~Good(s)}
<1>1. B = {}
  <2> SUFFICES ASSUME B # {} PROVE FALSE
    OBVIOUS
  <2>1. PICK s \in B : IsFiniteSet(s) /\ \A x \in s : s \ {x} \notin B
    BY MinimalSubset
  <2>2. CASE s = {}
    <3>1. SumFunctionOnSet(f, s) = 0
      BY <2>1, <2>2, SumPicks
    <3> QED BY <2>1, <3>1
  <2>3. CASE s # {}
    <3>1. Pick(s) \in s
      BY <2>3 DEF Pick
    <3>2. Good(s \ {Pick(s)}) /\ f[Pick(s)] \in Int
      BY <2>1, <3>1
    <3>3. SumFunctionOnSet(f, s) = f[Pick(s)] + SumFunctionOnSet(f, s \ {Pick(s)})
      BY <2>1, <2>3, SumPicks
    <3>4. Good(s)
      BY <3>1, <3>2, <3>3
    <3> QED BY <2>1, <3>4
  <2> QED BY <2>2, <2>3
<1> QED BY <1>1

\* The same in any order.
LEMMA SumRemove ==
    ASSUME NEW S, IsFiniteSet(S), NEW f, \A x \in S : f[x] \in Int, NEW e \in S
    PROVE  SumFunctionOnSet(f, S) = f[e] + SumFunctionOnSet(f, S \ {e})
<1> DEFINE Splits(s) == \A x \in s : SumFunctionOnSet(f, s) = f[x] + SumFunctionOnSet(f, s \ {x})
           B == {s \in SUBSET S : ~Splits(s)}
<1>0. \A s \in SUBSET S : IsFiniteSet(s)
  BY FS_Subset
<1>1. B = {}
  <2> SUFFICES ASSUME B # {} PROVE FALSE
    OBVIOUS
  <2>1. PICK s \in B : \A x \in s : s \ {x} \notin B
    BY MinimalSubset
  <2>2. PICK x \in s : SumFunctionOnSet(f, s) # f[x] + SumFunctionOnSet(f, s \ {x})
    BY <2>1
  <2> DEFINE p == Pick(s)
  <2>3. p \in s
    BY <2>2 DEF Pick
  <2>4. SumFunctionOnSet(f, s) = f[p] + SumFunctionOnSet(f, s \ {p})
    BY <1>0, <2>2, SumPicks
  <2>5. x # p
    BY <2>2, <2>4
  <2>6. Splits(s \ {p}) /\ Splits(s \ {x})
    BY <2>1, <2>2, <2>3
  <2>7. SumFunctionOnSet(f, s \ {p}) = f[x] + SumFunctionOnSet(f, (s \ {p}) \ {x})
    BY <2>2, <2>5, <2>6
  <2>8. SumFunctionOnSet(f, s \ {x}) = f[p] + SumFunctionOnSet(f, (s \ {x}) \ {p})
    BY <2>3, <2>5, <2>6
  <2>9. (s \ {p}) \ {x} = (s \ {x}) \ {p}
    OBVIOUS
  <2>10. SumFunctionOnSet(f, (s \ {p}) \ {x}) \in Int
    <3>1. (s \ {p}) \ {x} \in SUBSET S
      OBVIOUS
    <3> QED BY <1>0, <3>1, SumType
  <2>11. f[p] \in Int /\ f[x] \in Int
    BY <2>3
  <2> DEFINE rest == SumFunctionOnSet(f, (s \ {p}) \ {x})
  <2>12. /\ SumFunctionOnSet(f, s) = f[p] + (f[x] + rest)
         /\ SumFunctionOnSet(f, s \ {x}) = f[p] + rest
    BY ONLY <2>4, <2>7, <2>8, <2>9, Zenon
  <2> HIDE DEF p, rest
  <2>13. rest \in Int
    BY <2>10 DEF rest
  <2>14. SumFunctionOnSet(f, s) = f[x] + SumFunctionOnSet(f, s \ {x})
    BY ONLY <2>11, <2>12, <2>13
  <2> QED BY <2>2, <2>14
<1> QED BY <1>1

\* A bound on every term, up to a factor, bounds the sum.
LEMMA SumBound ==
    ASSUME NEW S, IsFiniteSet(S), NEW f, NEW g, NEW k \in Nat,
           \A x \in S : f[x] \in Int /\ g[x] \in Int /\ f[x] <= k * g[x]
    PROVE  SumFunctionOnSet(f, S) <= k * SumFunctionOnSet(g, S)
<1> DEFINE Good(s) == SumFunctionOnSet(f, s) <= k * SumFunctionOnSet(g, s)
           B == {s \in SUBSET S : ~Good(s)}
<1>1. B = {}
  <2> SUFFICES ASSUME B # {} PROVE FALSE
    OBVIOUS
  <2>1. PICK s \in B : IsFiniteSet(s) /\ \A x \in s : s \ {x} \notin B
    BY MinimalSubset
  <2>2. CASE s = {}
    <3>1. SumFunctionOnSet(f, s) = 0 /\ SumFunctionOnSet(g, s) = 0
      BY <2>1, <2>2, SumPicks
    <3> QED BY <2>1, <3>1
  <2>3. CASE s # {}
    <3>1. PICK x \in s : TRUE
      BY <2>3
    <3> DEFINE F == SumFunctionOnSet(f, s \ {x})
               G == SumFunctionOnSet(g, s \ {x})
    <3>2. IsFiniteSet(s \ {x}) /\ s \ {x} \in SUBSET S
      BY <2>1, FS_RemoveElement
    <3>3. F \in Int /\ G \in Int
      BY <3>2, SumType
    <3>4. SumFunctionOnSet(f, s) = f[x] + F /\ SumFunctionOnSet(g, s) = g[x] + G
      BY <2>1, SumRemove
    <3>5. F <= k * G
      BY <2>1, <3>2
    <3>6. f[x] \in Int /\ g[x] \in Int /\ f[x] <= k * g[x]
      OBVIOUS
    <3> HIDE DEF F, G
    <3>7. k * (g[x] + G) = k * g[x] + k * G /\ k * g[x] \in Int /\ k * G \in Int
      BY ONLY k \in Nat, <3>3, <3>6
    <3>8. f[x] + F <= k * (g[x] + G)
      BY ONLY <3>3, <3>5, <3>6, <3>7
    <3> QED BY <2>1, <3>4, <3>8
  <2> QED BY <2>2, <2>3
<1> QED BY <1>1

\* A sum of naturals over fewer elements is no larger.
LEMMA SumSubset ==
    ASSUME NEW T, IsFiniteSet(T), NEW S, S \subseteq T, NEW f,
           \A x \in T : f[x] \in Nat
    PROVE  SumFunctionOnSet(f, S) <= SumFunctionOnSet(f, T)
<1> DEFINE Good(s) == SumFunctionOnSet(f, S) <= SumFunctionOnSet(f, S \union s)
           B == {s \in SUBSET (T \ S) : ~Good(s)}
<1>1. B = {}
  <2> SUFFICES ASSUME B # {} PROVE FALSE
    OBVIOUS
  <2>0. IsFiniteSet(T \ S) /\ IsFiniteSet(S)
    BY FS_Subset
  <2>1. PICK s \in B : IsFiniteSet(s) /\ \A x \in s : s \ {x} \notin B
    BY <2>0, MinimalSubset
  <2>2. CASE s = {}
    <3>1. S \union s = S
      BY <2>2
    <3>2. SumFunctionOnSet(f, S) \in Int
      BY <2>0, SumType
    <3> QED BY <2>1, <3>1, <3>2
  <2>3. CASE s # {}
    <3>1. PICK x \in s : TRUE
      BY <2>3
    <3>2. (S \union s) \ {x} = S \union (s \ {x})
      BY <3>1
    <3>3. S \union s \subseteq T /\ IsFiniteSet(S \union s)
      BY FS_Subset
    <3>4. SumFunctionOnSet(f, S \union s) = f[x] + SumFunctionOnSet(f, (S \union s) \ {x})
      BY <3>1, <3>3, SumRemove
    <3>5. s \ {x} \in SUBSET (T \ S)
      OBVIOUS
    <3>6. SumFunctionOnSet(f, S) <= SumFunctionOnSet(f, S \union (s \ {x}))
      BY <2>1, <3>1, <3>5
    <3>7. IsFiniteSet(S \union (s \ {x}))
      <4>1. S \union (s \ {x}) \in SUBSET T
        BY <3>5
      <4> QED BY <4>1, FS_Subset
    <3>8. SumFunctionOnSet(f, S) \in Int /\ SumFunctionOnSet(f, S \union (s \ {x})) \in Int
      BY <2>0, <3>7, SumType
    <3>9. f[x] \in Nat
      OBVIOUS
    <3>10. Good(s)
      BY ONLY <3>2, <3>4, <3>6, <3>8, <3>9
    <3> QED BY <2>1, <3>10
  <2> QED BY <2>2, <2>3
<1>2. Good(T \ S) /\ S \union (T \ S) = T
  BY <1>1
<1> QED BY <1>2

\* No term of a sum of naturals is larger than the sum.
LEMMA SumTerm ==
    ASSUME NEW S, IsFiniteSet(S), NEW f, \A x \in S : f[x] \in Nat, NEW e \in S
    PROVE  f[e] <= SumFunctionOnSet(f, S)
<1>1. SumFunctionOnSet(f, S) = f[e] + SumFunctionOnSet(f, S \ {e})
  BY SumRemove
<1>2. IsFiniteSet(S \ {e})
  BY FS_RemoveElement
<1>3. SumFunctionOnSet(f, S \ {e}) \in Int /\ SumFunctionOnSet(f, S \ {e}) >= 0
  <2>1. \A x \in S \ {e} : f[x] \in Int /\ f[x] >= 0
    OBVIOUS
  <2> QED BY <1>2, <2>1, SumType
<1>4. f[e] \in Nat
  OBVIOUS
<1> QED BY ONLY <1>1, <1>3, <1>4

-----------------------------------------------------------------------------
(* The ledger's operators *)

\* Ledgers with finitely many confirmations.
FiniteLedger == {l \in Ledger : IsFiniteSet(l.confirmed)}

\* Hours are finitely many naturals, and Never comes before all of them.
LEMMA Hours ==
    /\ IsFiniteSet(Hour) /\ Hour \subseteq Nat /\ 0 \in Hour
    /\ \A h \in Hour : h \in Int /\ h > Never /\ h <= MaxTime
<1>1. MaxTime \in Nat
  BY LedgerAssumption
<1>2. IsFiniteSet(0 .. MaxTime)
  BY <1>1, FS_Interval
<1> QED BY <1>1, <1>2 DEF Hour, Never

\* A time is an integer.
LEMMA TimeIsInt == \A t \in Time : t \in Int /\ t >= Never /\ (t # Never => t \in Hour)
<1>1. \A h \in Hour : h \in Int /\ h >= Never
  BY Hours DEF Never
<1>2. Never \in Int /\ Never >= Never
  BY DEF Never
<1> QED BY <1>1, <1>2 DEF Time

\* A period starts at a whole multiple of its length and holds the hour it
\* was opened for.
LEMMA PeriodHolds ==
    ASSUME NEW t \in Hour
    PROVE  /\ PeriodStart(t) \in Hour /\ PeriodStart(t) <= t /\ t < PeriodStart(t) + PeriodLength
           /\ \E q \in Nat : PeriodStart(t) = q * PeriodLength
<1>1. t \in Nat /\ PeriodLength \in Nat /\ PeriodLength > 0 /\ MaxTime \in Nat /\ t <= MaxTime
  BY Hours, LedgerAssumption
<1>2. t % PeriodLength \in 0 .. PeriodLength - 1 /\ t \div PeriodLength \in Nat
  BY ONLY <1>1
<1>3. t = (t \div PeriodLength) * PeriodLength + (t % PeriodLength)
  BY ONLY <1>1
<1>4. (t \div PeriodLength) * PeriodLength \in Nat
  BY ONLY <1>1, <1>2
<1>5. PeriodStart(t) = (t \div PeriodLength) * PeriodLength
  BY ONLY <1>1, <1>2, <1>3, <1>4 DEF PeriodStart
<1>6. PeriodStart(t) \in Nat /\ PeriodStart(t) <= t /\ t < PeriodStart(t) + PeriodLength
  BY ONLY <1>1, <1>2, <1>3, <1>4, <1>5
<1> QED BY <1>1, <1>2, <1>5, <1>6 DEF Hour

\* What the model expects of a window is a natural.
LEMMA ExpectedType ==
    ASSUME NEW l \in Ledger, NEW from, NEW to
    PROVE  ExpectedIn(l, from, to) \in Nat
<1> DEFINE S == {h \in Hour : from <= h /\ h < to}
<1>1. IsFiniteSet(S)
  <2>1. S \in SUBSET Hour
    OBVIOUS
  <2> QED BY <2>1, Hours, FS_Subset
<1>2. \A h \in S : l.hourly[h] \in Int /\ l.hourly[h] >= 0
  BY DEF Ledger
<1>3. SumFunctionOnSet(l.hourly, S) \in Int /\ SumFunctionOnSet(l.hourly, S) >= 0
  <2> HIDE DEF S
  <2> QED BY <1>1, <1>2, SumType
<1> QED BY <1>3 DEF ExpectedIn

\* Whatever was reported for a window, what counts is at least half of what
\* the model expects of it.
LEMMA CountedBound ==
    ASSUME NEW l \in Ledger, NEW c \in Confirmation
    PROVE  /\ Counted(l, c) \in Nat
           /\ ExpectedIn(l, c.from, c.to) <= 2 * Counted(l, c)
           /\ ~Refuses(l, c) => ExpectedIn(l, c.from, c.to) <= 2 * c.usd
<1>1. c.usd \in Nat
  BY LedgerAssumption DEF Confirmation
<1>2. ExpectedIn(l, c.from, c.to) \in Nat
  BY ExpectedType
<1> QED BY <1>1, <1>2 DEF Counted, OutsideClamp, Refuses

\* A sum over a function's whole domain.
LEMMA SumOver ==
    ASSUME NEW S, NEW f, f = [x \in S |-> f[x]]
    PROVE  SumFunction(f) = SumFunctionOnSet(f, S)
<1>1. DOMAIN f = S
  OBVIOUS
<1> QED BY <1>1 DEF SumFunction

\* The calibration never takes away more than half: the quotient's parts are
\* positive and the reported one is at least half the expected one.
LEMMA CalibrationBound ==
    ASSUME NEW l \in FiniteLedger
    PROVE  /\ CalibratedFrom(l) \in Nat \ {0} /\ CalibratedTo(l) \in Nat
           /\ CalibratedFrom(l) <= 2 * CalibratedTo(l)
<1>1. CASE Calibrating(l) = {}
  BY <1>1 DEF CalibratedFrom, CalibratedTo
<1>2. CASE Calibrating(l) # {}
  <2> DEFINE S == Calibrating(l)
             E == [c \in S |-> ExpectedIn(l, c.from, c.to)]
             U == [c \in S |-> c.usd]
  <2>1. l \in Ledger /\ S \in SUBSET l.confirmed /\ l.confirmed \subseteq Confirmation
    BY DEF FiniteLedger, Ledger, Calibrating
  <2>2. IsFiniteSet(S)
    BY <2>1, FS_Subset DEF FiniteLedger
  <2>3. ASSUME NEW c \in S
        PROVE  E[c] \in Nat /\ U[c] \in Nat /\ E[c] > 0 /\ E[c] <= 2 * U[c]
    <3>1. ExpectedIn(l, c.from, c.to) \in Nat
      BY <2>1, ExpectedType
    <3>2. ExpectedIn(l, c.from, c.to) <= 2 * c.usd
      BY <2>1, CountedBound DEF Calibrating
    <3>3. c.usd \in Nat
      BY <2>1, LedgerAssumption DEF Confirmation
    <3>4. ExpectedIn(l, c.from, c.to) > 0
      BY DEF Calibrating
    <3> QED BY <3>1, <3>2, <3>3, <3>4
  <2>4. CalibratedFrom(l) = SumFunctionOnSet(E, S) /\ CalibratedTo(l) = SumFunctionOnSet(U, S)
    BY <1>2, SumOver DEF CalibratedFrom, CalibratedTo
  <2> HIDE DEF S, E, U
  <2>5. \A c \in S : E[c] \in Int /\ E[c] >= 0 /\ U[c] \in Int /\ U[c] >= 0
    BY <2>3
  <2>6. SumFunctionOnSet(E, S) \in Nat /\ SumFunctionOnSet(U, S) \in Nat
    BY <2>2, <2>5, SumType
  <2>7. SumFunctionOnSet(E, S) <= 2 * SumFunctionOnSet(U, S)
    BY <2>2, <2>3, <2>5, SumBound
  <2>8. PICK c \in S : TRUE
    BY <1>2 DEF S
  <2>9. E[c] <= SumFunctionOnSet(E, S)
    BY <2>2, <2>3, SumTerm
  <2> QED BY <2>3, <2>4, <2>6, <2>7, <2>9
<1> QED BY <1>1, <1>2

\* A confirmation cannot switch the guard off, whatever the ledger.
LEMMA GuardOfLedger ==
    ASSUME NEW l \in FiniteLedger
    PROVE  2 * ScaledTotal(l) >= ExpectedIn(l, l.start, PeriodEnd(l)) * CalibratedFrom(l)
<1> DEFINE S == l.confirmed
           E == [c \in S |-> ExpectedIn(l, c.from, c.to)]
           C == [c \in S |-> Counted(l, c)]
           all == ExpectedIn(l, l.start, PeriodEnd(l))
           seen == SumFunctionOnSet(E, S)
           counted == SumFunctionOnSet(C, S)
           rest == IF all - seen > 0 THEN all - seen ELSE 0
<1>1. l \in Ledger /\ S \subseteq Confirmation /\ IsFiniteSet(S)
  BY DEF FiniteLedger, Ledger
<1>2. \A c \in S : E[c] \in Int /\ E[c] >= 0 /\ C[c] \in Int /\ C[c] >= 0 /\ E[c] <= 2 * C[c]
  BY <1>1, CountedBound, ExpectedType
<1>3. seen \in Nat /\ counted \in Nat
  <2> HIDE DEF E, C, S
  <2> QED BY <1>1, <1>2, SumType
<1>4. seen <= 2 * counted
  <2> HIDE DEF E, C, S
  <2> QED BY <1>1, <1>2, SumBound
<1>5. all \in Nat
  BY <1>1, ExpectedType
<1>6. Unconfirmed(l) = all - seen
  BY SumOver DEF Unconfirmed
<1>7. ScaledTotal(l) = counted * CalibratedFrom(l) + rest * CalibratedTo(l)
  BY <1>6, SumOver DEF ScaledTotal
<1>8. /\ CalibratedFrom(l) \in Nat /\ CalibratedTo(l) \in Nat
      /\ CalibratedFrom(l) <= 2 * CalibratedTo(l)
  BY CalibrationBound
<1>9. rest \in Nat /\ all <= seen + rest
  BY <1>3, <1>5
<1> HIDE DEF all, seen, counted, rest
<1>10. ASSUME NEW a \in Nat, NEW b \in Nat, NEW c \in Nat, NEW r \in Nat, NEW F \in Nat, NEW T \in Nat,
              b <= 2 * c, F <= 2 * T, a <= b + r
       PROVE  2 * (c * F + r * T) >= a * F
  <2>1. a * F <= (b + r) * F
    BY <1>10
  <2>2. (b + r) * F = b * F + r * F
    OBVIOUS
  <2>3. b * F <= (2 * c) * F
    BY <1>10
  <2>4. r * F <= r * (2 * T)
    BY <1>10
  <2>5. (2 * c) * F = 2 * (c * F) /\ r * (2 * T) = 2 * (r * T)
    OBVIOUS
  <2>6. /\ a * F \in Nat /\ b * F \in Nat /\ r * F \in Nat /\ c * F \in Nat /\ r * T \in Nat
    OBVIOUS
  <2> QED BY ONLY <2>1, <2>2, <2>3, <2>4, <2>5, <2>6
<1>11. 2 * (counted * CalibratedFrom(l) + rest * CalibratedTo(l)) >= all * CalibratedFrom(l)
  BY ONLY <1>3, <1>4, <1>5, <1>8, <1>9, <1>10
<1> QED BY <1>7, <1>11 DEF all

\* A new ledger holds nothing.
LEMMA NewLedgerType ==
    ASSUME NEW t \in Hour
    PROVE  /\ NewLedger(t) \in FiniteLedger
           /\ NewLedger(t).start = PeriodStart(t) /\ NewLedger(t).since = Never
           /\ \A h \in Hour : NewLedger(t).hourly[h] = 0
<1>1. IsFiniteSet({})
  BY FS_EmptySet
<1>2. PeriodStart(t) \in Hour
  BY PeriodHolds
<1> QED BY <1>1, <1>2 DEF NewLedger, FiniteLedger, Ledger

\* Accruing adds to the hours of the interval and leaves the rest alone.
LEMMA AccrueType ==
    ASSUME NEW l \in FiniteLedger, NEW from \in Int, NEW to \in Int, NEW rate \in Nat
    PROVE  LET m == Accrue(l, from, to, rate) IN
           /\ m \in FiniteLedger
           /\ m.start = l.start /\ m.since = l.since
           /\ \A h \in Hour : m.hourly[h] = IF from <= h /\ h < to THEN l.hourly[h] + rate
                                            ELSE l.hourly[h]
<1> DEFINE H == [h \in Hour |-> IF from <= h /\ h < to THEN l.hourly[h] + rate ELSE l.hourly[h]]
<1>1. Accrue(l, from, to, rate) = [l EXCEPT !.hourly = H]
  BY DEF Accrue
<1>2. H \in [Hour -> Nat]
  BY DEF FiniteLedger, Ledger
<1>3. \A h \in Hour : H[h] = IF from <= h /\ h < to THEN l.hourly[h] + rate ELSE l.hourly[h]
  OBVIOUS
<1> HIDE DEF H
<1> QED BY <1>1, <1>2, <1>3 DEF FiniteLedger, Ledger

\* Taking in a document changes no account.
LEMMA ConfirmType ==
    ASSUME NEW l \in FiniteLedger, NEW doc, doc \subseteq Confirmation, IsFiniteSet(doc)
    PROVE  LET m == Confirm(l, doc) IN
           /\ m \in FiniteLedger
           /\ m.start = l.start /\ m.since = l.since /\ m.hourly = l.hourly
<1> DEFINE new == {c \in doc : /\ l.start <= c.from /\ c.to <= PeriodEnd(l)
                               /\ \A d \in l.confirmed : ~Overlaps(c, d)}
           R == {c \in new : Refuses(l, c)}
<1>1. Confirm(l, doc) = [l EXCEPT !.confirmed = l.confirmed \union new,
                                  !.refused = l.refused \union R]
  BY DEF Confirm
<1>2. new \in SUBSET doc /\ R \subseteq new
  OBVIOUS
<1> HIDE DEF new, R
<1>3. IsFiniteSet(new) /\ IsFiniteSet(l.confirmed)
  BY <1>2, FS_Subset DEF FiniteLedger
<1>4. IsFiniteSet(l.confirmed \union new)
  BY <1>3, FS_Union
<1>5. l.confirmed \union new \subseteq Confirmation /\ l.refused \union R \subseteq Confirmation
  BY <1>2 DEF FiniteLedger, Ledger
<1> QED BY <1>1, <1>4, <1>5 DEF FiniteLedger, Ledger

\* A restored ledger has the accounts of its snapshot.
LEMMA RestoredType ==
    ASSUME NEW l \in FiniteLedger
    PROVE  /\ Restored(l) \in FiniteLedger
           /\ Restored(l).start = l.start /\ Restored(l).since = l.since
           /\ Restored(l).hourly = l.hourly
<1> DEFINE e == [l EXCEPT !.confirmed = {}, !.refused = {}]
<1>1. /\ e \in FiniteLedger /\ e.start = l.start /\ e.since = l.since /\ e.hourly = l.hourly
  BY FS_EmptySet DEF FiniteLedger, Ledger
<1>2. l.confirmed \subseteq Confirmation /\ IsFiniteSet(l.confirmed)
  BY DEF FiniteLedger, Ledger
<1>3. Restored(l) = Confirm(e, l.confirmed)
  BY DEF Restored
<1> HIDE DEF e
<1> QED BY <1>1, <1>2, <1>3, ConfirmType

-----------------------------------------------------------------------------
(* The profiles' operators *)

Slot == [hour : Hour, peak : Level]

\* The greatest of some levels is one of them.
LEMMA PeakType ==
    ASSUME NEW P, P \subseteq Level, P # {}
    PROVE  Max(P) \in Level
<1>1. IsFiniteSet(Level) /\ Level \subseteq Nat \ {0}
  BY KernelAssumption
<1>2. P \in SUBSET Level /\ P \subseteq Int
  BY <1>1
<1>3. IsFiniteSet(P)
  BY <1>1, <1>2, FS_Subset
<1> QED BY <1>2, <1>3, MaxOfFinite

\* The greater of two numbers.
LEMMA MaxOfTwo ==
    ASSUME NEW a \in Int, NEW b \in Int
    PROVE  Max({a, b}) = IF a >= b THEN a ELSE b
<1>1. \A m \in {a, b} : (\A y \in {a, b} : m >= y) <=> m = IF a >= b THEN a ELSE b
  OBVIOUS
<1>2. (IF a >= b THEN a ELSE b) \in {a, b}
  OBVIOUS
<1> QED BY <1>1, <1>2 DEF Max

\* The greater of two naturals.
LEMMA MaxOfNats ==
    \A a, b \in Nat : Max({a, b}) \in Nat /\ Max({a, b}) = IF a >= b THEN a ELSE b
<1> SUFFICES ASSUME NEW a \in Nat, NEW b \in Nat
             PROVE  Max({a, b}) \in Nat /\ Max({a, b}) = IF a >= b THEN a ELSE b
  OBVIOUS
<1>1. a \in Int /\ b \in Int
  OBVIOUS
<1>2. Max({a, b}) = IF a >= b THEN a ELSE b
  BY <1>1, MaxOfTwo
<1> QED BY <1>2

\* A reading goes into the profile beside what the pod reserved.
LEMMA RecordedType ==
    ASSUME NEW p \in Profile, NEW t \in Hour, NEW level \in Level, NEW request \in Nat
    PROVE  Recorded(p, t, level, request) \in Profile /\ Recorded(p, t, level, request).request = request
<1> DEFINE this == {s \in p.slots : s.hour = t}
           P == {level} \union {s.peak : s \in this}
<1>1. p.slots \subseteq Slot
  BY DEF Profile, Slot
<1>2. P \subseteq Level /\ P # {}
  BY <1>1 DEF Slot
<1>3. PeakWith(this, level) \in Level
  <2>1. Max(P) \in Level
    BY <1>2, PeakType
  <2> QED BY <2>1 DEF PeakWith
<1>4. [hour |-> t, peak |-> PeakWith(this, level)] \in Slot
  BY <1>3 DEF Slot
<1>5. Within(p.slots \ this, t) \subseteq Slot
  BY <1>1 DEF Within
<1>6. Sample(p.slots, t, level) \subseteq Slot
  BY <1>4, <1>5 DEF Sample
<1> QED BY <1>6 DEF Recorded, Profile, Slot

\* Before the first reading, and after a whole window without one.
LEMMA RememberedType ==
    /\ NoProfile \in Profile /\ NoProfile.request = 0
    /\ \A p \in Profile, t \in Hour :
         Remembered(p, t) \in Profile /\ Remembered(p, t) \in {p, NoProfile}
BY DEF NoProfile, Profile, Remembered

\* MaxSize is at least what a level calls for, a manifest or the cluster's
\* floor.
LEMMA MaxSizeBounds ==
    /\ MaxSize \in Nat /\ AdmissionFloor <= MaxSize
    /\ \A w \in Workload : FirstSize[w] <= MaxSize
    /\ \A v \in Level : ScaleUp(v) \in Nat /\ ScaleUp(v) <= MaxSize /\ MinSize <= ScaleUp(v)
<1> DEFINE A == {ScaleUp(v) : v \in Level}
           F == {FirstSize[w] : w \in Workload}
           S == A \union F \union {AdmissionFloor}
<1>1. ASSUME NEW v \in Level PROVE ScaleUp(v) \in Nat /\ MinSize <= ScaleUp(v)
  <2>1. CeilHalf(3 * v) \in Nat /\ MinSize \in Nat
    BY KernelAssumption, UsageAssumption DEF CeilHalf
  <2> QED BY <2>1, MaxOfTwo DEF ScaleUp
<1>2. IsFiniteSet(A)
  <2> DEFINE f == [v \in Level |-> ScaleUp(v)]
  <2>1. IsFiniteSet({f[v] : v \in Level})
    <3>1. f = [v \in Level |-> f[v]]
      OBVIOUS
    <3> HIDE DEF f
    <3> QED BY <3>1, ImageFinite, KernelAssumption
  <2>2. A = {f[v] : v \in Level}
    OBVIOUS
  <2> QED BY <2>1, <2>2
<1>3. IsFiniteSet(F)
  BY ImageFinite, KernelAssumption
<1>4. IsFiniteSet(S)
  BY <1>2, <1>3, FS_Union, FS_Singleton
<1>5. S \subseteq Nat /\ AdmissionFloor \in S
  BY <1>1, KernelAssumption
<1>6. Max(S) \in S /\ \A y \in S : Max(S) >= y
  <2> HIDE DEF S
  <2>1. S \subseteq Int /\ S # {}
    BY <1>5
  <2> QED BY <1>4, <2>1, MaxOfFinite
<1>7. MaxSize = Max(S)
  BY DEF MaxSize
<1>8. \A y \in S : y <= MaxSize
  <2> HIDE DEF S
  <2> QED BY <1>5, <1>6, <1>7
<1>9. MaxSize \in Nat
  BY <1>5, <1>6, <1>7
<1> QED BY <1>1, <1>8, <1>9

\* At most one reservation is recommended; it is a natural, and within what
\* the levels call for if the present one is.
LEMMA RecommendType ==
    ASSUME NEW p \in Profile, NEW t \in Hour, NEW r \in Recommend(p, t)
    PROVE  /\ r \in Nat /\ Recommend(p, t) = {r}
           /\ p.request <= MaxSize => r <= MaxSize
<1> DEFINE seen == Day(p, t)
           P == {s.peak : s \in seen}
<1>1. ~Thin(seen) /\ r = Step(p.request, ScaleUp(PeakOf(seen))) /\ Recommend(p, t) \subseteq {r}
  BY DEF Recommend
<1>2. seen # {}
  BY <1>1, FS_EmptySet, UsageAssumption DEF Thin
<1>3. P \subseteq Level /\ P # {}
  BY <1>2 DEF Day, Within, Profile
<1>4. PeakOf(seen) \in Level
  <2>1. Max(P) \in Level
    BY <1>3, PeakType
  <2> QED BY <2>1 DEF PeakOf
<1>5. PICK v \in Level : v = PeakOf(seen)
  BY <1>4
<1>6. ScaleUp(v) \in Nat /\ ScaleUp(v) <= MaxSize /\ MinSize <= ScaleUp(v) /\ MaxSize \in Nat
  BY MaxSizeBounds
<1>7. p.request \in Nat /\ MinSize \in Nat
  BY UsageAssumption DEF Profile
<1>8. CeilHalf(p.request) \in Nat /\ CeilHalf(p.request) <= p.request
  BY <1>7 DEF CeilHalf
<1>9. Max({CeilHalf(p.request), MinSize}) \in {CeilHalf(p.request), MinSize}
  BY <1>7, <1>8, MaxOfTwo
<1>10. r = Step(p.request, ScaleUp(v))
  BY <1>1, <1>5
<1>11. r \in Nat /\ (p.request <= MaxSize => r <= MaxSize)
  BY <1>6, <1>7, <1>8, <1>9, <1>10 DEF Step
<1> QED BY <1>1, <1>11

-----------------------------------------------------------------------------
(* Types *)

Typed ==
    /\ TypeOK
    /\ ledger \in FiniteLedger
    /\ \A cp \in checkpoint : cp.ledger \in FiniteLedger
    /\ IsFiniteSet(document)

\* What a set of workloads costs an hour.
LEMMA HourlyOfType ==
    ASSUME size \in [Workload -> Nat], NEW observed, observed \subseteq Workload
    PROVE  /\ HourlyOf(observed) \in Nat
           /\ \A w \in observed : Hourly(w) <= HourlyOf(observed)
<1> DEFINE f == [w \in observed |-> Hourly(w)]
<1>1. IsFiniteSet(observed)
  <2>1. observed \in SUBSET Workload /\ IsFiniteSet(Workload)
    BY KernelAssumption
  <2> QED BY <2>1, FS_Subset
<1>2. \A w \in observed : f[w] \in Nat /\ f[w] = Hourly(w)
  BY KernelAssumption DEF Hourly
<1>3. HourlyOf(observed) = SumFunctionOnSet(f, observed)
  BY SumOver DEF HourlyOf
<1> HIDE DEF f
<1>4. SumFunctionOnSet(f, observed) \in Nat
  <2>1. \A w \in observed : f[w] \in Int /\ f[w] >= 0
    BY <1>2
  <2> QED BY <1>1, <2>1, SumType
<1>5. \A w \in observed : f[w] <= SumFunctionOnSet(f, observed)
  BY <1>1, <1>2, SumTerm
<1> QED BY <1>2, <1>3, <1>4, <1>5

\* A ledger is kept to its period's end, and then a new one begins.
LEMMA RolledType ==
    ASSUME Typed
    PROVE  /\ Rolled(ledger) \in FiniteLedger
           /\ now < PeriodEnd(ledger) => Rolled(ledger) = ledger
           /\ ~(now < PeriodEnd(ledger)) =>
                /\ Rolled(ledger).start = PeriodStart(now)
                /\ Rolled(ledger).since = IF last = Never THEN Never ELSE PeriodStart(now)
                /\ \A h \in Hour : Rolled(ledger).hourly[h] = 0
           /\ now < PeriodEnd(Rolled(ledger))
<1>1. now \in Hour /\ last \in Time /\ ledger \in FiniteLedger
  BY DEF Typed, TypeOK
<1>2. CASE now < PeriodEnd(ledger)
  BY <1>1, <1>2 DEF Rolled
<1>3. CASE ~(now < PeriodEnd(ledger))
  <2> DEFINE n == NewLedger(now)
             s == IF last = Never THEN Never ELSE PeriodStart(now)
  <2>1. n \in FiniteLedger /\ n.start = PeriodStart(now) /\ \A h \in Hour : n.hourly[h] = 0
    BY <1>1, NewLedgerType
  <2>2. PeriodStart(now) \in Hour /\ now < PeriodStart(now) + PeriodLength
    BY <1>1, PeriodHolds
  <2>3. Rolled(ledger) = [n EXCEPT !.since = s]
    BY <1>3 DEF Rolled
  <2>4. s \in Hour \union {Never}
    BY <2>2
  <2> HIDE DEF n
  <2>5. /\ Rolled(ledger) \in FiniteLedger /\ Rolled(ledger).start = PeriodStart(now)
        /\ Rolled(ledger).since = s /\ Rolled(ledger).hourly = n.hourly
    <3> HIDE DEF s
    <3> QED BY <2>1, <2>3, <2>4 DEF FiniteLedger, Ledger
  <2> QED BY <1>3, <2>1, <2>2, <2>5 DEF PeriodEnd
<1> QED BY <1>2, <1>3

\* The ledger a tick meters into, before and after it is billed.
LEMMA TickLedger ==
    ASSUME Typed, NEW observed, observed \subseteq Workload
    PROVE  LET r == Rolled(ledger)
               k == Taken(r)
               m == Metered(k, observed) IN
           /\ k \in FiniteLedger /\ m \in FiniteLedger
           /\ k.start = r.start /\ k.hourly = r.hourly /\ k.since = r.since
           /\ m.start = r.start
           /\ m.since = IF r.since = Never THEN now ELSE r.since
           /\ \A h \in Hour : m.hourly[h] =
                IF BilledFrom(k) <= h /\ h < now THEN r.hourly[h] + HourlyOf(observed)
                ELSE r.hourly[h]
<1> DEFINE r == Rolled(ledger)
           k == Taken(r)
           m == Metered(k, observed)
           a == Accrue(k, BilledFrom(k), now, HourlyOf(observed))
<1>1. r \in FiniteLedger
  BY RolledType
<1>2. document \subseteq Confirmation /\ IsFiniteSet(document) /\ now \in Hour /\ last \in Time
      /\ size \in [Workload -> Nat]
  BY DEF Typed, TypeOK
<1> HIDE DEF r
<1>3. k \in FiniteLedger /\ k.start = r.start /\ k.hourly = r.hourly /\ k.since = r.since
  BY <1>1, <1>2, ConfirmType DEF Taken
<1> HIDE DEF k
<1>4. HourlyOf(observed) \in Nat
  BY <1>2, HourlyOfType
<1>5. BilledFrom(k) \in Int /\ now \in Int
  <2>1. k.start \in Hour
    BY <1>3 DEF FiniteLedger, Ledger
  <2>2. last \in Int
    BY <1>2, TimeIsInt
  <2>3. k.start \in Int /\ now \in Int
    BY <1>2, <2>1, TimeIsInt DEF Time
  <2> QED BY <2>2, <2>3 DEF BilledFrom
<1>6. /\ a \in FiniteLedger /\ a.start = k.start /\ a.since = k.since
      /\ \A h \in Hour : a.hourly[h] = IF BilledFrom(k) <= h /\ h < now
                                       THEN k.hourly[h] + HourlyOf(observed) ELSE k.hourly[h]
  BY <1>3, <1>4, <1>5, AccrueType
<1>7. m = IF k.since = Never THEN [a EXCEPT !.since = now] ELSE a
  BY DEF Metered
<1> HIDE DEF a, m
<1>8. /\ m \in FiniteLedger /\ m.start = a.start /\ m.hourly = a.hourly
      /\ m.since = IF k.since = Never THEN now ELSE a.since
  BY <1>2, <1>6, <1>7 DEF FiniteLedger, Ledger
<1>9. m.start = r.start /\ m.since = IF r.since = Never THEN now ELSE r.since
  BY <1>3, <1>6, <1>8
<1>10. \A h \in Hour : m.hourly[h] = IF BilledFrom(k) <= h /\ h < now
                          THEN r.hourly[h] + HourlyOf(observed) ELSE r.hourly[h]
  BY <1>3, <1>6, <1>8
<1> QED BY <1>3, <1>8, <1>9, <1>10 DEF k, r, m

\* A tick's readings go into the profiles, beside the reservations metered.
LEMMA SampledType ==
    ASSUME Typed, NEW observed, NEW reading \in Readings
    PROVE  /\ Sampled(observed, reading) \in [Stoppable -> Profile]
           /\ \A w \in Stoppable : \/ Sampled(observed, reading)[w] = profile[w]
                                   \/ Sampled(observed, reading)[w].request = size[w]
<1> SUFFICES ASSUME NEW w \in Stoppable
             PROVE  /\ Sampled(observed, reading)[w] \in Profile
                    /\ \/ Sampled(observed, reading)[w] = profile[w]
                       \/ Sampled(observed, reading)[w].request = size[w]
  BY DEF Sampled
<1>1. profile[w] \in Profile /\ size[w] \in Nat /\ now \in Hour
  BY KernelAssumption DEF Typed, TypeOK
<1>2. CASE w \in observed /\ reading[w] # 0
  <2>1. reading[w] \in Level
    BY <1>2 DEF Readings
  <2>2. Sampled(observed, reading)[w] = Recorded(profile[w], now, reading[w], size[w])
    BY <1>2 DEF Sampled
  <2> QED BY <1>1, <2>1, <2>2, RecordedType
<1>3. CASE ~(w \in observed /\ reading[w] # 0)
  BY <1>1, <1>3 DEF Sampled
<1> QED BY <1>2, <1>3

\* Only an application's recommended reservation is acted on, one for each,
\* and not while it is cooling down.
LEMMA AdviseType ==
    ASSUME Typed, NEW l, NEW p \in [Stoppable -> Profile], NEW observed, NEW unlisted,
           NEW a \in Advise(l, p, observed, unlisted)
    PROVE  /\ adapting
           /\ a \in [app : Stoppable, to : Nat] /\ a.to \in Recommend(p[a.app], now)
           /\ ~CoolingDown(a.app)
<1>1. adapting /\ ~Held(l, a.app, p[a.app].request, a.to, HourlyOf(observed))
  BY DEF Advise
<1>2. PICK w \in Stoppable : a \in [app : {w}, to : Recommend(p[w], now)]
  BY DEF Advise
<1>3. a.app = w /\ a.to \in Recommend(p[w], now) /\ a = [app |-> a.app, to |-> a.to]
  BY <1>2
<1>4. a.to \in Nat
  BY <1>3, RecommendType DEF Typed, TypeOK
<1> QED BY <1>1, <1>3, <1>4 DEF Held

\* The program's points.
LEMMA AfterActType ==
    \A S, R : /\ AfterAct(S, R) \in {"act", "adapt", "save"}
              /\ R # {} => AfterAct(S, R) \in {"act", "adapt"}
BY DEF AfterAct

\* A process that stops keeps nothing in hand.
LEMMA StoppedType ==
    ASSUME Typed, Stopped, checkpoint' \in {checkpoint, {Snapshot}},
           profiles' \in [Stoppable -> Profile]
    PROVE  Typed'
<1>1. /\ TypeOK
      /\ ledger \in FiniteLedger /\ IsFiniteSet(document)
      /\ \A cp \in checkpoint : cp.ledger \in FiniteLedger
  BY DEF Typed
<1>2. Snapshot \in [ledger : Ledger, last : Time, reached : BOOLEAN] /\ Snapshot.ledger = ledger
  BY <1>1 DEF Snapshot, TypeOK
<1>3. /\ checkpoint' \subseteq [ledger : Ledger, last : Time, reached : BOOLEAN]
      /\ \A cp \in checkpoint' : cp.ledger \in FiniteLedger
  BY <1>1, <1>2 DEF TypeOK
<1>4. ledger' = ledger /\ document' = document
  BY DEF Stopped
<1>5. TypeOK'
  BY <1>1, <1>3 DEF TypeOK, Stopped, clusterVars
<1> QED BY <1>1, <1>3, <1>4, <1>5 DEF Typed

\* Every step keeps the types, and every set of confirmations finite.
LEMMA TypedStep == Typed /\ [Next]_vars => Typed'
<1> SUFFICES ASSUME Typed, [Next]_vars PROVE Typed'
  OBVIOUS
<1>0. /\ TypeOK
      /\ ledger \in FiniteLedger /\ IsFiniteSet(document)
      /\ \A cp \in checkpoint : cp.ledger \in FiniteLedger
  BY DEF Typed
<1>1. ASSUME NEW unread \in SUBSET MayRefuse, NEW unlisted \in SUBSET MayRefuse,
             NEW reading \in Readings, Reconcile(unread, unlisted, reading)
      PROVE  Typed'
  <2> DEFINE observed == running \ unread
  <2>1. ledger' = Metered(Taken(Rolled(ledger)), observed)
    BY <1>1 DEF Reconcile
  <2>2. observed \subseteq Workload
    BY <1>0 DEF TypeOK
  <2>3. ledger' \in FiniteLedger
    <3> HIDE DEF observed
    <3> QED BY <2>1, <2>2, TickLedger
  <2>4. profile' = Sampled(observed, reading) /\ profile' \in [Stoppable -> Profile]
    BY <1>1, SampledType DEF Reconcile
  <2>5. toResize' = Advise(ledger', profile', observed, unlisted)
    BY <1>1 DEF Reconcile
  <2>6. toResize' \subseteq [app : Stoppable, to : Nat]
    <3> HIDE DEF observed
    <3> QED BY <2>4, <2>5, AdviseType
  <2>7. toStop' \subseteq Stoppable /\ reached' \in BOOLEAN /\ last' = now
    BY <1>1 DEF Reconcile, Targets, Reached
  <2>8. pc' \in {"act", "adapt", "save"}
    BY <1>1, AfterActType DEF Reconcile
  <2>9. ledger' \in Ledger
    BY <2>3 DEF FiniteLedger
  <2>10. UNCHANGED <<now, adapting, up, saved, checkpoint, profiles, document, running, size, stamp, resized>>
    BY <1>1 DEF Reconcile, clusterVars
  <2>11. TypeOK'
    BY <1>0, <2>4, <2>6, <2>7, <2>8, <2>9, <2>10 DEF TypeOK, Time
  <2> QED BY <1>0, <2>3, <2>10, <2>11 DEF Typed
<1>2. ASSUME NEW confirmed \in BOOLEAN, ReconcileFails(confirmed) PROVE Typed'
  <2>1. {} \subseteq Workload
    OBVIOUS
  <2>2. Rolled(ledger) \in FiniteLedger /\ Taken(Rolled(ledger)) \in FiniteLedger
    BY <2>1, RolledType, TickLedger
  <2>3. ledger' \in FiniteLedger /\ ledger' \in Ledger
    BY <1>2, <2>2 DEF ReconcileFails, FiniteLedger
  <2>4. UNCHANGED <<now, adapting, up, pc, last, reached, toStop, saved, profile, toResize,
                    checkpoint, profiles, document, running, size, stamp, resized>>
    BY <1>2 DEF ReconcileFails, usageVars, clusterVars
  <2>5. TypeOK'
    BY <1>0, <2>3, <2>4 DEF TypeOK
  <2> QED BY <1>0, <2>3, <2>4, <2>5 DEF Typed
<1>3. ASSUME NEW w \in Workload, NEW ok \in BOOLEAN, Scale(w, ok) PROVE Typed'
  <2>1. pc' \in {"act", "adapt", "save"}
    BY <1>3, AfterActType DEF Scale
  <2>2. UNCHANGED <<now, adapting, up, ledger, last, reached, saved, profile, toResize,
                    checkpoint, profiles, document, size, stamp, resized>>
    BY <1>3 DEF Scale, usageVars
  <2>3. running' \subseteq running /\ toStop' \subseteq toStop
    BY <1>3 DEF Scale
  <2>4. TypeOK'
    BY <1>0, <2>1, <2>2, <2>3 DEF TypeOK
  <2> QED BY <1>0, <2>2, <2>4 DEF Typed
<1>4. ASSUME NEW a \in toResize, NEW how \in {"stored", "refused", "answer lost"}, Resize(a, how)
      PROVE  Typed'
  <2>1. pc' \in {"act", "adapt", "save"}
    BY <1>4, AfterActType DEF Resize
  <2>2. UNCHANGED <<now, adapting, up, ledger, last, reached, toStop, saved, profile,
                    checkpoint, profiles, document, running>>
    BY <1>4 DEF Resize
  <2>3. toResize' \subseteq toResize
    BY <1>4 DEF Resize
  <2>4. a.app \in Stoppable /\ a.to \in Nat /\ AdmissionFloor \in Nat
    BY <1>0, KernelAssumption DEF TypeOK
  <2>5. Max({a.to, AdmissionFloor}) \in Nat
    BY <2>4, MaxOfNats
  <2>6. size' \in [Workload -> Nat]
    BY <1>0, <1>4, <2>4, <2>5 DEF Resize, TypeOK
  <2>7. stamp' \in [Stoppable -> Time] /\ resized' \in [Stoppable -> Time]
    BY <1>0, <1>4, <2>4 DEF Resize, TypeOK, StampedBy, Time
  <2>8. TypeOK'
    BY <1>0, <2>1, <2>2, <2>3, <2>6, <2>7 DEF TypeOK
  <2> QED BY <1>0, <2>2, <2>8 DEF Typed
<1>5. ASSUME NEW ok \in BOOLEAN, Checkpoint(ok) PROVE Typed'
  <2>1. UNCHANGED <<now, adapting, up, ledger, last, reached, toStop, profile, toResize,
                    profiles, document, running, size, stamp, resized>>
    BY <1>5 DEF Checkpoint, usageVars, clusterVars
  <2>2. pc' \in {"saveUsage", "idle"} /\ saved' \in {now, saved} /\ checkpoint' \in {checkpoint, {Snapshot}}
    BY <1>5 DEF Checkpoint
  <2>3. Snapshot \in [ledger : Ledger, last : Time, reached : BOOLEAN] /\ Snapshot.ledger = ledger
    BY <1>0 DEF Snapshot, TypeOK
  <2>4. /\ checkpoint' \subseteq [ledger : Ledger, last : Time, reached : BOOLEAN]
        /\ \A cp \in checkpoint' : cp.ledger \in FiniteLedger
    BY <1>0, <2>2, <2>3 DEF TypeOK
  <2>5. saved' \in Time
    BY <1>0, <2>2 DEF TypeOK, Time
  <2>6. TypeOK'
    BY <1>0, <2>1, <2>2, <2>4, <2>5 DEF TypeOK
  <2> QED BY <1>0, <2>1, <2>4, <2>6 DEF Typed
<1>6. ASSUME NEW ok \in BOOLEAN, SaveUsage(ok) PROVE Typed'
  <2>1. profile' \in [Stoppable -> Profile]
    BY <1>0, <1>6, RememberedType DEF SaveUsage, TypeOK
  <2>2. profiles' \in [Stoppable -> Profile]
    BY <1>0, <1>6, <2>1 DEF SaveUsage, SaveProfiles, TypeOK
  <2>3. pc' = "idle" /\ UNCHANGED <<now, adapting, up, ledger, last, reached, toStop, toResize, saved,
                   checkpoint, document, running, size, stamp, resized>>
    BY <1>6 DEF SaveUsage, clusterVars
  <2>4. TypeOK'
    BY <1>0, <2>1, <2>2, <2>3 DEF TypeOK
  <2> QED BY <1>0, <2>3, <2>4 DEF Typed
<1>7. ASSUME NEW ok \in BOOLEAN, Start(ok) PROVE Typed'
  <2>1. NewLedger(now) \in FiniteLedger
    BY <1>0, NewLedgerType DEF TypeOK
  <2>2. \A cp \in checkpoint : Restored(cp.ledger) \in FiniteLedger
    BY <1>0, RestoredType
  <2>3. ledger' \in FiniteLedger /\ last' \in Time /\ reached' \in BOOLEAN
    BY <1>0, <1>7, <2>1, <2>2 DEF Start, TypeOK, Resumed, Time
  <2>4. profile' \in [Stoppable -> Profile]
    BY <1>0, <1>7, RememberedType DEF Start, RestoredProfiles, TypeOK
  <2>5. up' = TRUE /\ saved' = Never /\ UNCHANGED <<now, adapting, pc, toStop, toResize, checkpoint,
            profiles, document, running, size, stamp, resized>>
    BY <1>7 DEF Start, clusterVars
  <2>6. ledger' \in Ledger /\ saved' \in Time
    BY <2>3, <2>5 DEF FiniteLedger, Time
  <2>7. TypeOK'
    BY <1>0, <2>3, <2>4, <2>5, <2>6 DEF TypeOK
  <2> QED BY <1>0, <2>3, <2>5, <2>7 DEF Typed
<1>8. ASSUME Crash PROVE Typed'
  BY <1>0, <1>8, StoppedType DEF Crash, TypeOK
<1>9. ASSUME Terminate PROVE Typed'
  <2>1. profiles' \in [Stoppable -> Profile]
    BY <1>0, <1>9, RememberedType DEF Terminate, TypeOK
  <2> QED BY <1>9, <2>1, StoppedType DEF Terminate
<1>10. ASSUME Pass PROVE Typed'
  <2>1. now' \in Hour
    BY <1>0, <1>10, LedgerAssumption DEF Pass, TypeOK, Hour
  <2>2. UNCHANGED <<adapting, up, pc, ledger, last, reached, toStop, saved, profile, toResize,
                    checkpoint, profiles, document, running, size, stamp, resized>>
    BY <1>10 DEF Pass, processVars, usageVars, clusterVars
  <2>3. TypeOK'
    BY <1>0, <2>1, <2>2 DEF TypeOK
  <2> QED BY <1>0, <2>2, <2>3 DEF Typed
<1>11. ASSUME NEW c \in Confirmation, PushConfirmation(c) PROVE Typed'
  <2>1. UNCHANGED <<now, adapting, up, pc, ledger, last, reached, toStop, saved, profile, toResize,
                    checkpoint, profiles, running, size, stamp, resized>>
    BY <1>11 DEF PushConfirmation, processVars, usageVars, clusterVars
  <2>2. PICK K \in SUBSET document : document' = K \union {c}
    BY <1>11 DEF PushConfirmation, Kept
  <2>3. IsFiniteSet(document')
    BY <1>0, <2>2, FS_Subset, FS_AddElement
  <2>4. document' \subseteq Confirmation
    BY <1>0, <2>2 DEF TypeOK
  <2>5. TypeOK'
    BY <1>0, <2>1, <2>4 DEF TypeOK
  <2> QED BY <1>0, <2>1, <2>3, <2>5 DEF Typed
<1>12. ASSUME NEW w \in Workload, Deploy(w) PROVE Typed'
  <2>1. UNCHANGED <<now, adapting, up, pc, ledger, last, reached, toStop, saved, profile, toResize,
                    checkpoint, profiles, document, stamp, resized>>
    BY <1>12 DEF Deploy, processVars, usageVars
  <2>2. size' \in [Workload -> Nat] /\ running' \subseteq Workload
    BY <1>0, <1>12, KernelAssumption DEF Deploy, TypeOK
  <2>3. TypeOK'
    BY <1>0, <2>1, <2>2 DEF TypeOK
  <2> QED BY <1>0, <2>1, <2>3 DEF Typed
<1>13. ASSUME UNCHANGED vars PROVE Typed'
  <2>1. UNCHANGED <<now, adapting, up, pc, ledger, last, reached, toStop, saved, profile, toResize,
                    checkpoint, profiles, document, running, size, stamp, resized>>
    BY <1>13 DEF vars, processVars, usageVars, clusterVars
  <2>2. TypeOK'
    BY <1>0, <2>1 DEF TypeOK
  <2> QED BY <1>0, <2>1, <2>2 DEF Typed
<1> QED
  BY <1>1, <1>2, <1>3, <1>4, <1>5, <1>6, <1>7, <1>8, <1>9, <1>10, <1>11, <1>12, <1>13 DEF Next

\* The kernel starts typed.
LEMMA TypedInit == Init => Typed
<1> SUFFICES ASSUME Init PROVE Typed
  OBVIOUS
<1>1. 0 \in Hour /\ NewLedger(0) \in FiniteLedger
  BY Hours, NewLedgerType
<1>2. ledger \in Ledger /\ ledger \in FiniteLedger
  BY <1>1 DEF Init, FiniteLedger
<1>3. IsFiniteSet({})
  BY FS_EmptySet
<1>4. profile \in [Stoppable -> Profile] /\ profiles = profile
  BY RememberedType DEF Init
<1>5. size \in [Workload -> Nat]
  BY KernelAssumption DEF Init
<1>6. TypeOK
  BY <1>1, <1>2, <1>4, <1>5 DEF Init, TypeOK, Time
<1> QED BY <1>2, <1>3, <1>6 DEF Typed, Init

\* In every run the kernel's state has its type: a peak kept is a level that
\* was seen, an accrued hour is a natural, a period's start is an hour.
THEOREM KernelTyped == Spec => []TypeOK
<1>1. Typed => TypeOK
  BY DEF Typed
<1> QED BY <1>1, TypedInit, TypedStep, PTL DEF Spec

\* Whatever confirmations the operator pushes, and however often the kernel
\* restarts from a checkpoint that holds them, the total that enforcement
\* compares with the limit is at least half of what was metered.
THEOREM GuardNeverOff == Spec => []GuardStaysOn
<1>1. Typed => GuardStaysOn
  BY GuardOfLedger DEF Typed, GuardStaysOn
<1> QED BY <1>1, TypedInit, TypedStep, PTL DEF Spec

-----------------------------------------------------------------------------
(* Cooling down *)

\* The annotation says when the kernel resized; resizes are in hand only while
\* a tick acts, one for each application, none of which is cooling down.
Stamped ==
    /\ stamp = resized
    /\ pc \notin {"act", "adapt"} => toResize = {}
    /\ \A a \in toResize : ~CoolingDown(a.app)
    /\ \A a, b \in toResize : a.app = b.app => a = b

\* Every step keeps the stamps, and the resizes in hand away from what is
\* cooling down.
LEMMA StampedStep == Typed /\ Stamped /\ [Next]_vars => Stamped'
<1> SUFFICES ASSUME Typed, Stamped, [Next]_vars PROVE Stamped'
  OBVIOUS
<1>0. TypeOK
  BY DEF Typed
<1>1. ASSUME NEW unread \in SUBSET MayRefuse, NEW unlisted \in SUBSET MayRefuse,
             NEW reading \in Readings, Reconcile(unread, unlisted, reading)
      PROVE  Stamped'
  <2> DEFINE observed == running \ unread
  <2>1. profile' \in [Stoppable -> Profile]
    BY <1>1, SampledType DEF Reconcile
  <2>2. toResize' = Advise(ledger', profile', observed, unlisted)
    BY <1>1 DEF Reconcile
  <2>3. UNCHANGED <<now, stamp, resized>> /\ (toResize' # {} => pc' \in {"act", "adapt"})
    BY <1>1, AfterActType DEF Reconcile, clusterVars
  <2> HIDE DEF observed
  <2>4. \A a \in toResize' : /\ a \in [app : Stoppable, to : Nat] /\ ~CoolingDown(a.app)
                             /\ a.to \in Recommend(profile'[a.app], now)
    BY <2>1, <2>2, AdviseType
  <2>5. ASSUME NEW a \in toResize', NEW b \in toResize', a.app = b.app PROVE a = b
    <3>1. PICK w \in Stoppable : w = a.app /\ w = b.app
      BY <2>4, <2>5
    <3>2. a.to \in Recommend(profile'[w], now) /\ b.to \in Recommend(profile'[w], now)
      BY <2>4, <3>1
    <3>3. profile'[w] \in Profile /\ now \in Hour
      BY <1>0, <2>1 DEF TypeOK
    <3>4. a.to = b.to
      BY <3>2, <3>3, RecommendType
    <3> QED BY <2>4, <2>5, <3>4
  <2>6. stamp' = resized'
    BY <2>3 DEF Stamped
  <2>7. \A a \in toResize' : ~CoolingDown(a.app)'
    BY <2>3, <2>4 DEF CoolingDown
  <2> QED BY <2>3, <2>5, <2>6, <2>7 DEF Stamped
<1>2. ASSUME NEW a \in toResize, NEW how \in {"stored", "refused", "answer lost"}, Resize(a, how)
      PROVE  Stamped'
  <2>1. a.app \in Stoppable /\ stamp \in [Stoppable -> Time] /\ resized \in [Stoppable -> Time]
    BY <1>0 DEF TypeOK
  <2>2. stamp' = resized'
    BY <1>2, <2>1 DEF Resize, StampedBy, Stamped
  <2>3. toResize' = toResize \ {a} /\ now' = now /\ (toResize' # {} => pc' \in {"act", "adapt"})
    BY <1>2, AfterActType DEF Resize
  <2>4. ASSUME NEW b \in toResize' PROVE stamp'[b.app] = stamp[b.app]
    <3>1. b.app # a.app /\ b.app \in Stoppable
      BY <1>0, <2>3 DEF Stamped, TypeOK
    <3> QED BY <1>2, <2>1, <3>1 DEF Resize, StampedBy
  <2>5. \A b \in toResize' : ~CoolingDown(b.app)'
    BY <2>3, <2>4 DEF CoolingDown, Stamped
  <2> QED BY <2>2, <2>3, <2>5 DEF Stamped
<1>3. ASSUME UNCHANGED <<now, stamp, resized, toResize>>,
             toResize # {} => pc' \in {"act", "adapt"}
      PROVE  Stamped'
  BY <1>3 DEF Stamped, CoolingDown
<1>4. ASSUME NEW confirmed \in BOOLEAN, ReconcileFails(confirmed) PROVE Stamped'
  BY <1>3, <1>4 DEF ReconcileFails, usageVars, clusterVars, Stamped
<1>5. ASSUME NEW w \in Workload, NEW ok \in BOOLEAN, Scale(w, ok) PROVE Stamped'
  BY <1>3, <1>5, AfterActType DEF Scale, usageVars
<1>6. ASSUME NEW ok \in BOOLEAN, Checkpoint(ok) \/ SaveUsage(ok) \/ Start(ok) PROVE Stamped'
  BY <1>3, <1>6 DEF Checkpoint, SaveUsage, Start, usageVars, clusterVars, Stamped
<1>7. ASSUME Crash \/ Terminate PROVE Stamped'
  <2>1. Stopped
    BY <1>7 DEF Crash, Terminate
  <2> QED BY <2>1 DEF Stopped, clusterVars, Stamped, CoolingDown
<1>8. ASSUME Pass PROVE Stamped'
  <2>1. toResize = {} /\ toResize' = {} /\ stamp' = resized'
    BY <1>8 DEF Pass, processVars, usageVars, clusterVars, Stamped
  <2> QED BY <2>1 DEF Stamped
<1>9. ASSUME NEW c \in Confirmation, PushConfirmation(c) PROVE Stamped'
  BY <1>3, <1>9 DEF PushConfirmation, processVars, usageVars, clusterVars, Stamped
<1>10. ASSUME NEW w \in Workload, Deploy(w) PROVE Stamped'
  BY <1>3, <1>10 DEF Deploy, processVars, usageVars, Stamped
<1>11. ASSUME UNCHANGED vars PROVE Stamped'
  BY <1>3, <1>11 DEF vars, processVars, usageVars, clusterVars, Stamped
<1> QED
  BY <1>1, <1>2, <1>4, <1>5, <1>6, <1>7, <1>8, <1>9, <1>10, <1>11 DEF Next

\* Every resize in hand is of an application whose cooldown is over.
LEMMA InHandIsCool ==
    ASSUME Typed, Stamped, NEW a \in toResize
    PROVE  resized[a.app] = Never \/ now - resized[a.app] >= Cooldown
<1>1. a.app \in Stoppable /\ resized \in [Stoppable -> Time] /\ now \in Hour
  BY DEF Typed, TypeOK
<1>2. resized[a.app] \in Int /\ now \in Int
  <2>1. resized[a.app] \in Time /\ now \in Time
    BY <1>1 DEF Time
  <2> QED BY <2>1, TimeIsInt
<1>3. ~CoolingDown(a.app) /\ stamp = resized
  BY DEF Stamped
<1>4. Cooldown \in Nat
  BY KernelAssumption
<1> QED BY <1>2, <1>3, <1>4 DEF CoolingDown

\* An application the kernel resized is left alone for the cooldown, by this
\* process and by the next, whatever the cluster stored, whatever answer was
\* lost, and whoever redeployed it since.
THEOREM CooldownAlwaysKept == Spec => CooldownKept
<1>1. Init => Stamped
  BY DEF Init, Stamped
<1>2. Typed /\ Stamped /\ [Next]_vars =>
        [\A a \in toResize : up' /\ a \notin toResize' =>
           resized[a.app] = Never \/ now - resized[a.app] >= Cooldown]_vars
  BY InHandIsCool
<1> QED BY <1>1, <1>2, TypedInit, TypedStep, StampedStep, PTL DEF Spec, CooldownKept

-----------------------------------------------------------------------------
(* The accounts *)

\* What may be reserved: the manifest's size unless the kernel adapts, and
\* never more than the levels call for.
Sized ==
    /\ \A w \in Workload : ~(adapting /\ w \in Stoppable) => size[w] = FirstSize[w]
    /\ \A w \in Workload : size[w] <= MaxSize
    /\ \A w \in Stoppable : profile[w].request <= MaxSize /\ profiles[w].request <= MaxSize
    /\ \A a \in toResize : adapting /\ a.to <= MaxSize

MaxCost ==
    SumFunction([w \in Workload |->
        Rate[w] * IF adapting /\ w \in Stoppable THEN MaxSize ELSE FirstSize[w]])

\* Accounts kept up to la hold nothing from there on, nothing outside their
\* period, and no hour of more than everything costs.
AccruedTo(l, la) ==
    /\ l.start <= now /\ la <= now /\ la < PeriodEnd(l)
    /\ \E q \in Nat : l.start = q * PeriodLength
    /\ \A h \in Hour : h < l.start \/ h >= PeriodEnd(l) \/ h >= la => l.hourly[h] = 0
    /\ \A h \in Hour : l.hourly[h] <= MaxCost

\* They begin in their period, if a tick was billed to them or to the last.
Begun(l, la) ==
    /\ l.since = Never <=> la = Never
    /\ l.since # Never => /\ l.start <= l.since
                          /\ \A h \in l.since .. la - 1 : l.hourly[h] >= Rate[System]

Accounts ==
    /\ AccruedTo(ledger, last)
    /\ \A cp \in checkpoint : AccruedTo(cp.ledger, cp.last)

Beginnings ==
    /\ System \in running
    /\ Begun(ledger, last)
    /\ \A cp \in checkpoint : Begun(cp.ledger, cp.last)

\* Nothing the kernel observes costs more an hour than everything.
LEMMA HourlyBound ==
    ASSUME Typed, Sized, NEW observed, observed \subseteq Workload
    PROVE  HourlyOf(observed) \in Nat /\ HourlyOf(observed) <= MaxCost
<1> DEFINE f == [w \in observed |-> Hourly(w)]
           g == [w \in Workload |->
                   Rate[w] * IF adapting /\ w \in Stoppable THEN MaxSize ELSE FirstSize[w]]
<1>1. IsFiniteSet(Workload) /\ observed \in SUBSET Workload
  BY KernelAssumption
<1>2. IsFiniteSet(observed)
  BY <1>1, FS_Subset
<1>3. size \in [Workload -> Nat]
  BY DEF Typed, TypeOK
<1>4. \A w \in Workload : g[w] \in Nat
  BY KernelAssumption, MaxSizeBounds
<1>5. ASSUME NEW w \in observed PROVE f[w] \in Int /\ g[w] \in Int /\ f[w] <= 1 * g[w]
  <2>1. PICK r \in Nat : r = Rate[w]
    BY <1>1, KernelAssumption
  <2>2. PICK n \in Nat : n = size[w]
    BY <1>1, <1>3
  <2>3. PICK m \in Nat : m = IF adapting /\ w \in Stoppable THEN MaxSize ELSE FirstSize[w]
    BY <1>1, KernelAssumption, MaxSizeBounds
  <2>4. n <= m
    BY <1>1, <2>2, <2>3 DEF Sized
  <2>5. r * n <= r * m /\ r * n \in Nat /\ r * m \in Nat
    BY ONLY r \in Nat, n \in Nat, m \in Nat, <2>4
  <2>6. f[w] = r * n /\ g[w] = r * m
    BY <1>1, <2>1, <2>2, <2>3 DEF Hourly
  <2> QED BY <2>5, <2>6
<1>6. HourlyOf(observed) = SumFunctionOnSet(f, observed)
  BY SumOver DEF HourlyOf
<1>7. MaxCost = SumFunctionOnSet(g, Workload)
  BY SumOver DEF MaxCost
<1> HIDE DEF f, g
<1>8. SumFunctionOnSet(f, observed) <= 1 * SumFunctionOnSet(g, observed)
  BY <1>2, <1>5, SumBound
<1>9. SumFunctionOnSet(g, observed) <= SumFunctionOnSet(g, Workload)
  BY <1>1, <1>4, SumSubset
<1>10. SumFunctionOnSet(g, observed) \in Int /\ SumFunctionOnSet(g, Workload) \in Int
  <2>1. \A w \in Workload : g[w] \in Int
    BY <1>4
  <2> QED BY <1>1, <1>2, <2>1, SumType
<1>11. HourlyOf(observed) \in Nat
  BY <1>1, <1>3, HourlyOfType
<1>12. ASSUME NEW x \in Nat, NEW y \in Int, NEW z \in Int, x <= 1 * y, y <= z PROVE x <= z
  BY <1>12
<1> QED BY <1>6, <1>7, <1>8, <1>9, <1>10, <1>11, <1>12

\* What everything costs does not change, and is what BilledOnce allows.
LEMMA MaxCostIs ==
    ASSUME Typed, Sized
    PROVE  MaxCost \in Nat /\ MaxCost = AllRates
<1> DEFINE g == [w \in Workload |->
                   Rate[w] * IF adapting /\ w \in Stoppable THEN MaxSize ELSE FirstSize[w]]
           e == [w \in Workload |->
                   Rate[w] * IF adapting /\ w \in Stoppable THEN MaxSize ELSE size[w]]
<1>1. g = e
  BY DEF Sized
<1>2. AllRates = MaxCost
  BY <1>1 DEF AllRates, MaxCost
<1>3. HourlyOf({}) \in Nat /\ HourlyOf({}) <= MaxCost
  BY HourlyBound
<1>4. IsFiniteSet(Workload)
  BY KernelAssumption
<1>5. \A w \in Workload : g[w] \in Int /\ g[w] >= 0
  BY KernelAssumption, MaxSizeBounds
<1>6. MaxCost = SumFunctionOnSet(g, Workload)
  BY SumOver DEF MaxCost
<1> HIDE DEF g
<1>7. SumFunctionOnSet(g, Workload) \in Int /\ SumFunctionOnSet(g, Workload) >= 0
  BY <1>4, <1>5, SumType
<1> QED BY <1>2, <1>6, <1>7

\* Every step keeps reservations within their bounds.
LEMMA SizedStep == Typed /\ Sized /\ [Next]_vars => Sized'
<1> SUFFICES ASSUME Typed, Sized, [Next]_vars PROVE Sized'
  OBVIOUS
<1>0. TypeOK
  BY DEF Typed
<1>a. MaxSize' = MaxSize /\ MaxSize \in Nat
  BY MaxSizeBounds DEF MaxSize, ScaleUp
<1>b. \A w \in Stoppable : w \in Workload
  BY KernelAssumption
<1>1. ASSUME NEW unread \in SUBSET MayRefuse, NEW unlisted \in SUBSET MayRefuse,
             NEW reading \in Readings, Reconcile(unread, unlisted, reading)
      PROVE  Sized'
  <2> DEFINE observed == running \ unread
  <2>1. profile' = Sampled(observed, reading)
    BY <1>1 DEF Reconcile
  <2>2. profile' \in [Stoppable -> Profile]
    BY <2>1, SampledType
  <2>3. \A w \in Stoppable : profile'[w].request <= MaxSize
    BY <1>b, <2>1, SampledType DEF Sized
  <2>4. toResize' = Advise(ledger', profile', observed, unlisted)
    BY <1>1 DEF Reconcile
  <2> HIDE DEF observed
  <2>5. ASSUME NEW a \in toResize' PROVE adapting /\ a.to <= MaxSize
    <3>1. adapting /\ a.app \in Stoppable /\ a.to \in Recommend(profile'[a.app], now)
      BY <2>2, <2>4, AdviseType
    <3>2. profile'[a.app] \in Profile /\ now \in Hour /\ profile'[a.app].request <= MaxSize
      BY <1>0, <2>2, <2>3, <3>1 DEF TypeOK
    <3> QED BY <3>1, <3>2, RecommendType
  <2>6. UNCHANGED <<adapting, profiles, size>>
    BY <1>1 DEF Reconcile, clusterVars
  <2> QED BY <1>a, <2>3, <2>5, <2>6 DEF Sized
<1>2. ASSUME NEW a \in toResize, NEW how \in {"stored", "refused", "answer lost"}, Resize(a, how)
      PROVE  Sized'
  <2>1. /\ a.app \in Stoppable /\ a.app \in Workload /\ a.to \in Nat /\ AdmissionFloor \in Nat
        /\ size \in [Workload -> Nat]
    BY <1>0, <1>b, KernelAssumption DEF TypeOK
  <2>2. Max({a.to, AdmissionFloor}) <= MaxSize
    BY <2>1, MaxOfNats, MaxSizeBounds DEF Sized
  <2>3. \A w \in Workload : size'[w] = size[w] \/ (w = a.app /\ size'[w] = Max({a.to, AdmissionFloor}))
    BY <1>2, <2>1 DEF Resize
  <2>4. adapting /\ UNCHANGED <<adapting, profile, profiles>> /\ toResize' \subseteq toResize
    BY <1>2 DEF Resize, Sized
  <2>5. \A w \in Workload : size'[w] <= MaxSize
    BY <2>2, <2>3 DEF Sized
  <2>6. \A w \in Workload : ~(adapting' /\ w \in Stoppable) => size'[w] = FirstSize[w]
    BY <2>1, <2>3, <2>4 DEF Sized
  <2> QED BY <1>a, <2>4, <2>5, <2>6 DEF Sized
<1>3. ASSUME UNCHANGED <<adapting, size, profile, profiles>>, toResize' \subseteq toResize
      PROVE  Sized'
  BY <1>3, <1>a DEF Sized
<1>4. ASSUME NEW confirmed \in BOOLEAN, ReconcileFails(confirmed) PROVE Sized'
  BY <1>3, <1>4 DEF ReconcileFails, usageVars, clusterVars
<1>5. ASSUME NEW w \in Workload, NEW ok \in BOOLEAN, Scale(w, ok) PROVE Sized'
  BY <1>3, <1>5 DEF Scale, usageVars
<1>6. ASSUME NEW ok \in BOOLEAN, Checkpoint(ok) PROVE Sized'
  BY <1>3, <1>6 DEF Checkpoint, usageVars, clusterVars
<1>7. ASSUME NEW ok \in BOOLEAN, SaveUsage(ok) PROVE Sized'
  <2>1. \A w \in Stoppable : Remembered(profile[w], now).request <= MaxSize
    <3> SUFFICES ASSUME NEW w \in Stoppable PROVE Remembered(profile[w], now).request <= MaxSize
      OBVIOUS
    <3>1. Remembered(profile[w], now) \in {profile[w], NoProfile} /\ NoProfile.request = 0
      BY <1>0, RememberedType DEF TypeOK
    <3> QED BY <1>a, <3>1 DEF Sized
  <2>2. \A w \in Stoppable : profile'[w] = Remembered(profile[w], now)
    BY <1>7 DEF SaveUsage
  <2>3. profiles' \in {profile', profiles}
    BY <1>7 DEF SaveUsage, SaveProfiles
  <2>4. UNCHANGED <<adapting, size, toResize>>
    BY <1>7 DEF SaveUsage, clusterVars
  <2>5. \A w \in Stoppable : profile'[w].request <= MaxSize /\ profiles'[w].request <= MaxSize
    BY <2>1, <2>2, <2>3 DEF Sized
  <2> QED BY <1>a, <2>4, <2>5 DEF Sized
<1>8. ASSUME NEW ok \in BOOLEAN, Start(ok) PROVE Sized'
  <2>1. UNCHANGED <<adapting, size, profiles, toResize>>
    BY <1>8 DEF Start, clusterVars
  <2>2. \A w \in Stoppable : profile'[w] \in {profiles[w], NoProfile}
    BY <1>8 DEF Start, RestoredProfiles
  <2>3. \A w \in Stoppable : profile'[w].request <= MaxSize
    BY <1>a, <2>2, RememberedType DEF Sized
  <2> QED BY <1>a, <2>1, <2>3 DEF Sized
<1>9. ASSUME Crash PROVE Sized'
  BY <1>3, <1>9 DEF Crash, Stopped, clusterVars
<1>10. ASSUME Terminate PROVE Sized'
  <2>1. \A w \in Stoppable : Remembered(profile[w], now).request <= MaxSize
    <3> SUFFICES ASSUME NEW w \in Stoppable PROVE Remembered(profile[w], now).request <= MaxSize
      OBVIOUS
    <3>1. Remembered(profile[w], now) \in {profile[w], NoProfile} /\ NoProfile.request = 0
      BY <1>0, RememberedType DEF TypeOK
    <3> QED BY <1>a, <3>1 DEF Sized
  <2>2. \A w \in Stoppable : profiles'[w] = Remembered(profile[w], now)
    BY <1>10 DEF Terminate
  <2>3. UNCHANGED <<adapting, size, profile>> /\ toResize' = {}
    BY <1>10 DEF Terminate, Stopped, clusterVars
  <2>4. \A w \in Stoppable : profiles'[w].request <= MaxSize
    BY <2>1, <2>2
  <2> QED BY <1>a, <2>3, <2>4 DEF Sized
<1>11. ASSUME Pass PROVE Sized'
  BY <1>3, <1>11 DEF Pass, processVars, usageVars, clusterVars
<1>12. ASSUME NEW c \in Confirmation, PushConfirmation(c) PROVE Sized'
  BY <1>3, <1>12 DEF PushConfirmation, processVars, usageVars, clusterVars
<1>13. ASSUME NEW w \in Workload, Deploy(w) PROVE Sized'
  <2>1. UNCHANGED <<adapting, profile, profiles, toResize>>
    BY <1>13 DEF Deploy, processVars, usageVars
  <2>2. \A v \in Workload : size'[v] \in {size[v], FirstSize[v]}
    BY <1>0, <1>13 DEF Deploy, TypeOK
  <2>3. \A v \in Workload : FirstSize[v] <= MaxSize
    BY MaxSizeBounds
  <2> QED BY <1>a, <2>1, <2>2, <2>3 DEF Sized
<1>14. ASSUME UNCHANGED vars PROVE Sized'
  BY <1>3, <1>14 DEF vars, processVars, usageVars, clusterVars
<1> QED
  BY <1>1, <1>2, <1>4, <1>5, <1>6, <1>7, <1>8, <1>9, <1>10, <1>11, <1>12, <1>13, <1>14 DEF Next

\* The numbers an account is about.
LEMMA AccountTypes ==
    ASSUME NEW l \in FiniteLedger, NEW la \in Time
    PROVE  /\ l.start \in Int /\ la \in Int /\ PeriodEnd(l) \in Int /\ PeriodLength \in Nat
           /\ PeriodEnd(l) = l.start + PeriodLength
           /\ \A h \in Hour : h \in Int /\ l.hourly[h] \in Nat
<1>1. l.start \in Hour /\ l.hourly \in [Hour -> Nat]
  BY DEF FiniteLedger, Ledger
<1>2. \A h \in Hour : h \in Int
  BY Hours
<1>3. la \in Int
  BY TimeIsInt
<1>4. PeriodLength \in Nat
  BY LedgerAssumption
<1>5. l.start \in Int
  BY <1>1, <1>2
<1> QED BY <1>1, <1>2, <1>3, <1>4, <1>5 DEF PeriodEnd

\* A roll leaves accounts that are kept up to the same hour.
LEMMA RolledAccrued ==
    ASSUME Typed, Sized, AccruedTo(ledger, last)
    PROVE  AccruedTo(Rolled(ledger), last)
<1>1. CASE now < PeriodEnd(ledger)
  BY <1>1, RolledType
<1>2. CASE ~(now < PeriodEnd(ledger))
  <2> DEFINE r == Rolled(ledger)
  <2>1. /\ r \in FiniteLedger /\ r.start = PeriodStart(now) /\ \A h \in Hour : r.hourly[h] = 0
        /\ now < PeriodEnd(r)
    BY <1>2, RolledType
  <2>2. now \in Hour /\ last \in Time
    BY DEF Typed, TypeOK
  <2> HIDE DEF r
  <2>3. r.start <= now /\ \E q \in Nat : r.start = q * PeriodLength
    BY <2>1, <2>2, PeriodHolds
  <2>4. PeriodEnd(r) \in Int /\ last \in Int /\ now \in Int
    BY <2>1, <2>2, AccountTypes
  <2>5. last <= now /\ last < PeriodEnd(r)
    BY <2>1, <2>4 DEF AccruedTo
  <2>6. \A h \in Hour : r.hourly[h] <= MaxCost
    BY <2>1, MaxCostIs
  <2>7. AccruedTo(r, last)
    BY <2>1, <2>3, <2>5, <2>6 DEF AccruedTo
  <2> QED BY <2>7 DEF r
<1> QED BY <1>1, <1>2

\* Ledgers with the same accounts.
LEMMA AccruedSame ==
    ASSUME NEW l, NEW m, NEW la, AccruedTo(l, la), m.start = l.start, m.hourly = l.hourly
    PROVE  AccruedTo(m, la)
BY DEF AccruedTo, PeriodEnd

\* Where billing goes on from: never before the last tick or the period.
LEMMA BilledFromBounds ==
    ASSUME Typed, NEW l \in FiniteLedger
    PROVE  /\ BilledFrom(l) \in Int
           /\ last = Never => BilledFrom(l) = now
           /\ last # Never => /\ BilledFrom(l) >= last /\ BilledFrom(l) >= l.start
                              /\ BilledFrom(l) = last \/ BilledFrom(l) = l.start
<1>1. last \in Time /\ now \in Time
  BY DEF Typed, TypeOK, Time
<1>2. last \in Int /\ now \in Int /\ l.start \in Int
  BY <1>1, TimeIsInt, AccountTypes
<1> QED BY <1>2 DEF BilledFrom

\* A tick bills hours that had not been billed, of its own period.
LEMMA MeteredAccrued ==
    ASSUME Typed, Sized, AccruedTo(ledger, last), NEW observed, observed \subseteq Workload,
           NEW m, m = Metered(Taken(Rolled(ledger)), observed)
    PROVE  /\ m.start <= now /\ now < PeriodEnd(m)
           /\ \E q \in Nat : m.start = q * PeriodLength
           /\ \A h \in Hour : h < m.start \/ h >= PeriodEnd(m) \/ h >= now => m.hourly[h] = 0
           /\ \A h \in Hour : m.hourly[h] <= MaxCost
<1>1. PICK r : r = Rolled(ledger)
  OBVIOUS
<1>2. PICK k : k = Taken(r)
  OBVIOUS
<1>3. PICK c : c = HourlyOf(observed)
  OBVIOUS
<1>4. r \in FiniteLedger /\ k \in FiniteLedger /\ m \in FiniteLedger
  BY <1>1, <1>2, RolledType, TickLedger
<1>5. /\ k.start = r.start /\ m.start = r.start
      /\ \A h \in Hour : m.hourly[h] = IF BilledFrom(k) <= h /\ h < now THEN r.hourly[h] + c
                                       ELSE r.hourly[h]
  BY <1>1, <1>2, <1>3, TickLedger
<1>6. AccruedTo(r, last) /\ now < PeriodEnd(r)
  BY <1>1, RolledAccrued, RolledType
<1>7. c \in Nat /\ c <= MaxCost /\ MaxCost \in Nat
  BY <1>3, HourlyBound, MaxCostIs
<1>8. now \in Hour /\ last \in Time /\ now \in Int
  BY AccountTypes, Hours DEF Typed, TypeOK
<1>9. PeriodEnd(m) = PeriodEnd(r)
  BY <1>5 DEF PeriodEnd
<1>10. /\ BilledFrom(k) \in Int
       /\ last = Never => BilledFrom(k) = now
       /\ last # Never => BilledFrom(k) >= last /\ BilledFrom(k) >= r.start
  BY <1>4, <1>5, BilledFromBounds
<1>11. ASSUME NEW h \in Hour
       PROVE  /\ h < m.start \/ h >= PeriodEnd(m) \/ h >= now => m.hourly[h] = 0
              /\ m.hourly[h] <= MaxCost
  <2>1. /\ h \in Int /\ r.start \in Int /\ last \in Int /\ PeriodEnd(r) \in Int /\ r.hourly[h] \in Nat
    BY <1>4, <1>8, AccountTypes
  <2>2. /\ h < r.start \/ h >= PeriodEnd(r) \/ h >= last => r.hourly[h] = 0
        /\ r.hourly[h] <= MaxCost
        /\ last <= now /\ r.start <= now
    BY <1>6 DEF AccruedTo
  <2>3. CASE BilledFrom(k) <= h /\ h < now
    <3>1. last # Never
      BY <1>8, <1>10, <2>1, <2>3
    <3>2. h >= last /\ h >= r.start /\ h < PeriodEnd(r)
      BY <1>6, <1>8, <1>10, <2>1, <2>3, <3>1
    <3>3. m.hourly[h] = c
      BY <1>5, <1>7, <2>2, <2>3, <3>2
    <3>4. ~(h < m.start \/ h >= PeriodEnd(m) \/ h >= now)
      BY <1>5, <1>8, <1>9, <2>1, <2>3, <3>2
    <3> QED BY <1>7, <3>3, <3>4
  <2>4. CASE ~(BilledFrom(k) <= h /\ h < now)
    <3>1. m.hourly[h] = r.hourly[h]
      BY <1>5, <2>4
    <3>2. h >= now => h >= last
      BY <1>8, <2>1, <2>2
    <3> QED BY <1>5, <1>9, <2>2, <3>1, <3>2
  <2> QED BY <2>3, <2>4
<1>12. r.start <= now /\ \E q \in Nat : r.start = q * PeriodLength
  BY <1>6 DEF AccruedTo
<1> QED BY <1>5, <1>6, <1>9, <1>11, <1>12

\* Accounts stay kept as time passes.
LEMMA AccruedLater ==
    ASSUME Typed, now' \in Hour, now <= now', adapting' = adapting, NEW l \in FiniteLedger, NEW la \in Time,
           AccruedTo(l, la)
    PROVE  AccruedTo(l, la)'
<1>1. now \in Int /\ now' \in Int
  BY Hours DEF Typed, TypeOK
<1>2. l.start \in Int /\ la \in Int
  BY AccountTypes
<1>3. MaxCost' = MaxCost
  BY DEF MaxCost
<1>4. l.start <= now' /\ la <= now'
  BY <1>1, <1>2 DEF AccruedTo
<1> QED BY <1>3, <1>4 DEF AccruedTo

\* Time only passes, and what a checkpoint holds is what the kernel held.
LEMMA StepFacts ==
    ASSUME Typed, [Next]_vars
    PROVE  /\ now' \in Hour /\ now <= now' /\ adapting' = adapting
           /\ checkpoint' = checkpoint \/ checkpoint' = {Snapshot}
           /\ \/ ledger' = ledger /\ last' = last
              \/ \E unread, unlisted \in SUBSET MayRefuse, reading \in Readings :
                   Reconcile(unread, unlisted, reading)
              \/ \E confirmed \in BOOLEAN : ReconcileFails(confirmed)
              \/ \E ok \in BOOLEAN : Start(ok)
<1>0. now \in Hour /\ now \in Int
  BY Hours DEF Typed, TypeOK
<1>1. ASSUME NEW unread \in SUBSET MayRefuse, NEW unlisted \in SUBSET MayRefuse,
             NEW reading \in Readings, Reconcile(unread, unlisted, reading)
      PROVE  now' = now /\ adapting' = adapting /\ checkpoint' = checkpoint
  BY <1>1 DEF Reconcile
<1>2. ASSUME NEW confirmed \in BOOLEAN, ReconcileFails(confirmed)
      PROVE  now' = now /\ adapting' = adapting /\ checkpoint' = checkpoint
  BY <1>2 DEF ReconcileFails
<1>3. ASSUME NEW ok \in BOOLEAN, Start(ok)
      PROVE  now' = now /\ adapting' = adapting /\ checkpoint' = checkpoint
  BY <1>3 DEF Start
<1>4. ASSUME NEW w \in Workload, NEW ok \in BOOLEAN, Scale(w, ok)
      PROVE  UNCHANGED <<now, adapting, checkpoint, ledger, last>>
  BY <1>4 DEF Scale
<1>5. ASSUME NEW a \in toResize, NEW how \in {"stored", "refused", "answer lost"}, Resize(a, how)
      PROVE  UNCHANGED <<now, adapting, checkpoint, ledger, last>>
  BY <1>5 DEF Resize
<1>6. ASSUME NEW ok \in BOOLEAN, Checkpoint(ok)
      PROVE  /\ UNCHANGED <<now, adapting, ledger, last>>
             /\ checkpoint' = checkpoint \/ checkpoint' = {Snapshot}
  BY <1>6 DEF Checkpoint
<1>7. ASSUME NEW ok \in BOOLEAN, SaveUsage(ok)
      PROVE  UNCHANGED <<now, adapting, checkpoint, ledger, last>>
  BY <1>7 DEF SaveUsage
<1>8. ASSUME Crash \/ Terminate
      PROVE  /\ UNCHANGED <<now, adapting, ledger, last>>
             /\ checkpoint' = checkpoint \/ checkpoint' = {Snapshot}
  BY <1>8 DEF Crash, Terminate, Stopped
<1>9. ASSUME Pass
      PROVE  now' \in Hour /\ now <= now' /\ UNCHANGED <<adapting, checkpoint, ledger, last>>
  BY <1>0, <1>9, LedgerAssumption DEF Pass, processVars, Hour
<1>10. ASSUME NEW c \in Confirmation, PushConfirmation(c)
       PROVE  UNCHANGED <<now, adapting, checkpoint, ledger, last>>
  BY <1>10 DEF PushConfirmation, processVars
<1>11. ASSUME NEW w \in Workload, Deploy(w)
       PROVE  UNCHANGED <<now, adapting, checkpoint, ledger, last>>
  BY <1>11 DEF Deploy, processVars
<1>12. ASSUME UNCHANGED vars PROVE UNCHANGED <<now, adapting, checkpoint, ledger, last>>
  BY <1>12 DEF vars, processVars
<1>13. now <= now
  BY <1>0
<1>14. CASE \E unread, unlisted \in SUBSET MayRefuse, reading \in Readings :
              Reconcile(unread, unlisted, reading)
  BY <1>0, <1>1, <1>13, <1>14
<1>15. CASE \E confirmed \in BOOLEAN : ReconcileFails(confirmed)
  BY <1>0, <1>2, <1>13, <1>15
<1>16. CASE \E ok \in BOOLEAN : Start(ok)
  BY <1>0, <1>3, <1>13, <1>16
<1>17. CASE ~ \/ \E unread, unlisted \in SUBSET MayRefuse, reading \in Readings :
                   Reconcile(unread, unlisted, reading)
              \/ \E confirmed \in BOOLEAN : ReconcileFails(confirmed)
              \/ \E ok \in BOOLEAN : Start(ok)
  <2>1. /\ now' \in Hour /\ now <= now' /\ adapting' = adapting
        /\ checkpoint' = checkpoint \/ checkpoint' = {Snapshot}
        /\ ledger' = ledger /\ last' = last
    BY <1>0, <1>4, <1>5, <1>6, <1>7, <1>8, <1>9, <1>10, <1>11, <1>12, <1>13, <1>17 DEF Next
  <2> QED BY <2>1
<1> QED BY <1>14, <1>15, <1>16, <1>17

\* Every step keeps every account, the checkpointed ones too.
LEMMA AccountsStep == Typed /\ Sized /\ Accounts /\ [Next]_vars => Accounts'
<1> SUFFICES ASSUME Typed, Sized, Accounts, [Next]_vars PROVE Accounts'
  OBVIOUS
<1>0. /\ ledger \in FiniteLedger /\ last \in Time /\ now \in Hour
      /\ \A cp \in checkpoint : cp.ledger \in FiniteLedger /\ cp.last \in Time
  BY DEF Typed, TypeOK
<1>1. now' \in Hour /\ now <= now' /\ adapting' = adapting
  BY StepFacts
<1>2. ASSUME NEW cp \in checkpoint PROVE AccruedTo(cp.ledger, cp.last)'
  <2>1. AccruedTo(cp.ledger, cp.last)
    BY DEF Accounts
  <2> QED BY <1>0, <1>1, <2>1, AccruedLater
<1>3. PICK l : l = ledger
  OBVIOUS
<1>4. PICK la : la = last
  OBVIOUS
<1>5. AccruedTo(l, la)
  BY <1>3, <1>4 DEF Accounts
<1>6. AccruedTo(l, la)'
  BY <1>0, <1>1, <1>3, <1>4, <1>5, AccruedLater
<1>7. \A cp \in checkpoint' : AccruedTo(cp.ledger, cp.last)'
  <2>1. checkpoint' = checkpoint \/ checkpoint' = {Snapshot}
    BY StepFacts
  <2>2. CASE checkpoint' = checkpoint
    BY <1>2, <2>2
  <2>3. CASE checkpoint' = {Snapshot}
    <3> SUFFICES ASSUME NEW cp \in checkpoint' PROVE AccruedTo(cp.ledger, cp.last)'
      OBVIOUS
    <3>1. cp.ledger = l /\ cp.last = la
      BY <1>3, <1>4, <2>3 DEF Snapshot
    <3> QED BY <1>6, <3>1
  <2> QED BY <2>1, <2>2, <2>3
<1>8. AccruedTo(ledger, last)'
  <2>1. CASE ledger' = ledger /\ last' = last
    BY <1>3, <1>4, <1>6, <2>1 DEF AccruedTo
  <2>2. ASSUME NEW unread \in SUBSET MayRefuse, NEW unlisted \in SUBSET MayRefuse,
               NEW reading \in Readings, Reconcile(unread, unlisted, reading)
        PROVE  AccruedTo(ledger, last)'
    <3>1. PICK o : o = running \ unread
      OBVIOUS
    <3>2. PICK m : m = Metered(Taken(Rolled(ledger)), o)
      OBVIOUS
    <3>3. ledger' = m /\ last' = now /\ now' = now
      BY <2>2, <3>1, <3>2 DEF Reconcile
    <3>4. o \subseteq Workload
      BY <3>1 DEF Typed, TypeOK
    <3>5. /\ m.start <= now /\ now < PeriodEnd(m)
          /\ \E q \in Nat : m.start = q * PeriodLength
          /\ \A h \in Hour : h < m.start \/ h >= PeriodEnd(m) \/ h >= now => m.hourly[h] = 0
          /\ \A h \in Hour : m.hourly[h] <= MaxCost
      BY <1>3, <1>4, <1>5, <3>2, <3>4, MeteredAccrued DEF Accounts
    <3>6. PICK n : n = now
      OBVIOUS
    <3>7. MaxCost' = MaxCost /\ n <= n
      BY <1>0, <1>1, <3>6, Hours DEF MaxCost
    <3> QED BY <3>3, <3>5, <3>6, <3>7 DEF AccruedTo, PeriodEnd
  <2>3. ASSUME NEW confirmed \in BOOLEAN, ReconcileFails(confirmed) PROVE AccruedTo(ledger, last)'
    <3>1. PICK r : r = Rolled(ledger)
      OBVIOUS
    <3>2. PICK k : k = IF confirmed THEN Taken(r) ELSE r
      OBVIOUS
    <3>3. ledger' = k /\ last' = la
      BY <1>4, <2>3, <3>1, <3>2 DEF ReconcileFails
    <3>4. r \in FiniteLedger /\ AccruedTo(r, la)
      BY <1>3, <1>4, <1>5, <3>1, RolledType, RolledAccrued DEF Accounts
    <3>5. {} \subseteq Workload
      OBVIOUS
    <3>6. k.start = r.start /\ k.hourly = r.hourly /\ k \in FiniteLedger
      BY <3>1, <3>2, <3>4, <3>5, TickLedger
    <3>7. AccruedTo(k, la)
      BY <3>4, <3>6, AccruedSame
    <3>8. AccruedTo(k, la)'
      BY <1>0, <1>1, <1>4, <3>6, <3>7, AccruedLater
    <3> QED BY <3>3, <3>8 DEF AccruedTo
  <2>4. ASSUME NEW ok \in BOOLEAN, Start(ok) PROVE AccruedTo(ledger, last)'
    <3>1. CASE ledger' = NewLedger(now) /\ last' = Never
      <4>1. PICK k : k = NewLedger(now)
        OBVIOUS
      <4>2. k \in FiniteLedger /\ k.start = PeriodStart(now) /\ \A h \in Hour : k.hourly[h] = 0
        BY <1>0, <4>1, NewLedgerType
      <4>3. k.start <= now /\ now < k.start + PeriodLength /\ \E q \in Nat : k.start = q * PeriodLength
        BY <1>0, <4>2, PeriodHolds
      <4>4. now \in Int /\ now > Never /\ k.start \in Int /\ PeriodLength \in Int
        BY <1>0, <4>2, Hours, AccountTypes
      <4>5. Never <= now /\ Never < k.start + PeriodLength
        BY <4>3, <4>4 DEF Never
      <4>6. \A h \in Hour : k.hourly[h] <= MaxCost
        BY <4>2, MaxCostIs
      <4>7. AccruedTo(k, Never)
        BY <4>2, <4>3, <4>5, <4>6 DEF AccruedTo, PeriodEnd
      <4>8. AccruedTo(k, Never)'
        BY <1>0, <1>1, <4>2, <4>7, AccruedLater DEF Time
      <4> QED BY <3>1, <4>1, <4>8 DEF AccruedTo
    <3>2. CASE \E cp \in checkpoint : ledger' = Restored(cp.ledger) /\ last' = cp.last
      <4>1. PICK cp \in checkpoint : ledger' = Restored(cp.ledger) /\ last' = cp.last
        BY <3>2
      <4>2. PICK k : k = Restored(cp.ledger)
        OBVIOUS
      <4>3. k.start = cp.ledger.start /\ k.hourly = cp.ledger.hourly
        BY <1>0, <4>2, RestoredType
      <4>4. AccruedTo(cp.ledger, cp.last)'
        BY <1>2
      <4>5. AccruedTo(k, cp.last)'
        BY <4>3, <4>4 DEF AccruedTo, PeriodEnd
      <4> QED BY <4>1, <4>2, <4>5 DEF AccruedTo
    <3> QED BY <2>4, <3>1, <3>2 DEF Start, Resumed
  <2> QED BY <2>1, <2>2, <2>3, <2>4, StepFacts
<1> QED BY <1>7, <1>8 DEF Accounts

\* The kernel's first accounts are empty.
LEMMA AccountsInit == Init => Sized /\ Accounts
<1> SUFFICES ASSUME Init PROVE Sized /\ Accounts
  OBVIOUS
<1>1. Typed
  BY TypedInit
<1>2. Sized
  <2>1. \A w \in Workload : size[w] = FirstSize[w] /\ size[w] <= MaxSize
    BY MaxSizeBounds DEF Init
  <2>2. \A w \in Stoppable : profile[w].request = 0 /\ profiles[w].request = 0
    BY RememberedType DEF Init
  <2>3. MaxSize \in Nat /\ toResize = {}
    BY MaxSizeBounds DEF Init
  <2> QED BY <2>1, <2>2, <2>3 DEF Sized
<1>3. 0 \in Hour /\ now = 0 /\ ledger = NewLedger(0) /\ last = Never /\ checkpoint = {}
  BY Hours DEF Init
<1>4. ledger \in FiniteLedger /\ ledger.start = PeriodStart(0) /\ \A h \in Hour : ledger.hourly[h] = 0
  BY <1>3, NewLedgerType
<1>5. /\ PeriodStart(0) <= 0 /\ 0 < PeriodStart(0) + PeriodLength /\ PeriodStart(0) \in Int
      /\ \E q \in Nat : PeriodStart(0) = q * PeriodLength
  <2>1. PICK t \in Hour : t = 0
    BY <1>3
  <2>2. /\ PeriodStart(t) \in Hour /\ PeriodStart(t) <= t /\ t < PeriodStart(t) + PeriodLength
        /\ \E q \in Nat : PeriodStart(t) = q * PeriodLength
    BY PeriodHolds
  <2>3. PeriodStart(t) \in Int
    BY <2>2, Hours
  <2> QED BY <2>1, <2>2, <2>3
<1>6. Never <= 0 /\ Never < PeriodStart(0) + PeriodLength
  <2>1. PeriodLength \in Int
    BY LedgerAssumption
  <2> QED BY <1>5, <2>1 DEF Never
<1>7. \A h \in Hour : ledger.hourly[h] <= MaxCost
  BY <1>1, <1>2, <1>4, MaxCostIs
<1>8. AccruedTo(ledger, last)
  BY <1>3, <1>4, <1>5, <1>6, <1>7 DEF AccruedTo, PeriodEnd
<1> QED BY <1>2, <1>3, <1>8 DEF Accounts

\* No hour is billed twice, and none to a period it is not of: not after a
\* restart from an old checkpoint, not across a roll, not after ticks failed,
\* whatever the periods, the rates and the resizes.
THEOREM NeverBilledTwice == Spec => []BilledOnce
<1>1. ASSUME Typed, Sized, Accounts PROVE BilledOnce
  <2> SUFFICES ASSUME NEW h \in Hour
               PROVE  ledger.hourly[h] <= IF ledger.start <= h /\ h < PeriodEnd(ledger)
                                          THEN AllRates ELSE 0
    BY DEF BilledOnce
  <2>1. ledger \in FiniteLedger /\ last \in Time
    BY <1>1 DEF Typed, TypeOK
  <2>2. h \in Int /\ ledger.start \in Int /\ PeriodEnd(ledger) \in Int
    BY <2>1, AccountTypes
  <2>3. /\ h < ledger.start \/ h >= PeriodEnd(ledger) => ledger.hourly[h] = 0
        /\ ledger.hourly[h] <= MaxCost
    BY <1>1 DEF Accounts, AccruedTo
  <2>4. MaxCost = AllRates
    BY <1>1, MaxCostIs
  <2> QED BY <2>2, <2>3, <2>4
<1> QED BY <1>1, TypedInit, TypedStep, AccountsInit, SizedStep, AccountsStep, PTL DEF Spec

-----------------------------------------------------------------------------
(* The hours between *)

\* Periods do not overlap: one that an hour is past the end of has ended by the
\* start of the hour's own.
LEMMA PeriodsApart ==
    ASSUME NEW q \in Nat, NEW t \in Hour, ~(t < q * PeriodLength + PeriodLength)
    PROVE  q * PeriodLength + PeriodLength <= PeriodStart(t)
<1>1. PICK L \in Nat : L = PeriodLength /\ L > 0
  BY LedgerAssumption
<1>2. PICK n \in Int : n = t
  BY Hours
<1>3. PICK p \in Nat : PeriodStart(t) = p * L /\ n < p * L + L
  BY <1>1, <1>2, PeriodHolds
<1>4. n >= q * L + L
  BY <1>1, <1>2
<1>5. q * L \in Nat /\ p * L \in Nat /\ (q + 1) * L = q * L + L
  OBVIOUS
<1>6. q >= p => q * L >= p * L
  OBVIOUS
<1>7. q + 1 <= p
  BY ONLY <1>1, <1>2, <1>3, <1>4, <1>5, <1>6, q \in Nat, p \in Nat, L \in Nat
<1>8. (q + 1) * L <= p * L
  BY ONLY <1>7, q \in Nat, p \in Nat, L \in Nat
<1> QED BY <1>1, <1>3, <1>5, <1>8

\* The new period's accounts begin where it does, after the last tick.
LEMMA RolledBegun ==
    ASSUME Typed, AccruedTo(ledger, last), Begun(ledger, last)
    PROVE  Begun(Rolled(ledger), last)
<1>0. ledger \in FiniteLedger /\ last \in Time /\ now \in Hour
  BY DEF Typed, TypeOK
<1>1. CASE now < PeriodEnd(ledger)
  BY <1>1, RolledType
<1>2. CASE ~(now < PeriodEnd(ledger))
  <2>1. PICK r : r = Rolled(ledger)
    OBVIOUS
  <2>2. /\ r.start = PeriodStart(now)
        /\ r.since = IF last = Never THEN Never ELSE PeriodStart(now)
    BY <1>2, <2>1, RolledType
  <2>3. PeriodStart(now) \in Hour /\ PeriodStart(now) \in Int /\ PeriodStart(now) > Never
    BY <1>0, PeriodHolds, Hours
  <2>4. PICK q \in Nat : ledger.start = q * PeriodLength
    BY DEF AccruedTo
  <2>5. PeriodEnd(ledger) = q * PeriodLength + PeriodLength
    BY <2>4 DEF PeriodEnd
  <2>6. PeriodEnd(ledger) <= PeriodStart(now)
    BY <1>0, <1>2, <2>5, PeriodsApart
  <2>7. last \in Int /\ PeriodEnd(ledger) \in Int
    BY <1>0, AccountTypes
  <2>8. last < PeriodStart(now)
    BY <2>3, <2>6, <2>7 DEF AccruedTo
  <2>9. CASE last = Never
    BY <2>1, <2>2, <2>9 DEF Begun
  <2>10. CASE last # Never
    <3>1. r.since = PeriodStart(now) /\ r.since # Never
      BY <2>2, <2>3, <2>10 DEF Never
    <3>2. r.since .. last - 1 = {}
      BY <2>3, <2>7, <2>8, <3>1
    <3>3. r.start <= r.since
      BY <2>2, <2>3, <3>1
    <3> QED BY <2>1, <2>10, <3>1, <3>2, <3>3 DEF Begun
  <2> QED BY <2>9, <2>10
<1> QED BY <1>1, <1>2

\* A tick that lists the system's namespace bills every hour since the last.
LEMMA MeteredBegun ==
    ASSUME Typed, Sized, AccruedTo(ledger, last), Begun(ledger, last),
           NEW observed, observed \subseteq Workload, System \in observed,
           NEW m, m = Metered(Taken(Rolled(ledger)), observed)
    PROVE  Begun(m, now)
<1>1. PICK r : r = Rolled(ledger)
  OBVIOUS
<1>2. PICK k : k = Taken(r)
  OBVIOUS
<1>3. PICK c : c = HourlyOf(observed)
  OBVIOUS
<1>4. r \in FiniteLedger /\ k \in FiniteLedger /\ m \in FiniteLedger
  BY <1>1, <1>2, RolledType, TickLedger
<1>5. /\ k.start = r.start /\ m.start = r.start
      /\ m.since = IF r.since = Never THEN now ELSE r.since
      /\ \A h \in Hour : m.hourly[h] = IF BilledFrom(k) <= h /\ h < now THEN r.hourly[h] + c
                                       ELSE r.hourly[h]
  BY <1>1, <1>2, <1>3, TickLedger
<1>6. AccruedTo(r, last) /\ Begun(r, last)
  BY <1>1, RolledAccrued, RolledBegun
<1>7. now \in Hour /\ last \in Time /\ now \in Int /\ now > Never /\ now <= MaxTime /\ last \in Int
  BY Hours, TimeIsInt DEF Typed, TypeOK
<1>8. Rate[System] \in Nat /\ c \in Nat /\ c >= Rate[System]
  <2>1. size \in [Workload -> Nat]
    BY DEF Typed, TypeOK
  <2>2. c \in Nat /\ Hourly(System) <= c
    BY <1>3, <2>1, HourlyOfType
  <2>3. PICK s \in Nat : s = FirstSize[System] /\ s >= 1
    BY KernelAssumption
  <2>4. PICK x \in Nat : x = Rate[System]
    BY KernelAssumption
  <2>5. size[System] = s
    BY <2>3, KernelAssumption DEF Sized
  <2>6. Hourly(System) = x * s
    BY <2>4, <2>5 DEF Hourly
  <2>7. x * s >= x /\ x * s \in Nat
    BY ONLY <2>3, x \in Nat, s \in Nat
  <2> QED BY <2>2, <2>4, <2>6, <2>7
<1>9. r.since \in Time /\ r.since \in Int /\ r.start \in Int
  <2>1. r.since \in Time
    BY <1>4 DEF FiniteLedger, Ledger, Time
  <2> QED BY <1>4, <2>1, TimeIsInt, AccountTypes
<1>10. m.since # Never /\ now # Never
  BY <1>5, <1>7 DEF Never
<1>11. m.start <= m.since
  BY <1>5, <1>6, <1>10 DEF AccruedTo, Begun
<1>12. ASSUME NEW h \in m.since .. now - 1 PROVE m.hourly[h] >= Rate[System]
  <2>1. CASE r.since = Never
    <3>1. m.since = now
      BY <1>5, <2>1
    <3> QED BY <1>7, <3>1
  <2>2. CASE r.since # Never
    <3>1. m.since = r.since /\ r.start <= r.since /\ last # Never
      BY <1>5, <1>6, <2>2 DEF Begun
    <3>2. r.since \in Hour
      BY <1>9, <2>2, TimeIsInt
    <3>3. r.since \in Nat
      BY <3>2, Hours
    <3>4. h \in Int /\ h >= r.since /\ h < now
      BY <1>7, <3>1, <3>3
    <3>5. h \in Hour
      BY <1>7, <3>3, <3>4, LedgerAssumption DEF Hour
    <3>6. r.hourly[h] \in Nat
      BY <1>4, <1>7, <3>5, AccountTypes
    <3>7. CASE h < last
      <4>1. h \in r.since .. last - 1
        BY <1>7, <3>3, <3>4, <3>7
      <4>2. r.hourly[h] >= Rate[System]
        BY <1>6, <2>2, <4>1 DEF Begun
      <4> QED BY <1>5, <1>8, <3>5, <3>6, <4>2
    <3>8. CASE h >= last
      <4>1. BilledFrom(k) = last \/ BilledFrom(k) = r.start
        BY <1>4, <1>5, <3>1, BilledFromBounds
      <4>2. BilledFrom(k) <= h
        BY <1>9, <3>1, <3>4, <3>8, <4>1
      <4>3. m.hourly[h] = r.hourly[h] + c
        BY <1>5, <3>4, <3>5, <4>2
      <4> QED BY <1>8, <3>6, <4>3
    <3> QED BY <1>7, <3>4, <3>7, <3>8
  <2> QED BY <2>1, <2>2
<1> QED BY <1>10, <1>11, <1>12 DEF Begun

\* Ledgers with the same accounts.
LEMMA BegunSame ==
    ASSUME NEW l, NEW m, NEW la, Begun(l, la),
           m.start = l.start, m.hourly = l.hourly, m.since = l.since
    PROVE  Begun(m, la)
BY DEF Begun

\* Every step that lists the system's namespace keeps the hours between.
LEMMA BeginningsStep ==
    ASSUME System \notin MayRefuse, Typed, Sized, Accounts, Beginnings, [Next]_vars
    PROVE  Beginnings'
<1>0. /\ ledger \in FiniteLedger /\ last \in Time /\ now \in Hour /\ running \subseteq Workload
      /\ \A cp \in checkpoint : cp.ledger \in FiniteLedger
  BY DEF Typed, TypeOK
<1>1. AccruedTo(ledger, last) /\ Begun(ledger, last) /\ \A cp \in checkpoint : Begun(cp.ledger, cp.last)
  BY DEF Accounts, Beginnings
<1>2. \A cp \in checkpoint' : Begun(cp.ledger, cp.last)
  <2>1. Begun(Snapshot.ledger, Snapshot.last)
    BY <1>1 DEF Snapshot
  <2> QED BY <1>1, <2>1, StepFacts
<1>3. Begun(ledger', last')
  <2>1. CASE ledger' = ledger /\ last' = last
    BY <1>1, <2>1
  <2>2. ASSUME NEW unread \in SUBSET MayRefuse, NEW unlisted \in SUBSET MayRefuse,
               NEW reading \in Readings, Reconcile(unread, unlisted, reading)
        PROVE  Begun(ledger', last')
    <3>1. PICK o : o = running \ unread
      OBVIOUS
    <3>2. PICK m : m = Metered(Taken(Rolled(ledger)), o)
      OBVIOUS
    <3>3. ledger' = m /\ last' = now
      BY <2>2, <3>1, <3>2 DEF Reconcile
    <3>4. o \subseteq Workload /\ System \in o
      BY <1>0, <3>1 DEF Beginnings
    <3>5. Begun(m, now)
      BY <1>1, <3>2, <3>4, MeteredBegun
    <3> QED BY <3>3, <3>5
  <2>3. ASSUME NEW confirmed \in BOOLEAN, ReconcileFails(confirmed) PROVE Begun(ledger', last')
    <3>1. PICK r : r = Rolled(ledger)
      OBVIOUS
    <3>2. PICK k : k = IF confirmed THEN Taken(r) ELSE r
      OBVIOUS
    <3>3. ledger' = k /\ last' = last
      BY <2>3, <3>1, <3>2 DEF ReconcileFails
    <3>4. {} \subseteq Workload
      OBVIOUS
    <3>5. k.start = r.start /\ k.hourly = r.hourly /\ k.since = r.since
      BY <3>1, <3>2, <3>4, TickLedger
    <3>6. Begun(r, last)
      BY <1>1, <3>1, RolledBegun
    <3>7. Begun(k, last)
      <4>1. PICK la : la = last
        OBVIOUS
      <4> QED BY <3>5, <3>6, <4>1, BegunSame
    <3> QED BY <3>3, <3>7
  <2>4. ASSUME NEW ok \in BOOLEAN, Start(ok) PROVE Begun(ledger', last')
    <3>1. CASE ledger' = NewLedger(now) /\ last' = Never
      <4>1. NewLedger(now).since = Never
        BY <1>0, NewLedgerType
      <4>2. Begun(NewLedger(now), Never)
        BY <4>1 DEF Begun
      <4> QED BY <3>1, <4>2
    <3>2. CASE \E cp \in checkpoint : ledger' = Restored(cp.ledger) /\ last' = cp.last
      <4>1. PICK cp \in checkpoint : ledger' = Restored(cp.ledger) /\ last' = cp.last
        BY <3>2
      <4>2. PICK k : k = Restored(cp.ledger)
        OBVIOUS
      <4>3. PICK l : l = cp.ledger
        OBVIOUS
      <4>4. k.start = l.start /\ k.hourly = l.hourly /\ k.since = l.since
        BY <1>0, <4>2, <4>3, RestoredType
      <4>5. Begun(k, cp.last)
        BY <1>1, <4>3, <4>4, BegunSame
      <4> QED BY <4>1, <4>2, <4>5
    <3> QED BY <2>4, <3>1, <3>2 DEF Start, Resumed
  <2> QED BY <2>1, <2>2, <2>3, <2>4, StepFacts
<1>4. System \in running'
  <2>0. System \notin Stoppable /\ System \in running /\ toStop \subseteq Stoppable
    BY KernelAssumption DEF Beginnings, Typed, TypeOK
  <2>1. ASSUME NEW w \in Workload, NEW ok \in BOOLEAN, Scale(w, ok) PROVE System \in running'
    BY <2>0, <2>1 DEF Scale
  <2>2. ASSUME NEW w \in Workload, Deploy(w) PROVE System \in running'
    BY <2>0, <2>2 DEF Deploy
  <2>3. CASE running' = running
    BY <2>0, <2>3
  <2>4. ASSUME NEW unread \in SUBSET MayRefuse, NEW unlisted \in SUBSET MayRefuse,
               NEW reading \in Readings, Reconcile(unread, unlisted, reading)
        PROVE  running' = running
    BY <2>4 DEF Reconcile, clusterVars
  <2>5. ASSUME NEW confirmed \in BOOLEAN, ReconcileFails(confirmed) PROVE running' = running
    BY <2>5 DEF ReconcileFails, clusterVars
  <2>6. ASSUME NEW a \in toResize, NEW how \in {"stored", "refused", "answer lost"}, Resize(a, how)
        PROVE  running' = running
    BY <2>6 DEF Resize
  <2>7. ASSUME NEW ok \in BOOLEAN, Checkpoint(ok) \/ SaveUsage(ok) \/ Start(ok)
        PROVE  running' = running
    BY <2>7 DEF Checkpoint, SaveUsage, Start, clusterVars
  <2>8. ASSUME Crash \/ Terminate \/ Pass PROVE running' = running
    BY <2>8 DEF Crash, Terminate, Stopped, Pass, clusterVars
  <2>9. ASSUME NEW c \in Confirmation, PushConfirmation(c) PROVE running' = running
    BY <2>9 DEF PushConfirmation, clusterVars
  <2>10. ASSUME UNCHANGED vars PROVE running' = running
    BY <2>10 DEF vars, clusterVars
  <2> QED
    BY <2>1, <2>2, <2>3, <2>4, <2>5, <2>6, <2>7, <2>8, <2>9, <2>10 DEF Next
<1> QED BY <1>2, <1>3, <1>4 DEF Beginnings, Begun

\* From the hour a ledger's accounts begin to the last tick every hour is
\* billed, across crashes, restarts, failed ticks and the start of a period,
\* as long as the system's own namespace lists when a tick succeeds: the hours
\* of a namespace that refuses are not billed.
THEOREM EveryHourBilled == System \notin MayRefuse => (Spec => []NoHourLost)
<1> SUFFICES ASSUME System \notin MayRefuse PROVE Spec => []NoHourLost
  OBVIOUS
<1>1. Init => Beginnings
  <2> SUFFICES ASSUME Init PROVE Beginnings
    OBVIOUS
  <2>1. ledger.since = Never /\ last = Never /\ checkpoint = {} /\ System \in running
    BY Hours, NewLedgerType, KernelAssumption DEF Init
  <2> QED BY <2>1 DEF Beginnings, Begun
<1>2. Beginnings => NoHourLost
  BY DEF Beginnings, Begun, NoHourLost
<1>3. Typed /\ Sized /\ Accounts /\ Beginnings /\ [Next]_vars => Beginnings'
  BY BeginningsStep
<1> QED
  BY <1>1, <1>2, <1>3, TypedInit, TypedStep, AccountsInit, SizedStep, AccountsStep, PTL DEF Spec

=============================================================================
