------------------------------- MODULE SetSums -------------------------------
(***************************************************************************)
(* Induction over the naturals, and the sums the models take over finite   *)
(* sets (MapThenSumSet of the community modules).  A sum is a recursive     *)
(* function that takes one element out at a time; these lemmas say that it *)
(* exists, that it is an integer, and that any element may go first.  Last  *)
(* the sequences that the models flatten (FlattenSeq).                      *)
(***************************************************************************)
EXTENDS Integers, FiniteSets, SequencesExt, FiniteSetsExt, FiniteSetTheorems,
        SequenceTheorems, WellFoundedInduction, TLAPS

Below == {pair \in Nat \X Nat : pair[1] < pair[2]}

\* A set of natural numbers has a smallest one.
LEMMA LeastNat ==
    ASSUME NEW S \in SUBSET Nat, S # {}
    PROVE  \E x \in S : \A y \in S : x <= y
<1>1. IsWellFoundedOn(Below, Nat)
  BY NatLessThanWellFounded DEF OpToRel, Below
<1>2. PICK m \in S : \A y \in S : ~(<<y, m>> \in Below)
  <2> HIDE DEF IsWellFoundedOn, Below
  <2> QED BY <1>1, WFMin
<1>3. \A y \in S : ~(y < m)
  BY <1>2 DEF Below
<1> QED BY <1>3

\* So Min is one of its elements.
LEMMA MinNat ==
    ASSUME NEW S \in SUBSET Nat, S # {}
    PROVE  Min(S) \in S /\ \A y \in S : Min(S) <= y
<1> DEFINE Least(x) == x \in S /\ \A y \in S : x <= y
<1>1. \E x : Least(x)
  BY LeastNat
<1>2. Min(S) = CHOOSE x : Least(x)
  BY Zenon DEF Min
<1>3. Least(Min(S))
  <2> HIDE DEF Least
  <2> QED BY <1>1, <1>2, Zenon
<1> QED BY <1>3

\* The smallest element, named by what it is.
LEMMA MinIs ==
    ASSUME NEW S \in SUBSET Int, NEW m \in S, \A y \in S : m <= y
    PROVE  Min(S) = m
<1> DEFINE Least(x) == x \in S /\ \A y \in S : x <= y
<1>1. Least(m)
  OBVIOUS
<1>2. Min(S) = CHOOSE x : Least(x)
  BY Zenon DEF Min
<1>3. Least(Min(S))
  <2> HIDE DEF Least
  <2> QED BY <1>1, <1>2, Zenon
<1>4. Min(S) \in Int /\ m \in Int /\ Min(S) <= m /\ m <= Min(S)
  BY <1>3
<1> QED BY <1>4

\* A member that is above all others is the largest.
LEMMA MaxIs ==
    ASSUME NEW S \in SUBSET Int, NEW m \in S, \A y \in S : y <= m
    PROVE  Max(S) = m
<1> DEFINE Most(x) == x \in S /\ \A y \in S : x >= y
<1>1. Most(m)
  OBVIOUS
<1>2. Max(S) = CHOOSE x : Most(x)
  BY Zenon DEF Max
<1>3. Most(Max(S))
  <2> HIDE DEF Most
  <2> QED BY <1>1, <1>2, Zenon
<1>4. Max(S) \in Int /\ m \in Int /\ Max(S) >= m /\ Max(S) <= m
  BY <1>3
<1> QED BY <1>4

\* A set of naturals that holds zero and every successor is all of them.
LEMMA Successors ==
    ASSUME NEW G, 0 \in G, \A n \in Nat : n \in G => n + 1 \in G
    PROVE  \A n \in Nat : n \in G
<1> DEFINE Out == {n \in Nat : n \notin G}
<1>1. SUFFICES ASSUME Out # {} PROVE FALSE
  OBVIOUS
<1>2. PICK m \in Out : \A y \in Out : m <= y
  BY <1>1, LeastNat
<1>3. m # 0
  BY <1>2
<1>4. m - 1 \in Nat /\ m - 1 \notin Out
  BY <1>2, <1>3
<1> QED BY <1>2, <1>4

-----------------------------------------------------------------------------
(***************************************************************************)
(* The recursion behind a sum over S, as a property of the function that    *)
(* holds the partial sums.                                                  *)
(***************************************************************************)

One(s) == CHOOSE x \in s : TRUE

IsRun(g, f, S) ==
    g = [s \in SUBSET S |-> IF s = {} THEN 0 ELSE f[One(s)] + g[s \ {One(s)}]]

TakesOut(g, f, s, x) == g[s] = f[x] + g[s \ {x}]

SumOver(f, S) == (CHOOSE g : IsRun(g, f, S))[S]

LEMMA TakeOne ==
    ASSUME NEW S, IsFiniteSet(S), NEW s \in SUBSET S, NEW x \in s
    PROVE  /\ IsFiniteSet(s)
           /\ Cardinality(s) \in Nat
           /\ Cardinality(s \ {x}) \in Nat
           /\ Cardinality(s \ {x}) = Cardinality(s) - 1
           /\ s \ {x} \in SUBSET S
<1>1. IsFiniteSet(s)
  BY FS_Subset
<1>2. Cardinality(s) \in Nat
  BY <1>1, FS_CardinalityType
<1>3. IsFiniteSet(s \ {x}) /\ Cardinality(s \ {x}) = Cardinality(s) - 1
  BY <1>1, FS_RemoveElement
<1>4. Cardinality(s \ {x}) \in Nat
  BY <1>3, FS_CardinalityType
<1> QED BY <1>1, <1>2, <1>3, <1>4

\* The partial sums exist, one size of subset after the other.
LEMMA RunExists ==
    ASSUME NEW S, IsFiniteSet(S), NEW f \in [S -> Int]
    PROVE  \E g \in [SUBSET S -> Int] : IsRun(g, f, S)
<1> DEFINE Small(n) == {s \in SUBSET S : Cardinality(s) <= n}
           Next(g, s) == IF s = {} THEN 0 ELSE f[One(s)] + g[s \ {One(s)}]
           Fits(g, n) == \A s \in Small(n) : g[s] = Next(g, s)
           G == {n \in Nat : \E g \in [Small(n) -> Int] : Fits(g, n)}
<1>1. \A s \in SUBSET S : s # {} => One(s) \in s
  BY Zenon DEF One
<1>2. \A s \in SUBSET S : Cardinality(s) \in Nat
  BY FS_Subset, FS_CardinalityType
<1>3. 0 \in G
  <2>1. \A s \in Small(0) : s = {}
    <3> SUFFICES ASSUME NEW s \in SUBSET S, Cardinality(s) <= 0 PROVE s = {}
      OBVIOUS
    <3>1. IsFiniteSet(s) /\ Cardinality(s) = 0
      BY <1>2, FS_Subset
    <3> QED BY <3>1, FS_EmptySet
  <2> DEFINE g == [s \in Small(0) |-> 0]
  <2>2. g \in [Small(0) -> Int]
    OBVIOUS
  <2>3. Fits(g, 0)
    BY <2>1
  <2> QED BY <2>2, <2>3
<1>4. ASSUME NEW n \in Nat, n \in G PROVE n + 1 \in G
  <2>1. PICK g \in [Small(n) -> Int] : Fits(g, n)
    BY <1>4
  <2>2. ASSUME NEW s \in Small(n + 1), s # {}
        PROVE  One(s) \in S /\ s \ {One(s)} \in Small(n)
    <3>1. One(s) \in s /\ One(s) \in S
      BY <1>1, <2>2
    <3>2. Cardinality(s \ {One(s)}) = Cardinality(s) - 1 /\ s \ {One(s)} \in SUBSET S
      BY <3>1, TakeOne
    <3>3. Cardinality(s) \in Nat /\ Cardinality(s) <= n + 1
      BY <1>2
    <3> QED BY <3>1, <3>2, <3>3
  <2> DEFINE h == [s \in Small(n + 1) |-> Next(g, s)]
  <2>3. h \in [Small(n + 1) -> Int]
    <3> SUFFICES ASSUME NEW s \in Small(n + 1) PROVE Next(g, s) \in Int
      OBVIOUS
    <3>1. CASE s = {}
      BY <3>1
    <3>2. CASE s # {}
      <4>1. f[One(s)] \in Int /\ g[s \ {One(s)}] \in Int
        BY <2>2, <3>2
      <4> HIDE DEF Small
      <4> QED BY <4>1, <3>2
    <3> QED BY <3>1, <3>2
  <2>4. \A s \in Small(n) : s \in Small(n + 1)
    BY <1>2
  <2>5. \A s \in Small(n) : h[s] = g[s]
    <3> HIDE DEF Small
    <3> QED BY <2>1, <2>4
  <2>6. Fits(h, n + 1)
    <3> SUFFICES ASSUME NEW s \in Small(n + 1) PROVE h[s] = Next(h, s)
      OBVIOUS
    <3> HIDE DEF Small
    <3> QED BY <2>2, <2>5
  <2> HIDE DEF h, Fits, Small
  <2> QED BY <2>3, <2>6
<1>5. \A n \in Nat : n \in G
  <2> HIDE DEF G
  <2> QED BY <1>3, <1>4, Successors
<1>6. Cardinality(S) \in Nat
  BY FS_CardinalityType
<1>7. PICK g \in [Small(Cardinality(S)) -> Int] : Fits(g, Cardinality(S))
  BY <1>5, <1>6
<1>8. Small(Cardinality(S)) = SUBSET S
  <2>1. \A s \in SUBSET S : Cardinality(s) <= Cardinality(S)
    BY FS_Subset
  <2> QED BY <2>1
<1>9. g \in [SUBSET S -> Int] /\ \A s \in SUBSET S : g[s] = Next(g, s)
  BY <1>7, <1>8
<1> QED BY <1>9 DEF IsRun

\* Any element may be the first one taken out.
LEMMA RunAnyOrder ==
    ASSUME NEW S, IsFiniteSet(S), NEW f \in [S -> Int],
           NEW g \in [SUBSET S -> Int], IsRun(g, f, S)
    PROVE  \A s \in SUBSET S : \A x \in s : TakesOut(g, f, s, x)
<1> DEFINE G == {n \in Nat : \A t \in SUBSET S :
                     Cardinality(t) = n => \A y \in t : g[t] = f[y] + g[t \ {y}]}
<1>1. \A t \in SUBSET S : t # {} => One(t) \in t
  BY Zenon DEF One
<1>2. \A t \in SUBSET S : IsFiniteSet(t) /\ Cardinality(t) \in Nat
  BY FS_Subset, FS_CardinalityType
<1>3. \A t \in SUBSET S : t # {} => g[t] = f[One(t)] + g[t \ {One(t)}]
  BY DEF IsRun
<1>4. 0 \in G
  BY <1>2, FS_EmptySet
<1>5. ASSUME NEW n \in Nat, n \in G PROVE n + 1 \in G
  <2> SUFFICES ASSUME NEW t \in SUBSET S, Cardinality(t) = n + 1, NEW y \in t
               PROVE  g[t] = f[y] + g[t \ {y}]
    OBVIOUS
  <2> DEFINE z == One(t)
  <2>1. z \in t /\ z \in S /\ y \in S
    BY <1>1
  <2>2. g[t] = f[z] + g[t \ {z}]
    BY <1>3
  <2>3. CASE y = z
    BY <2>2, <2>3
  <2>4. CASE y # z
    <3> HIDE DEF z
    <3>1. /\ t \ {y} \in SUBSET S /\ t \ {z} \in SUBSET S
          /\ (t \ {y}) \ {z} \in SUBSET S
          /\ Cardinality(t \ {y}) = n /\ Cardinality(t \ {z}) = n
      BY <2>1, TakeOne
    <3>2. y \in t \ {z} /\ z \in t \ {y} /\ (t \ {y}) \ {z} = (t \ {z}) \ {y}
      BY <2>1, <2>4
    <3>3. g[t \ {z}] = f[y] + g[(t \ {y}) \ {z}]
      BY <1>5, <3>1, <3>2
    <3>4. g[t \ {y}] = f[z] + g[(t \ {y}) \ {z}]
      BY <1>5, <3>1, <3>2
    <3>5. f[y] \in Int /\ f[z] \in Int /\ g[(t \ {y}) \ {z}] \in Int
      BY <2>1, <3>1
    <3> QED BY <2>2, <3>3, <3>4, <3>5
  <2> QED BY <2>3, <2>4
<1>6. \A n \in Nat : n \in G
  <2> HIDE DEF G
  <2> QED BY <1>4, <1>5, Successors
<1>7. \A t \in SUBSET S : \A y \in t : g[t] = f[y] + g[t \ {y}]
  BY <1>2, <1>6
<1> QED BY <1>7 DEF TakesOut

\* Two functions that agree on S have the same partial sums there, whatever
\* larger set the sums were taken over.
LEMMA RunUnique ==
    ASSUME NEW S, NEW T \in SUBSET S, IsFiniteSet(S), NEW f, NEW h,
           \A x \in T : f[x] = h[x],
           NEW g, IsRun(g, f, S), NEW k, IsRun(k, h, T)
    PROVE  \A s \in SUBSET T : g[s] = k[s]
<1> DEFINE G == {n \in Nat : \A s \in SUBSET T : Cardinality(s) = n => g[s] = k[s]}
<1>1. \A s \in SUBSET T : s # {} => One(s) \in s
  BY Zenon DEF One
<1>2. \A s \in SUBSET T : IsFiniteSet(s) /\ Cardinality(s) \in Nat
  BY FS_Subset, FS_CardinalityType
<1>3. \A s \in SUBSET T :
        /\ g[s] = IF s = {} THEN 0 ELSE f[One(s)] + g[s \ {One(s)}]
        /\ k[s] = IF s = {} THEN 0 ELSE h[One(s)] + k[s \ {One(s)}]
  <2>1. \A s \in SUBSET S : g[s] = IF s = {} THEN 0 ELSE f[One(s)] + g[s \ {One(s)}]
    BY Zenon DEF IsRun
  <2>2. \A s \in SUBSET T : k[s] = IF s = {} THEN 0 ELSE h[One(s)] + k[s \ {One(s)}]
    BY Zenon DEF IsRun
  <2> QED BY <2>1, <2>2, Zenon
<1>4. 0 \in G
  <2>1. \A s \in SUBSET T : Cardinality(s) = 0 => s = {}
    BY <1>2, FS_EmptySet
  <2> QED BY <1>3, <2>1
<1>5. ASSUME NEW n \in Nat, n \in G PROVE n + 1 \in G
  <2> SUFFICES ASSUME NEW s \in SUBSET T, Cardinality(s) = n + 1 PROVE g[s] = k[s]
    OBVIOUS
  <2>1. s # {}
    BY <1>2, FS_EmptySet
  <2>2. One(s) \in s
    BY <1>1, <2>1
  <2>3. Cardinality(s \ {One(s)}) = n /\ s \ {One(s)} \in SUBSET T
    BY <2>2, TakeOne
  <2>4. g[s \ {One(s)}] = k[s \ {One(s)}] /\ f[One(s)] = h[One(s)]
    BY <1>5, <2>2, <2>3
  <2> QED BY <1>3, <2>1, <2>4
<1>6. \A n \in Nat : n \in G
  <2> HIDE DEF G
  <2> QED BY <1>4, <1>5, Successors
<1> QED BY <1>2, <1>6

\* A run reads the values of its own set only.
LEMMA RunReadsItsSet ==
    ASSUME NEW S, NEW f, NEW h, \A x \in S : h[x] = f[x], NEW g, IsRun(g, f, S)
    PROVE  IsRun(g, h, S)
<1>1. \A s \in SUBSET S : s # {} => One(s) \in S
  <2>1. \A s \in SUBSET S : s # {} => One(s) \in s
    BY Zenon DEF One
  <2> QED BY <2>1
<1>2. \A s \in SUBSET S : s # {} => f[One(s)] = h[One(s)]
  BY <1>1
<1> DEFINE a(s) == IF s = {} THEN 0 ELSE f[One(s)] + g[s \ {One(s)}]
           b(s) == IF s = {} THEN 0 ELSE h[One(s)] + g[s \ {One(s)}]
<1>3. \A s \in SUBSET S : a(s) = b(s)
  BY <1>2
<1>4. g = [s \in SUBSET S |-> a(s)]
  BY Zenon DEF IsRun
<1>5. [s \in SUBSET S |-> a(s)] = [s \in SUBSET S |-> b(s)]
  <2> HIDE DEF a, b
  <2> QED BY <1>3
<1> QED BY <1>4, <1>5, Zenon DEF IsRun

-----------------------------------------------------------------------------
(***************************************************************************)
(* What a reader needs to know of a sum.                                    *)
(***************************************************************************)

LEMMA SumRun ==
    ASSUME NEW S, IsFiniteSet(S), NEW f \in [S -> Int]
    PROVE  \E g \in [SUBSET S -> Int] : IsRun(g, f, S) /\ SumOver(f, S) = g[S]
<1>1. PICK g \in [SUBSET S -> Int] : IsRun(g, f, S)
  BY RunExists
<1> DEFINE k == CHOOSE r : IsRun(r, f, S)
<1>2. IsRun(k, f, S)
  BY <1>1, Zenon
<1>3. SumOver(f, S) = k[S]
  BY Zenon DEF SumOver
<1> HIDE DEF k
<1>4. \A s \in SUBSET S : g[s] = k[s]
  BY <1>1, <1>2, RunUnique
<1> QED BY <1>1, <1>3, <1>4

LEMMA SumInt ==
    ASSUME NEW S, IsFiniteSet(S), NEW f \in [S -> Int]
    PROVE  SumOver(f, S) \in Int
<1>1. PICK g \in [SUBSET S -> Int] : IsRun(g, f, S) /\ SumOver(f, S) = g[S]
  BY SumRun
<1>2. S \in SUBSET S
  OBVIOUS
<1> QED BY <1>1, <1>2

LEMMA SumEmpty ==
    ASSUME NEW f
    PROVE  SumOver(f, {}) = 0
<1> DEFINE g == [s \in SUBSET {} |-> 0]
           k == CHOOSE r : IsRun(r, f, {})
<1>1. IsRun(g, f, {})
  BY DEF IsRun
<1>2. IsRun(k, f, {})
  BY <1>1, Zenon
<1>3. SumOver(f, {}) = k[{}]
  BY Zenon DEF SumOver
<1> HIDE DEF k
<1>4. k[{}] = 0
  BY <1>2 DEF IsRun
<1> QED BY <1>3, <1>4

SplitsOff(f, S, x, h) == SumOver(f, S) = f[x] + SumOver(h, S \ {x})

\* Taking any element out of a sum.
LEMMA SumOut ==
    ASSUME NEW S, IsFiniteSet(S), NEW f \in [S -> Int], NEW h, NEW x \in S,
           \A y \in S \ {x} : h[y] = f[y]
    PROVE  SplitsOff(f, S, x, h)
<1>1. PICK g \in [SUBSET S -> Int] : IsRun(g, f, S) /\ SumOver(f, S) = g[S]
  BY SumRun
<1>2. g[S] = f[x] + g[S \ {x}]
  <2>1. S \in SUBSET S
    OBVIOUS
  <2>2. \A s \in SUBSET S : \A y \in s : TakesOut(g, f, s, y)
    BY <1>1, RunAnyOrder
  <2> QED BY <2>1, <2>2 DEF TakesOut
<1> DEFINE T == S \ {x}
           e == [y \in T |-> f[y]]
<1>3. T \in SUBSET S /\ IsFiniteSet(T) /\ e \in [T -> Int]
  BY FS_Subset
<1>4. PICK r \in [SUBSET T -> Int] : IsRun(r, e, T)
  BY <1>3, RunExists
<1>6. IsRun(r, h, T)
  <2>1. \A y \in T : h[y] = e[y]
    OBVIOUS
  <2> HIDE DEF e, T
  <2> QED BY <1>4, <2>1, RunReadsItsSet
<1> DEFINE k == CHOOSE q : IsRun(q, h, T)
<1>7. IsRun(k, h, T)
  BY <1>6, Zenon
<1>8. SumOver(h, T) = k[T]
  BY Zenon DEF SumOver
<1> HIDE DEF k, T
<1>9. \A s \in SUBSET T : g[s] = k[s]
  <2>1. \A y \in T : f[y] = h[y]
    BY DEF T
  <2> QED BY <1>1, <1>3, <1>7, <2>1, RunUnique
<1> QED BY <1>1, <1>2, <1>8, <1>9 DEF T, SplitsOff

\* A sum only reads the values on its set.
LEMMA SumSame ==
    ASSUME NEW S, IsFiniteSet(S), NEW f \in [S -> Int], NEW h,
           \A y \in S : h[y] = f[y]
    PROVE  SumOver(h, S) = SumOver(f, S)
<1>1. PICK g \in [SUBSET S -> Int] : IsRun(g, f, S) /\ SumOver(f, S) = g[S]
  BY SumRun
<1>2. IsRun(g, h, S)
  BY <1>1, RunReadsItsSet
<1> DEFINE k == CHOOSE q : IsRun(q, h, S)
<1>3. IsRun(k, h, S)
  BY <1>2, Zenon
<1>4. SumOver(h, S) = k[S]
  BY Zenon DEF SumOver
<1> HIDE DEF k
<1>5. \A s \in SUBSET S : g[s] = k[s]
  <2>1. \A y \in S : h[y] = h[y]
    OBVIOUS
  <2> QED BY <1>2, <1>3, <2>1, RunUnique
<1> QED BY <1>1, <1>4, <1>5

LEMMA UpToLast ==
    ASSUME NEW lo \in Nat, NEW m \in Nat, lo <= m + 1
    PROVE  (lo .. (m + 1)) \ {m + 1} = lo .. m
  OBVIOUS

Telescopes(f, at, lo, hi) == SumOver(f, (lo + 1) .. hi) = at[hi] - at[lo]

\* A sum of differences keeps its two ends only.
LEMMA SumTelescopes ==
    ASSUME NEW lo \in Nat, NEW hi \in Nat, lo <= hi, NEW f, NEW at, at[lo] \in Int,
           \A k \in (lo + 1) .. hi : at[k] \in Int /\ f[k] = at[k] - at[k - 1]
    PROVE  Telescopes(f, at, lo, hi)
<1> DEFINE G == {d \in Nat : lo + d <= hi =>
                     SumOver(f, (lo + 1) .. (lo + d)) = at[lo + d] - at[lo]}
<1>1. 0 \in G
  <2>1. (lo + 1) .. (lo + 0) = {} /\ lo + 0 = lo
    OBVIOUS
  <2>2. SumOver(f, (lo + 1) .. (lo + 0)) = 0
    BY <2>1, SumEmpty
  <2>3. at[lo + 0] - at[lo] = 0
    BY <2>1
  <2> QED BY <2>2, <2>3
<1>2. \A k \in lo .. hi : at[k] \in Int
  OBVIOUS
<1>3. \A k \in (lo + 1) .. hi : f[k] \in Int
  BY <1>2
<1>4. ASSUME NEW d \in Nat, d \in G PROVE d + 1 \in G
  <2> DEFINE m == lo + d
             S == (lo + 1) .. (m + 1)
             e == [k \in S |-> f[k]]
  <2>0. lo + (d + 1) = m + 1 /\ m \in Nat /\ lo + 1 \in Nat /\ lo + 1 <= m + 1
    OBVIOUS
  <2> SUFFICES ASSUME m + 1 <= hi PROVE SumOver(f, S) = at[m + 1] - at[lo]
    BY <2>0
  <2>1. IsFiniteSet(S) /\ e \in [S -> Int] /\ m + 1 \in S
    BY <1>3, FS_Interval
  <2>2. S \ {m + 1} = (lo + 1) .. m
    <3> HIDE DEF m
    <3> QED BY <2>0, UpToLast
  <2>3. SumOver(f, S) = SumOver(e, S)
    <3>1. \A y \in S : f[y] = e[y]
      OBVIOUS
    <3> HIDE DEF S, e
    <3> QED BY <2>1, <3>1, SumSame
  <2>4. SumOver(e, S) = e[m + 1] + SumOver(f, S \ {m + 1})
    <3>1. \A y \in S \ {m + 1} : f[y] = e[y]
      OBVIOUS
    <3> HIDE DEF S, e
    <3>2. SplitsOff(e, S, m + 1, f)
      BY <2>1, <3>1, SumOut
    <3> QED BY <3>2 DEF SplitsOff
  <2>5. e[m + 1] = at[m + 1] - at[m]
    BY <2>1
  <2>6. SumOver(f, (lo + 1) .. m) = at[m] - at[lo]
    BY <1>4
  <2>7. at[lo] \in Int /\ at[m] \in Int /\ at[m + 1] \in Int
    BY <1>2
  <2> HIDE DEF e
  <2>8. SumOver(f, S) = at[m + 1] - at[m] + (at[m] - at[lo])
    BY <2>2, <2>3, <2>4, <2>5, <2>6
  <2> QED BY <2>7, <2>8
<1>5. \A d \in Nat : d \in G
  <2> HIDE DEF G
  <2> QED BY <1>1, <1>4, Successors
<1>6. hi - lo \in Nat /\ lo + (hi - lo) = hi
  OBVIOUS
<1>7. SumOver(f, (lo + 1) .. (lo + (hi - lo))) = at[lo + (hi - lo)] - at[lo]
  BY <1>5, <1>6
<1> QED BY <1>6, <1>7 DEF Telescopes

\* The sum of the first k values, one value after the other.
LEMMA SumUpTo ==
    ASSUME NEW f, NEW k \in Nat, \A i \in 1 .. k : f[i] \in Int
    PROVE  /\ SumOver(f, 1 .. k) \in Int
           /\ k > 0 => SumOver(f, 1 .. k) = SumOver(f, 1 .. (k - 1)) + f[k]
<1> DEFINE Typed(m) == SumOver(f, 1 .. m) \in Int
<1>1. ASSUME NEW m \in Nat, m <= k PROVE Typed(m)
  <2> DEFINE S == 1 .. m
             e == [i \in S |-> f[i]]
  <2>1. IsFiniteSet(S) /\ \A i \in S : f[i] \in Int
    BY <1>1, FS_Interval
  <2> HIDE DEF S
  <2>2. e \in [S -> Int] /\ \A i \in S : f[i] = e[i]
    BY <2>1
  <2> HIDE DEF e
  <2>3. SumOver(f, S) = SumOver(e, S) /\ SumOver(e, S) \in Int
    BY <2>1, <2>2, SumSame, SumInt
  <2> QED BY <2>3 DEF S
<1>2. ASSUME k > 0 PROVE SumOver(f, 1 .. k) = SumOver(f, 1 .. (k - 1)) + f[k]
  <2> DEFINE S == 1 .. k
             e == [i \in S |-> f[i]]
  <2>1. IsFiniteSet(S) /\ k \in S /\ S \ {k} = 1 .. (k - 1) /\ \A i \in S : f[i] \in Int
    BY <1>2, FS_Interval
  <2> HIDE DEF S
  <2>2. e \in [S -> Int] /\ \A i \in S : f[i] = e[i]
    BY <2>1
  <2> HIDE DEF e
  <2>3. SumOver(f, S) = SumOver(e, S)
    BY <2>1, <2>2, SumSame
  <2>4. SplitsOff(e, S, k, f)
    BY <2>1, <2>2, SumOut
  <2>5. SumOver(f, S) = f[k] + SumOver(f, 1 .. (k - 1))
    BY <2>1, <2>2, <2>3, <2>4 DEF SplitsOff
  <2>6. SumOver(f, 1 .. (k - 1)) \in Int /\ f[k] \in Int
    <3>1. k - 1 \in Nat /\ k - 1 <= k
      BY <1>2
    <3> QED BY <1>1, <2>1, <3>1
  <2> HIDE DEF Typed
  <2>7. SumOver(f, S) = SumOver(f, 1 .. (k - 1)) + f[k]
    BY <2>5, <2>6
  <2> QED BY <2>7 DEF S
<1>3. Typed(k)
  BY <1>1
<1> QED BY <1>2, <1>3

\* Zeros at its end do not count.
LEMMA SumZeroTail ==
    ASSUME NEW f, NEW n \in Nat, NEW c \in Nat, \A i \in 1 .. n : f[i] \in Int,
           \A i \in (n + 1) .. (n + c) : f[i] = 0
    PROVE  SumOver(f, 1 .. (n + c)) = SumOver(f, 1 .. n)
<1> DEFINE G == {d \in Nat : d <= c => SumOver(f, 1 .. (n + d)) = SumOver(f, 1 .. n)}
<1>1. 0 \in G
  <2>1. n + 0 = n
    OBVIOUS
  <2> QED BY <2>1
<1>2. ASSUME NEW d \in Nat, d \in G PROVE d + 1 \in G
  <2> SUFFICES ASSUME d + 1 <= c
               PROVE  SumOver(f, 1 .. (n + (d + 1))) = SumOver(f, 1 .. n)
    OBVIOUS
  <2> DEFINE m == n + (d + 1)
  <2>1. m \in Nat /\ m > 0 /\ m - 1 = n + d /\ m \in (n + 1) .. (n + c)
    OBVIOUS
  <2>2. \A i \in 1 .. m : f[i] \in Int
    OBVIOUS
  <2> HIDE DEF m
  <2>3. SumOver(f, 1 .. m) = SumOver(f, 1 .. (m - 1)) + f[m]
    BY <2>1, <2>2, SumUpTo
  <2>4. SumOver(f, 1 .. n) \in Int
    BY SumUpTo
  <2>5. SumOver(f, 1 .. (n + d)) = SumOver(f, 1 .. n) /\ f[m] = 0
    BY <1>2, <2>1
  <2>6. SumOver(f, 1 .. m) = SumOver(f, 1 .. n)
    BY <2>1, <2>3, <2>4, <2>5
  <2> QED BY <2>6 DEF m
<1>3. \A d \in Nat : d \in G
  <2> HIDE DEF G
  <2> QED BY <1>1, <1>2, Successors
<1>4. c \in G /\ c <= c
  <2> HIDE DEF G
  <2> QED BY <1>3
<1> QED BY <1>4

\* A bounded set of natural numbers has a largest one.
LEMMA MaxNat ==
    ASSUME NEW n \in Nat, NEW S \in SUBSET (0 .. n), S # {}
    PROVE  Max(S) \in S /\ \A y \in S : y <= Max(S)
<1> DEFINE T == {n - x : x \in S}
<1>0. \A x \in S : x \in Nat /\ n - x \in Nat /\ n - x \in T
  OBVIOUS
<1>1. T \in SUBSET Nat /\ T # {}
  <2>1. T \in SUBSET Nat
    BY <1>0
  <2>2. T # {}
    <3> HIDE DEF T
    <3> QED BY <1>0
  <2> QED BY <2>1, <2>2
<1>2. PICK t \in T : \A u \in T : t <= u
  BY <1>1, LeastNat
<1>3. PICK m \in S : t = n - m
  BY <1>2
<1>4. S \in SUBSET Int /\ \A y \in S : y <= m
  <2> HIDE DEF T
  <2>1. \A y \in S : n - m <= n - y
    BY <1>0, <1>2, <1>3
  <2> QED BY <1>0, <2>1
<1>5. Max(S) = m
  BY <1>4, MaxIs
<1> QED BY <1>4, <1>5
-----------------------------------------------------------------------------
(***************************************************************************)
(* Sums of two functions over one set.                                     *)
(***************************************************************************)

AddUp(f, g, S) ==
    SumOver([x \in S |-> f[x] + g[x]], S) = SumOver(f, S) + SumOver(g, S)

LEMMA SumsAddUp ==
    ASSUME NEW S, IsFiniteSet(S), NEW f \in [S -> Int], NEW g \in [S -> Int]
    PROVE  AddUp(f, g, S)
<1> DEFINE All(T) == \A a, b \in [T -> Int] : AddUp(a, b, T)
           G == {n \in Nat : \A T \in SUBSET S : Cardinality(T) = n => All(T)}
<1>1. \A T \in SUBSET S : IsFiniteSet(T) /\ Cardinality(T) \in Nat
  BY FS_Subset, FS_CardinalityType
<1>2. 0 \in G
  <2> SUFFICES ASSUME NEW T \in SUBSET S, Cardinality(T) = 0, NEW a, NEW b
               PROVE  AddUp(a, b, T)
    OBVIOUS
  <2>1. T = {}
    BY <1>1, FS_EmptySet
  <2>2. \A h : SumOver(h, T) = 0
    BY <2>1, SumEmpty
  <2> QED BY <2>2 DEF AddUp
<1>3. ASSUME NEW n \in Nat, n \in G PROVE n + 1 \in G
  <2> SUFFICES ASSUME NEW T \in SUBSET S, Cardinality(T) = n + 1,
                      NEW a \in [T -> Int], NEW b \in [T -> Int]
               PROVE  AddUp(a, b, T)
    BY <1>3
  <2>1. PICK x \in T : TRUE
    BY <1>1, <1>3, FS_EmptySet
  <2> DEFINE U == T \ {x}
             au == [y \in U |-> a[y]]
             bu == [y \in U |-> b[y]]
             h == [y \in T |-> a[y] + b[y]]
             hu == [y \in U |-> au[y] + bu[y]]
  <2>2. U \in SUBSET S /\ IsFiniteSet(U) /\ Cardinality(U) = n
    <3>1. U \in SUBSET S /\ Cardinality(U) = Cardinality(T) - 1
      BY <2>1, TakeOne
    <3> QED BY <1>1, <1>3, <3>1
  <2>3. /\ au \in [U -> Int] /\ bu \in [U -> Int] /\ h \in [T -> Int]
        /\ \A y \in T \ {x} : au[y] = a[y] /\ bu[y] = b[y] /\ hu[y] = h[y]
        /\ h[x] = a[x] + b[x] /\ a[x] \in Int /\ b[x] \in Int
    OBVIOUS
  <2>4. AddUp(au, bu, U)
    BY <1>3, <2>2, <2>3
  <2>5. SumOver(hu, U) = SumOver(au, U) + SumOver(bu, U)
    BY <2>4 DEF AddUp
  <2>6. SumOver(au, U) \in Int /\ SumOver(bu, U) \in Int
    BY <2>2, <2>3, SumInt
  <2> HIDE DEF au, bu, h, hu
  <2>7. IsFiniteSet(T)
    BY <1>1
  <2>8. SplitsOff(a, T, x, au) /\ SplitsOff(b, T, x, bu) /\ SplitsOff(h, T, x, hu)
    BY <2>3, <2>7, SumOut
  <2> HIDE DEF U
  <2>9. SumOver(h, T) = SumOver(a, T) + SumOver(b, T)
    BY <2>3, <2>5, <2>6, <2>8 DEF SplitsOff, U
  <2> QED BY <2>9 DEF AddUp, h
<1>4. \A n \in Nat : n \in G
  <2> HIDE DEF G
  <2> QED BY <1>2, <1>3, Successors
<1> QED BY <1>1, <1>4

\* A sum of zeros.
LEMMA SumZeros ==
    ASSUME NEW S, IsFiniteSet(S), NEW f, \A x \in S : f[x] = 0
    PROVE  SumOver(f, S) = 0
<1> DEFINE z == [x \in S |-> 0]
           zz == [x \in S |-> z[x] + z[x]]
<1>1. z \in [S -> Int] /\ zz = z /\ \A x \in S : f[x] = z[x]
  OBVIOUS
<1>2. SumOver(z, S) = SumOver(z, S) + SumOver(z, S)
  <2>1. AddUp(z, z, S)
    BY <1>1, SumsAddUp
  <2>2. SumOver(zz, S) = SumOver(z, S) + SumOver(z, S)
    BY <2>1 DEF AddUp
  <2> HIDE DEF z, zz
  <2> QED BY <1>1, <2>2
<1> HIDE DEF z, zz
<1>3. SumOver(z, S) \in Int
  BY <1>1, SumInt
<1>4. SumOver(z, S) = 0
  <2> DEFINE s == SumOver(z, S)
  <2>1. s \in Int /\ s = s + s
    BY <1>2, <1>3
  <2> HIDE DEF s
  <2>2. s = 0
    BY <2>1
  <2> QED BY <2>2 DEF s
<1>5. SumOver(f, S) = SumOver(z, S)
  BY <1>1, SumSame
<1> QED BY <1>4, <1>5

Negated(f, g, S) == SumOver(g, S) = -SumOver(f, S)

LEMMA SumNegates ==
    ASSUME NEW S, IsFiniteSet(S), NEW f \in [S -> Int], NEW g \in [S -> Int],
           \A x \in S : g[x] = -f[x]
    PROVE  Negated(f, g, S)
<1> DEFINE h == [x \in S |-> f[x] + g[x]]
<1>1. \A x \in S : h[x] = 0
  OBVIOUS
<1>2. SumOver(h, S) = SumOver(f, S) + SumOver(g, S)
  BY SumsAddUp DEF AddUp
<1> HIDE DEF h
<1>3. SumOver(h, S) = 0
  BY <1>1, SumZeros
<1>4. SumOver(f, S) \in Int /\ SumOver(g, S) \in Int
  BY SumInt
<1> QED BY <1>2, <1>3, <1>4 DEF Negated

\* Of a constant: as often as there are elements.
LEMMA SumConstant ==
    ASSUME NEW S, IsFiniteSet(S), NEW c \in Int, NEW f, \A x \in S : f[x] = c
    PROVE  SumOver(f, S) = Cardinality(S) * c
<1> DEFINE G == {n \in Nat : \A T \in SUBSET S :
                     Cardinality(T) = n => SumOver([x \in T |-> c], T) = n * c}
<1>1. \A T \in SUBSET S : IsFiniteSet(T) /\ Cardinality(T) \in Nat
  BY FS_Subset, FS_CardinalityType
<1>2. 0 \in G
  <2> SUFFICES ASSUME NEW T \in SUBSET S, Cardinality(T) = 0
               PROVE  SumOver([x \in T |-> c], T) = 0 * c
    OBVIOUS
  <2>1. T = {}
    BY <1>1, FS_EmptySet
  <2>2. \A h : SumOver(h, T) = 0
    BY <2>1, SumEmpty
  <2>3. 0 * c = 0
    OBVIOUS
  <2> QED BY <2>2, <2>3
<1>3. ASSUME NEW n \in Nat, n \in G PROVE n + 1 \in G
  <2> SUFFICES ASSUME NEW T \in SUBSET S, Cardinality(T) = n + 1
               PROVE  SumOver([x \in T |-> c], T) = (n + 1) * c
    BY <1>3
  <2>1. PICK x \in T : TRUE
    BY <1>1, <1>3, FS_EmptySet
  <2> DEFINE U == T \ {x}
             a == [y \in T |-> c]
             au == [y \in U |-> c]
  <2>2. U \in SUBSET S /\ IsFiniteSet(U) /\ Cardinality(U) = n
    <3>1. U \in SUBSET S /\ Cardinality(U) = Cardinality(T) - 1
      BY <2>1, TakeOne
    <3> QED BY <1>1, <1>3, <3>1
  <2>3. a \in [T -> Int] /\ a[x] = c /\ \A y \in T \ {x} : au[y] = a[y]
    OBVIOUS
  <2>4. SumOver(au, U) = n * c
    BY <1>3, <2>2
  <2> HIDE DEF a, au
  <2>5. SplitsOff(a, T, x, au)
    BY <1>1, <2>3, SumOut
  <2>6. SumOver(a, T) = c + SumOver(au, U)
    BY <2>3, <2>5 DEF SplitsOff
  <2>7. c + n * c = (n + 1) * c
    BY <1>3
  <2>8. SumOver(a, T) = (n + 1) * c
    BY <2>4, <2>6, <2>7
  <2> QED BY <2>8 DEF a
<1>4. \A n \in Nat : n \in G
  <2> HIDE DEF G
  <2> QED BY <1>2, <1>3, Successors
<1> DEFINE k == [x \in S |-> c]
<1>5. SumOver(k, S) = Cardinality(S) * c
  BY <1>1, <1>4
<1>6. k \in [S -> Int] /\ \A x \in S : f[x] = k[x]
  OBVIOUS
<1> HIDE DEF k
<1>7. SumOver(f, S) = SumOver(k, S)
  BY <1>6, SumSame
<1> QED BY <1>5, <1>7
-----------------------------------------------------------------------------
(***************************************************************************)
(* The flattening of a sequence of sequences, as a property of the function *)
(* that holds what the first parts make together.                           *)
(***************************************************************************)

\* FlattenSeq runs through the parts.
IsFlat(f, cs, n) ==
    f = [i \in 1 .. n |-> IF i = 1 THEN cs[1] ELSE f[i - 1] \o cs[i]]

LEMMA FlatExists ==
    ASSUME NEW cs, NEW n \in Nat
    PROVE  \E f : IsFlat(f, cs, n)
<1> DEFINE G == {m \in Nat : \E f : IsFlat(f, cs, m)}
<1>1. 0 \in G
  <2> DEFINE f == [i \in 1 .. 0 |-> cs[i]]
  <2>1. f = [i \in 1 .. 0 |-> IF i = 1 THEN cs[1] ELSE f[i - 1] \o cs[i]]
    OBVIOUS
  <2> QED BY <2>1 DEF IsFlat
<1>2. ASSUME NEW m \in Nat, m \in G PROVE m + 1 \in G
  <2>1. PICK f : IsFlat(f, cs, m)
    BY <1>2
  <2> DEFINE h == [i \in 1 .. (m + 1) |-> IF i = 1 THEN cs[1] ELSE f[i - 1] \o cs[i]]
  <2>2. \A i \in 1 .. m : h[i] = f[i]
    <3>1. \A i \in 1 .. m : f[i] = IF i = 1 THEN cs[1] ELSE f[i - 1] \o cs[i]
      <4> DEFINE g == [i \in 1 .. m |-> IF i = 1 THEN cs[1] ELSE f[i - 1] \o cs[i]]
      <4>1. f = g
        BY <2>1 DEF IsFlat
      <4>2. \A i \in 1 .. m : g[i] = IF i = 1 THEN cs[1] ELSE f[i - 1] \o cs[i]
        OBVIOUS
      <4> HIDE DEF g
      <4> QED BY <4>1, <4>2
    <3>2. \A i \in 1 .. m : i \in 1 .. (m + 1)
      OBVIOUS
    <3> QED BY <3>1, <3>2
  <2> DEFINE k == [i \in 1 .. (m + 1) |-> IF i = 1 THEN cs[1] ELSE h[i - 1] \o cs[i]]
  <2>3. h = k
    <3>1. ASSUME NEW i \in 1 .. (m + 1), i # 1 PROVE h[i - 1] = f[i - 1]
      <4>1. i - 1 \in 1 .. m
        BY <3>1
      <4> HIDE DEF h
      <4> QED BY <2>2, <4>1
    <3> HIDE DEF h
    <3>2. \A i \in 1 .. (m + 1) : (IF i = 1 THEN cs[1] ELSE f[i - 1] \o cs[i])
                                    = IF i = 1 THEN cs[1] ELSE h[i - 1] \o cs[i]
      BY <3>1
    <3> QED BY <3>2 DEF h
  <2>4. IsFlat(h, cs, m + 1)
    <3> HIDE DEF h
    <3> QED BY <2>3 DEF IsFlat
  <2> HIDE DEF h
  <2> QED BY <2>4
<1> HIDE DEF G
<1>3. n \in G
  BY <1>1, <1>2, Successors
<1> QED BY <1>3 DEF G

LEMMA FlatIs ==
    ASSUME NEW cs, Len(cs) \in Nat, Len(cs) # 0
    PROVE  \E f : /\ FlattenSeq(cs) = f[Len(cs)]
                  /\ f[1] = cs[1]
                  /\ \A i \in 2 .. Len(cs) : f[i] = f[i - 1] \o cs[i]
<1> DEFINE n == Len(cs)
           f == CHOOSE g : g = [i \in 1 .. n |-> IF i = 1 THEN cs[i] ELSE g[i - 1] \o cs[i]]
<1>1. FlattenSeq(cs) = f[n]
  BY DEF FlattenSeq
<1>2. PICK e : IsFlat(e, cs, n)
  BY FlatExists
<1>3. e = [i \in 1 .. n |-> IF i = 1 THEN cs[i] ELSE e[i - 1] \o cs[i]]
  <2>1. [i \in 1 .. n |-> IF i = 1 THEN cs[1] ELSE e[i - 1] \o cs[i]]
          = [i \in 1 .. n |-> IF i = 1 THEN cs[i] ELSE e[i - 1] \o cs[i]]
    OBVIOUS
  <2> QED BY <1>2, <2>1 DEF IsFlat
<1>4. f = [i \in 1 .. n |-> IF i = 1 THEN cs[i] ELSE f[i - 1] \o cs[i]]
  BY <1>3
<1> HIDE DEF f
<1>5. \A i \in 1 .. n : f[i] = IF i = 1 THEN cs[i] ELSE f[i - 1] \o cs[i]
  <2> DEFINE g == [i \in 1 .. n |-> IF i = 1 THEN cs[i] ELSE f[i - 1] \o cs[i]]
  <2>1. \A i \in 1 .. n : g[i] = IF i = 1 THEN cs[i] ELSE f[i - 1] \o cs[i]
    OBVIOUS
  <2>2. f = g
    BY <1>4
  <2> HIDE DEF g
  <2> QED BY <2>1, <2>2
<1>6. 1 \in 1 .. n /\ \A i \in 2 .. n : i \in 1 .. n /\ i # 1
  OBVIOUS
<1> QED BY <1>1, <1>5, <1>6

Typed(cs, n, T) == \A i \in 1 .. n : cs[i] \in Seq(T)

\* The parts of a sequence of sequences, one after the other.
RunsThrough(f, cs, n) == f[1] = cs[1] /\ \A i \in 2 .. n : f[i] = f[i - 1] \o cs[i]

LEMMA RunsAreTyped ==
    ASSUME NEW T, NEW n \in Nat, NEW cs, NEW f, RunsThrough(f, cs, n), Typed(cs, n, T)
    PROVE  \A m \in 1 .. n : f[m] \in Seq(T)
<1>0. \A i \in 1 .. n : cs[i] \in Seq(T)
  BY DEF Typed
<1> USE <1>0
<1> DEFINE G == {m \in Nat : m \in 1 .. n => f[m] \in Seq(T)}
<1>1. 0 \in G
  OBVIOUS
<1>2. ASSUME NEW m \in Nat, m \in G PROVE m + 1 \in G
  <2> SUFFICES ASSUME m + 1 \in 1 .. n PROVE f[m + 1] \in Seq(T)
    OBVIOUS
  <2>1. CASE m = 0
    BY <2>1 DEF RunsThrough
  <2>2. CASE m # 0
    <3>1. m \in 1 .. n /\ m + 1 \in 2 .. n /\ (m + 1) - 1 = m
      BY <2>2
    <3>2. f[m + 1] = f[m] \o cs[m + 1]
      BY <3>1 DEF RunsThrough
    <3>3. f[m] \in Seq(T) /\ cs[m + 1] \in Seq(T)
      BY <1>2, <3>1
    <3> QED BY <3>2, <3>3, ConcatProperties
  <2> QED BY <2>1, <2>2
<1> HIDE DEF G
<1>3. \A m \in Nat : m \in G
  BY <1>1, <1>2, Successors
<1> QED BY <1>3 DEF G

LEMMA FlatRuns ==
    ASSUME NEW cs, NEW N \in Nat, N # 0, Len(cs) = N
    PROVE  \E f : FlattenSeq(cs) = f[N] /\ RunsThrough(f, cs, N)
<1>1. Len(cs) \in Nat /\ Len(cs) # 0
  OBVIOUS
<1>2. PICK f : /\ FlattenSeq(cs) = f[Len(cs)]
               /\ f[1] = cs[1]
               /\ \A i \in 2 .. Len(cs) : f[i] = f[i - 1] \o cs[i]
  BY <1>1, FlatIs
<1>3. FlattenSeq(cs) = f[N] /\ RunsThrough(f, cs, N)
  BY <1>2 DEF RunsThrough
<1> QED BY <1>3

LEMMA ThreeParts ==
    ASSUME NEW T, NEW a \in Seq(T), NEW c \in Seq(T), NEW b \in Seq(T)
    PROVE  /\ a \o c \o b \in Seq(T)
           /\ Len(a) \in Nat /\ Len(c) \in Nat /\ Len(b) \in Nat
           /\ Len(a \o c \o b) = Len(a) + Len(c) + Len(b)
           /\ \A i \in 1 .. Len(a) : (a \o c \o b)[i] = a[i]
           /\ \A i \in 1 .. Len(c) : (a \o c \o b)[Len(a) + i] = c[i]
           /\ \A i \in 1 .. Len(b) : (a \o c \o b)[Len(a) + Len(c) + i] = b[i]
<1> DEFINE ac == a \o c
<1>1. /\ ac \in Seq(T) /\ Len(ac) = Len(a) + Len(c)
      /\ Len(a) \in Nat /\ Len(c) \in Nat /\ Len(b) \in Nat
      /\ \A i \in 1 .. Len(a) + Len(c) : ac[i] = IF i <= Len(a) THEN a[i] ELSE c[i - Len(a)]
  BY ConcatProperties, LenProperties
<1> HIDE DEF ac
<1>2. /\ ac \o b \in Seq(T) /\ Len(ac \o b) = Len(ac) + Len(b)
      /\ \A i \in 1 .. Len(ac) + Len(b) : (ac \o b)[i] = IF i <= Len(ac) THEN ac[i]
                                                        ELSE b[i - Len(ac)]
  <2>1. ac \in Seq(T)
    BY <1>1
  <2> QED BY <2>1, ConcatProperties
<1> DEFINE j == ac \o b
<1> HIDE DEF j
<1>3. \A i \in 1 .. Len(a) : j[i] = a[i]
  BY <1>1, <1>2 DEF j
<1>4. \A i \in 1 .. Len(c) : j[Len(a) + i] = c[i]
  BY <1>1, <1>2 DEF j
<1>5. ASSUME NEW i \in 1 .. Len(b) PROVE j[Len(a) + Len(c) + i] = b[i]
  <2> DEFINE k == Len(a) + Len(c) + i
  <2>1. k \in 1 .. Len(ac) + Len(b) /\ ~(k <= Len(ac)) /\ k - Len(ac) = i
    BY <1>1
  <2> HIDE DEF k
  <2>2. j[k] = b[k - Len(ac)]
    BY <1>2, <2>1 DEF j
  <2> QED BY <2>1, <2>2 DEF k
<1> QED BY <1>1, <1>2, <1>3, <1>4, <1>5 DEF j, ac

\* A text in three parts.
CutInto(j, T, a, c, b) ==
    /\ j \in Seq(T)
    /\ Len(a) \in Nat /\ Len(c) \in Nat /\ Len(b) \in Nat
    /\ Len(j) = Len(a) + Len(c) + Len(b)
    /\ \A i \in 1 .. Len(a) : j[i] = a[i]
    /\ \A i \in 1 .. Len(c) : j[Len(a) + i] = c[i]
    /\ \A i \in 1 .. Len(b) : j[Len(a) + Len(c) + i] = b[i]

LEMMA IsCut ==
    ASSUME NEW T, NEW a \in Seq(T), NEW c \in Seq(T), NEW b \in Seq(T)
    PROVE  CutInto(a \o c \o b, T, a, c, b)
BY ThreeParts DEF CutInto

LEMMA FunctionIsSeq ==
    \A T : \A n \in Nat : \A f \in [1 .. n -> T] : f \in Seq(T)
<1> SUFFICES ASSUME NEW T, NEW n \in Nat, NEW f \in [1 .. n -> T] PROVE f \in Seq(T)
  OBVIOUS
<1>1. f = [i \in 1 .. n |-> f[i]] /\ \A i \in 1 .. n : f[i] \in T
  OBVIOUS
<1>2. [i \in 1 .. n |-> f[i]] \in Seq(T)
  BY <1>1, IsASeq
<1> QED BY <1>1, <1>2, Zenon

\* One element more.
LEMMA OneMore ==
    ASSUME NEW T, NEW n \in Nat, NEW a \in [1 .. n -> T], NEW x \in T
    PROVE  /\ a \o <<>> = a
           /\ a \o <<x>> = [k \in 1 .. (n + 1) |-> IF k = n + 1 THEN x ELSE a[k]]
<1> DEFINE b == [k \in 1 .. (n + 1) |-> IF k = n + 1 THEN x ELSE a[k]]
<1>1. a \in Seq(T) /\ Len(a) = n
  <2>1. a \in Seq(T)
    BY FunctionIsSeq
  <2>2. DOMAIN a = 1 .. Len(a) /\ Len(a) \in Nat
    BY <2>1, LenProperties
  <2>3. 1 .. Len(a) = 1 .. n
    BY <2>2
  <2> QED BY <2>1, <2>2, <2>3
<1>2. a \o <<>> = a
  BY <1>1, ConcatEmptySeq
<1>3. <<x>> \in Seq(T) /\ Len(<<x>>) = 1 /\ <<x>>[1] = x
  OBVIOUS
<1>4. /\ a \o <<x>> \in Seq(T) /\ Len(a \o <<x>>) = n + 1
      /\ \A i \in 1 .. (n + 1) : (a \o <<x>>)[i] = IF i <= n THEN a[i] ELSE <<x>>[i - n]
  BY <1>1, <1>3, ConcatProperties
<1>5. DOMAIN (a \o <<x>>) = 1 .. (n + 1) /\ a \o <<x>> \in [1 .. (n + 1) -> T]
  BY <1>4, LenProperties
<1>6. \A i \in 1 .. (n + 1) : (a \o <<x>>)[i] = b[i]
  <2> SUFFICES ASSUME NEW i \in 1 .. (n + 1) PROVE (a \o <<x>>)[i] = b[i]
    OBVIOUS
  <2>1. CASE i = n + 1
    <3>1. ~(i <= n) /\ i - n = 1
      BY <2>1
    <3> QED BY <1>3, <1>4, <2>1, <3>1
  <2>2. CASE i # n + 1
    <3>1. i <= n
      BY <2>2
    <3> QED BY <1>4, <2>2, <3>1
  <2> QED BY <2>1, <2>2
<1>7. a \o <<x>> = b
  BY <1>5, <1>6
<1> QED BY <1>2, <1>7
=============================================================================
