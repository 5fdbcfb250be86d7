----------------------------- MODULE Induction -----------------------------
(***************************************************************************)
(* Induction on a set of numbers, and what follows from it: the smallest   *)
(* and the largest of a set.  The induction theorems of the library are    *)
(* about predicates; these are about sets, which the provers can choose.   *)
(***************************************************************************)
EXTENDS Integers, Functions, FiniteSetsExt, FiniteSetTheorems, WellFoundedInduction, TLAPS

\* A set that has 0, and n + 1 whenever it has n, has all numbers: of the intervals
\* that end outside of it none is the shortest.
LEMMA SetInduction ==
  ASSUME NEW S, 0 \in S, \A n \in Nat : n \in S => n + 1 \in S
  PROVE  Nat \subseteq S
<1> DEFINE Missed == {0 .. n : n \in Nat \ S}
<1> SUFFICES ASSUME Missed # {} PROVE FALSE
  OBVIOUS
<1>1. Missed \subseteq FiniteSubsetsOf(Nat)
  <2>1. \A n \in Nat : 0 .. n \in SUBSET Nat /\ IsFiniteSet(0 .. n)
    BY FS_Interval
  <2> QED
    BY <2>1 DEF FiniteSubsetsOf
<1>2. PICK I \in Missed : \A J \in Missed : <<J, I>> \notin StrictSubsetOrdering(Nat)
  <2> HIDE DEF Missed
  <2> QED
    BY <1>1, FS_StrictSubsetOrderingWellFounded, WFMin
<1>3. PICK n \in Nat \ S : I = 0 .. n
  OBVIOUS
<1>4. n # 0 /\ n - 1 \in Nat \ S
  <2>1. n # 0
    BY <1>3
  <2>2. n - 1 \in Nat /\ (n - 1) + 1 = n
    BY <1>3, <2>1
  <2> QED
    BY <1>3, <2>1, <2>2
<1>5. 0 .. (n - 1) \in Missed
  BY <1>4
<1>6. <<0 .. (n - 1), I>> \in StrictSubsetOrdering(Nat)
  <2>1. 0 .. (n - 1) \subseteq 0 .. n /\ n \in 0 .. n /\ n \notin 0 .. (n - 1)
    BY <1>4
  <2> QED
    BY <1>3, <2>1 DEF StrictSubsetOrdering
<1> QED
  BY <1>2, <1>5, <1>6

LEMMA LeastNumber ==
  ASSUME NEW T \in SUBSET Nat, T # {}
  PROVE  \E m \in T : \A n \in T : m <= n
<1> SUFFICES ASSUME \A m \in T : \E n \in T : n < m PROVE FALSE
  <2> SUFFICES ASSUME \A m \in T : ~ \A n \in T : m <= n PROVE \A m \in T : \E n \in T : n < m
    OBVIOUS
  <2> QED
    OBVIOUS
<1> DEFINE S == {n \in Nat : \A k \in 0 .. n : k \notin T}
<1>1. 0 \in S
  OBVIOUS
<1>2. ASSUME NEW n \in Nat, n \in S PROVE n + 1 \in S
  <2>1. \A k \in 0 .. (n + 1) : k \in 0 .. n \/ k = n + 1
    OBVIOUS
  <2>2. n + 1 \notin T
    <3> SUFFICES ASSUME n + 1 \in T PROVE FALSE
      OBVIOUS
    <3>1. PICK k \in T : k < n + 1
      OBVIOUS
    <3>2. k \in 0 .. n
      BY <3>1
    <3> QED
      BY <1>2, <3>2
  <2> QED
    BY <1>2, <2>1, <2>2
<1>3. Nat \subseteq S
  <2> HIDE DEF S
  <2> QED
    BY <1>1, <1>2, SetInduction
<1>4. \A n \in Nat : n \in 0 .. n
  OBVIOUS
<1> QED
  BY <1>3, <1>4

LEMMA MinIsLeast ==
  ASSUME NEW T \in SUBSET Nat, T # {}
  PROVE  Min(T) \in T /\ \A n \in T : Min(T) <= n
BY LeastNumber DEF Min

\* A set below a bound has a largest number: the bound less the least distance to it.
LEMMA MaxIsGreatest ==
  ASSUME NEW bound \in Nat, NEW T \in SUBSET (0 .. bound), T # {}
  PROVE  Max(T) \in T /\ \A n \in T : n <= Max(T)
<1> DEFINE D == {bound - n : n \in T}
<1>1. D \in SUBSET Nat /\ D # {}
  <2>1. \A n \in T : bound - n \in Nat
    OBVIOUS
  <2> QED
    BY <2>1
<1>2. PICK d \in D : \A e \in D : d <= e
  <2> HIDE DEF D
  <2> QED
    BY <1>1, LeastNumber
<1>3. PICK m \in T : d = bound - m
  OBVIOUS
<1>4. \A n \in T : n <= m
  BY <1>2, <1>3
<1> QED
  BY <1>3, <1>4 DEF Max

\* A set of sets that has a finite set when it has those strictly inside it.
LEMMA SubsetInduction ==
  ASSUME NEW S, IsFiniteSet(S), NEW Q,
         \A T \in SUBSET S : (\A U \in SUBSET T : U # T => U \in Q) => T \in Q
  PROVE  SUBSET S \subseteq Q
<1> DEFINE Missed == (SUBSET S) \ Q
<1> SUFFICES ASSUME Missed # {} PROVE FALSE
  OBVIOUS
<1>1. Missed \subseteq FiniteSubsetsOf(S)
  BY FS_Subset DEF FiniteSubsetsOf
<1>2. PICK T \in Missed : \A U \in Missed : <<U, T>> \notin StrictSubsetOrdering(S)
  <2> HIDE DEF Missed
  <2> QED
    BY <1>1, FS_StrictSubsetOrderingWellFounded, WFMin
<1>3. \A U \in SUBSET T : U # T => U \in Q
  BY <1>2 DEF StrictSubsetOrdering
<1> QED
  BY <1>2, <1>3

----------------------------------------------------------------------------
(* Sums over a finite set, as the community modules fold them *)

Sum(f) == FoldFunction(LAMBDA a, b : a + b, 0, f)

\* The sums of f over the subsets of its domain.
Added(f, sums, T) ==
  IF T = {} THEN 0 ELSE f[CHOOSE x \in T : TRUE] + sums[T \ {CHOOSE x \in T : TRUE}]
AddUp(f, sums) ==
  /\ sums \in [SUBSET DOMAIN f -> Int]
  /\ \A T \in SUBSET DOMAIN f : sums[T] = Added(f, sums, T)
Sums(f, sums) == sums = [T \in SUBSET DOMAIN f |-> Added(f, sums, T)]

LEMMA SumIs ==
  ASSUME NEW f
  PROVE  Sum(f) = (CHOOSE sums : Sums(f, sums))[DOMAIN f]
BY DEF Sum, FoldFunction, FoldFunctionOnSet, MapThenFoldSet, Sums, Added

\* They exist: there are some for the subsets of at most n elements, whatever n is.
LEMMA SumsExist ==
  ASSUME NEW f, IsFiniteSet(DOMAIN f), f \in [DOMAIN f -> Int]
  PROVE  \E sums \in [SUBSET DOMAIN f -> Int] : Sums(f, sums)
<1> DEFINE S == DOMAIN f
           UpTo(n) == {sums \in [SUBSET S -> Int] :
                         \A T \in SUBSET S : Cardinality(T) <= n => sums[T] = Added(f, sums, T)}
           N == {n \in Nat : UpTo(n) # {}}
<1>1. \A T \in SUBSET S : IsFiniteSet(T) /\ Cardinality(T) \in Nat
  BY FS_Subset, FS_CardinalityType
<1>2. 0 \in N
  <2> DEFINE none == [T \in SUBSET S |-> 0]
  <2>1. ASSUME NEW T \in SUBSET S, Cardinality(T) <= 0 PROVE none[T] = Added(f, none, T)
    <3>1. T = {}
      BY <1>1, <2>1, FS_EmptySet
    <3> QED
      BY <3>1 DEF Added
  <2>2. none \in UpTo(0)
    BY <2>1
  <2> QED
    BY <2>2
<1>3. ASSUME NEW n \in Nat, n \in N PROVE n + 1 \in N
  <2>1. PICK sums \in UpTo(n) : TRUE
    BY <1>3
  <2> DEFINE more == [T \in SUBSET S |-> Added(f, sums, T)]
  <2>2. ASSUME NEW T \in SUBSET S, T # {}
        PROVE  /\ (CHOOSE x \in T : TRUE) \in S
               /\ T \ {CHOOSE x \in T : TRUE} \in SUBSET S
               /\ Cardinality(T \ {CHOOSE x \in T : TRUE}) = Cardinality(T) - 1
    <3>1. (CHOOSE x \in T : TRUE) \in T
      BY <2>2
    <3> QED
      BY <1>1, <3>1, FS_RemoveElement
  <2>3. more \in [SUBSET S -> Int]
    <3>1. ASSUME NEW T \in SUBSET S PROVE Added(f, sums, T) \in Int
      <4>1. CASE T = {}
        BY <4>1 DEF Added
      <4>2. CASE T # {}
        <5>1. f[CHOOSE x \in T : TRUE] \in Int /\ sums[T \ {CHOOSE x \in T : TRUE}] \in Int
          BY <2>1, <2>2, <4>2
        <5> QED
          BY <4>2, <5>1 DEF Added
      <4> QED
        BY <4>1, <4>2
    <3> QED
      BY <3>1
  <2>4. ASSUME NEW T \in SUBSET S, Cardinality(T) <= n + 1
        PROVE  more[T] = Added(f, more, T)
    <3>1. CASE T = {}
      BY <3>1 DEF Added
    <3>2. CASE T # {}
      <4> DEFINE rest == T \ {CHOOSE x \in T : TRUE}
      <4>1. rest \in SUBSET S /\ Cardinality(rest) <= n
        BY <1>1, <2>2, <2>4, <3>2
      <4>2. more[rest] = sums[rest]
        BY <2>1, <4>1
      <4> QED
        BY <3>2, <4>2 DEF Added
    <3> QED
      BY <3>1, <3>2
  <2>5. more \in UpTo(n + 1)
    BY <2>3, <2>4
  <2> HIDE DEF UpTo
  <2> QED
    BY <2>5
<1>4. Nat \subseteq N
  <2> HIDE DEF N
  <2> QED
    BY <1>2, <1>3, SetInduction
<1>5. PICK sums \in UpTo(Cardinality(S)) : TRUE
  <2>1. Cardinality(S) \in N
    BY <1>1, <1>4
  <2> QED
    BY <2>1
<1>6. ASSUME NEW T \in SUBSET S PROVE sums[T] = Added(f, sums, T)
  <2>1. Cardinality(T) <= Cardinality(S)
    BY FS_Subset
  <2> QED
    BY <1>5, <2>1
<1>7. sums \in [SUBSET S -> Int] /\ sums = [T \in SUBSET S |-> Added(f, sums, T)]
  BY <1>5, <1>6
<1> QED
  BY <1>7 DEF Sums

LEMMA SumsAre ==
  ASSUME NEW f, IsFiniteSet(DOMAIN f), f \in [DOMAIN f -> Int]
  PROVE  \E sums : /\ AddUp(f, sums)
                   /\ Sum(f) = sums[DOMAIN f]
<1> DEFINE sums == CHOOSE g : Sums(f, g)
<1>1. Sums(f, sums)
  BY SumsExist
<1>2. Sum(f) = sums[DOMAIN f]
  BY SumIs
<1> HIDE DEF sums
<1>3. \A T \in SUBSET DOMAIN f : sums[T] = Added(f, sums, T)
  <2> TAKE T \in SUBSET DOMAIN f
  <2>1. sums[T] = [U \in SUBSET DOMAIN f |-> Added(f, sums, U)][T]
    BY <1>1 DEF Sums
  <2> QED
    BY <2>1
<1> DEFINE Q == {T \in SUBSET DOMAIN f : sums[T] \in Int}
<1>4. ASSUME NEW T \in SUBSET DOMAIN f, \A U \in SUBSET T : U # T => U \in Q PROVE T \in Q
  <2>1. CASE T = {}
    <3>1. Added(f, sums, T) = 0
      BY <2>1 DEF Added
    <3> QED
      BY <1>3, <3>1
  <2>2. CASE T # {}
    <3>1. (CHOOSE x \in T : TRUE) \in T
      BY <2>2
    <3>2. sums[T \ {CHOOSE x \in T : TRUE}] \in Int /\ f[CHOOSE x \in T : TRUE] \in Int
      BY <1>4, <3>1
    <3>3. Added(f, sums, T) \in Int
      BY <2>2, <3>2 DEF Added
    <3> QED
      BY <1>3, <3>3
  <2> QED
    BY <2>1, <2>2
<1>5. SUBSET DOMAIN f \subseteq Q
  <2> HIDE DEF Q
  <2> QED
    BY <1>4, SubsetInduction
<1>6. sums = [T \in SUBSET DOMAIN f |-> sums[T]]
  <2>1. sums = [T \in SUBSET DOMAIN f |-> Added(f, sums, T)]
    BY <1>1 DEF Sums
  <2> QED
    BY <1>3, <2>1
<1> QED
  BY <1>2, <1>3, <1>5, <1>6 DEF AddUp

\* Whichever element is added last.
LEMMA SumsTakeAny ==
  ASSUME NEW f, IsFiniteSet(DOMAIN f), f \in [DOMAIN f -> Int],
         NEW sums, AddUp(f, sums), NEW T \in SUBSET DOMAIN f, NEW x \in T
  PROVE  sums[T] = f[x] + sums[T \ {x}]
<1> DEFINE Q == {R \in SUBSET DOMAIN f : \A z \in R : sums[R] = f[z] + sums[R \ {z}]}
<1>1. ASSUME NEW R \in SUBSET DOMAIN f, \A U \in SUBSET R : U # R => U \in Q PROVE R \in Q
  <2> SUFFICES ASSUME NEW z \in R PROVE sums[R] = f[z] + sums[R \ {z}]
    OBVIOUS
  <2> DEFINE y == CHOOSE t \in R : TRUE
  <2>1. y \in R
    OBVIOUS
  <2>2. sums[R] = f[y] + sums[R \ {y}]
    BY DEF Added, AddUp
  <2> HIDE DEF y
  <2>3. CASE z = y
    BY <2>2, <2>3
  <2>4. CASE z # y
    <3>1. sums[R \ {y}] = f[z] + sums[(R \ {y}) \ {z}]
      BY <1>1, <2>1, <2>4
    <3>2. sums[R \ {z}] = f[y] + sums[(R \ {z}) \ {y}]
      BY <1>1, <2>1, <2>4
    <3>3. (R \ {y}) \ {z} = (R \ {z}) \ {y}
      OBVIOUS
    <3>4. f[z] \in Int /\ f[y] \in Int /\ sums[(R \ {z}) \ {y}] \in Int
      BY <2>1 DEF AddUp
    <3>5. sums[R] = f[y] + (f[z] + sums[(R \ {z}) \ {y}])
      BY <2>2, <3>1, <3>3
    <3> QED
      BY <3>2, <3>4, <3>5
  <2> QED
    BY <2>3, <2>4
<1>2. SUBSET DOMAIN f \subseteq Q
  <2> HIDE DEF Q
  <2> QED
    BY <1>1, SubsetInduction
<1> QED
  BY <1>2

\* The sum of integers is one.
LEMMA SumType ==
  ASSUME NEW f, IsFiniteSet(DOMAIN f), f \in [DOMAIN f -> Int]
  PROVE  Sum(f) \in Int
<1>1. PICK sums : AddUp(f, sums) /\ Sum(f) = sums[DOMAIN f]
  BY SumsAre
<1> QED
  BY <1>1 DEF AddUp

\* Sums are the same over the sets on which two functions agree.
LEMMA SumsAgree ==
  ASSUME NEW f, NEW g, NEW sums, NEW others, IsFiniteSet(DOMAIN g), DOMAIN g \subseteq DOMAIN f,
         \A x \in DOMAIN g : g[x] = f[x],
         AddUp(f, sums), AddUp(g, others)
  PROVE  \A T \in SUBSET DOMAIN g : others[T] = sums[T]
<1> DEFINE Q == {T \in SUBSET DOMAIN g : others[T] = sums[T]}
<1>1. ASSUME NEW T \in SUBSET DOMAIN g, \A U \in SUBSET T : U # T => U \in Q PROVE T \in Q
  <2>1. T \in SUBSET DOMAIN f
    OBVIOUS
  <2>2. Added(g, others, T) = Added(f, sums, T)
    <3>1. CASE T = {}
      BY <3>1 DEF Added
    <3>2. CASE T # {}
      <4> DEFINE y == CHOOSE z \in T : TRUE
      <4>1. y \in T
        BY <3>2
      <4>2. others[T \ {y}] = sums[T \ {y}] /\ g[y] = f[y]
        BY <1>1, <4>1
      <4> QED
        BY <3>2, <4>2 DEF Added
    <3> QED
      BY <3>1, <3>2
  <2> QED
    BY <2>1, <2>2 DEF AddUp
<1>2. SUBSET DOMAIN g \subseteq Q
  <2> DEFINE D == DOMAIN g
  <2>1. IsFiniteSet(D) /\ \A T \in SUBSET D : (\A U \in SUBSET T : U # T => U \in Q) => T \in Q
    BY <1>1
  <2> HIDE DEF Q, D
  <2>2. SUBSET D \subseteq Q
    BY <2>1, SubsetInduction
  <2> QED
    BY <2>2 DEF D
<1> QED
  BY <1>2

\* It is one of the numbers and the sum of the others.
LEMMA SumWithout ==
  ASSUME NEW f, IsFiniteSet(DOMAIN f), f \in [DOMAIN f -> Int], NEW x \in DOMAIN f,
         NEW rest, rest = [y \in DOMAIN f \ {x} |-> f[y]]
  PROVE  Sum(f) = f[x] + Sum(rest)
<1>1. PICK sums : /\ AddUp(f, sums)
                  /\ Sum(f) = sums[DOMAIN f]
  BY SumsAre
<1>2. IsFiniteSet(DOMAIN rest) /\ rest \in [DOMAIN rest -> Int] /\ DOMAIN rest = DOMAIN f \ {x}
  BY FS_RemoveElement
<1>3. PICK others : /\ AddUp(rest, others)
                    /\ Sum(rest) = others[DOMAIN rest]
  BY <1>2, SumsAre
<1>4. others[DOMAIN rest] = sums[DOMAIN rest]
  <2>1. DOMAIN rest \subseteq DOMAIN f /\ \A y \in DOMAIN rest : rest[y] = f[y]
    BY <1>2
  <2>2. \A T \in SUBSET DOMAIN rest : others[T] = sums[T]
    BY <1>1, <1>2, <1>3, <2>1, SumsAgree
  <2> QED
    BY <2>2
<1>5. sums[DOMAIN f] = f[x] + sums[DOMAIN f \ {x}]
  BY <1>1, SumsTakeAny
<1> QED
  BY <1>1, <1>2, <1>3, <1>4, <1>5

----------------------------------------------------------------------------
(* Functions that are the same all along a path, and sets gathered on it: from each  *)
(* element outside of T the path goes on to another one.  Such functions exist even  *)
(* if a path comes back to where it was.                                             *)

KeptOn(N, T, on) == {S \in SUBSET N : \A y \in S \ T : on[y] \in S}
\* The path from x: what is in all sets that one does not leave by going on from x.
Path(N, T, on, x) == {y \in N : \A S \in KeptOn(N, T, on) : x \in S => y \in S}

LEMMA PathGoesOn ==
  ASSUME NEW N, NEW T, NEW on, \A y \in N \ T : on[y] \in N
  PROVE  /\ \A x \in N \cap T : Path(N, T, on, x) = {x}
         /\ \A x \in N \ T : Path(N, T, on, x) = {x} \cup Path(N, T, on, on[x])
<1> DEFINE P(x) == Path(N, T, on, x)
<1>1. ASSUME NEW x \in N \cap T PROVE P(x) = {x}
  <2>1. {x} \in KeptOn(N, T, on)
    BY <1>1 DEF KeptOn
  <2> QED
    BY <1>1, <2>1 DEF Path
<1>2. ASSUME NEW x \in N \ T PROVE P(x) = {x} \cup P(on[x])
  <2>1. ASSUME NEW y \in P(x), y # x PROVE y \in P(on[x])
    <3> SUFFICES ASSUME NEW S \in KeptOn(N, T, on), on[x] \in S PROVE y \in S
      BY <2>1 DEF Path
    <3>1. S \cup {x} \in KeptOn(N, T, on)
      BY <1>2 DEF KeptOn
    <3>2. y \in S \cup {x}
      BY <2>1, <3>1 DEF Path
    <3> QED
      BY <2>1, <3>2
  <2>2. ASSUME NEW y \in P(on[x]) PROVE y \in P(x)
    BY <1>2, <2>2 DEF Path, KeptOn
  <2>3. x \in P(x)
    BY <1>2 DEF Path
  <2> QED
    BY <2>1, <2>2, <2>3
<1> QED
  BY <1>1, <1>2

\* What is found at the end of each path.
FoundAtEnds(N, T, on, val, f) == f = [x \in N |-> IF x \in T THEN val[x] ELSE f[on[x]]]
LEMMA PathsEnd ==
  ASSUME NEW N, NEW T, NEW on, NEW val, \A y \in N \ T : on[y] \in N
  PROVE  \E f : FoundAtEnds(N, T, on, val, f)
<1> DEFINE end(x) == CHOOSE t : t \in Path(N, T, on, x) \cap T
           f == [x \in N |-> val[end(x)]]
           g == [x \in N |-> IF x \in T THEN val[x] ELSE f[on[x]]]
<1>1. ASSUME NEW x \in N PROVE f[x] = g[x]
  <2>1. CASE x \in T
    <3>1. Path(N, T, on, x) \cap T = {x}
      BY <1>1, <2>1, PathGoesOn
    <3>2. end(x) = x
      BY <3>1
    <3> HIDE DEF end
    <3> QED
      BY <1>1, <2>1, <3>2
  <2>2. CASE x \notin T
    <3>1. Path(N, T, on, x) \cap T = Path(N, T, on, on[x]) \cap T
      BY <1>1, <2>2, PathGoesOn
    <3>2. end(x) = end(on[x])
      BY <3>1
    <3>3. on[x] \in N
      BY <1>1, <2>2
    <3> HIDE DEF end
    <3> QED
      BY <1>1, <2>2, <3>2, <3>3
  <2> QED
    BY <2>1, <2>2
<1>2. f = g
  BY <1>1
<1>3. FoundAtEnds(N, T, on, val, f)
  BY <1>2 DEF FoundAtEnds
<1> QED
  BY <1>3

\* What has been met by the end of each path.
Gathered(N, T, on, f) == f = [x \in N |-> {x} \cup IF x \in T THEN {} ELSE f[on[x]]]
LEMMA PathsGather ==
  ASSUME NEW N, NEW T, NEW on, \A y \in N \ T : on[y] \in N
  PROVE  \E f : Gathered(N, T, on, f)
<1> DEFINE f == [x \in N |-> Path(N, T, on, x)]
           g == [x \in N |-> {x} \cup IF x \in T THEN {} ELSE f[on[x]]]
<1>1. ASSUME NEW x \in N PROVE f[x] = g[x]
  <2>1. x \notin T => f[on[x]] = Path(N, T, on, on[x])
    BY <1>1
  <2> QED
    BY <1>1, <2>1, PathGoesOn
<1>2. f = g
  BY <1>1
<1>3. Gathered(N, T, on, f)
  BY <1>2 DEF Gathered
<1> QED
  BY <1>3

(***************************************************************************)
(* Recursive functions over data.  They have the value their equation says *)
(* if each call goes on to one with a smaller measure.                     *)
(***************************************************************************)

LEMMA IntervalInduction ==
  ASSUME NEW a \in Int, NEW b \in Int, NEW G, a \in G,
         \A k \in a .. (b - 1) : k \in G => k + 1 \in G
  PROVE  a .. b \subseteq G
<1> DEFINE H == {n \in Nat : a + n <= b => a + n \in G}
<1>1. 0 \in H
  OBVIOUS
<1>2. ASSUME NEW n \in Nat, n \in H PROVE n + 1 \in H
  <2> SUFFICES ASSUME a + (n + 1) <= b PROVE a + (n + 1) \in G
    OBVIOUS
  <2>1. a + n \in a .. (b - 1) /\ a + n \in G
    BY <1>2
  <2>2. (a + n) + 1 \in G
    BY <2>1
  <2> QED
    BY <2>2
<1>3. Nat \subseteq H
  <2> HIDE DEF H
  <2> QED
    BY <1>1, <1>2, SetInduction
<1> SUFFICES ASSUME NEW k \in a .. b PROVE k \in G
  OBVIOUS
<1>4. k - a \in Nat /\ a + (k - a) = k
  OBVIOUS
<1> QED
  BY <1>3, <1>4

\* From each x outside of T the recursion goes on to on[x], and step takes the value there
\* to that of x.
Recurses(D, T, on, val, step, f) ==
  f = [x \in D |-> IF x \in T THEN val[x] ELSE step[<<x, f[on[x]]>>]]
LEMMA RecursionExists ==
  ASSUME NEW D, NEW T, NEW on, NEW measure \in [D -> Nat], NEW bound \in Nat,
         NEW S, NEW s0 \in S, NEW val, NEW step,
         \A x \in D : measure[x] <= bound,
         \A x \in D \ T : on[x] \in D /\ measure[on[x]] < measure[x],
         \A x \in D \cap T : val[x] \in S,
         \A x \in D \ T : \A y \in S : step[<<x, y>>] \in S
  PROVE  \E f \in [D -> S] : Recurses(D, T, on, val, step, f)
<1> DEFINE Is(f, x) == f[x] = IF x \in T THEN val[x] ELSE step[<<x, f[on[x]]>>]
           UpTo(n) == {f \in [D -> S] : \A x \in D : measure[x] < n => Is(f, x)}
           N == {n \in Nat : UpTo(n) # {}}
<1>1. 0 \in N
  <2>1. [x \in D |-> s0] \in UpTo(0)
    OBVIOUS
  <2> QED
    BY <2>1
<1>2. ASSUME NEW n \in Nat, n \in N PROVE n + 1 \in N
  <2>1. PICK f \in [D -> S] : \A x \in D : measure[x] < n => Is(f, x)
    BY <1>2
  <2> DEFINE g == [x \in D |-> IF x \in T THEN val[x] ELSE step[<<x, f[on[x]]>>]]
  <2>2. g \in [D -> S]
    OBVIOUS
  <2>3. \A x \in D : g[x] = IF x \in T THEN val[x] ELSE step[<<x, f[on[x]]>>]
    OBVIOUS
  <2> HIDE DEF g
  <2>4. ASSUME NEW x \in D, measure[x] < n + 1 PROVE Is(g, x)
    <3>1. CASE x \in T
      BY <2>3, <3>1
    <3>2. CASE x \notin T
      <4>1. on[x] \in D /\ measure[on[x]] < n
        BY <2>4, <3>2
      <4>2. Is(f, on[x])
        BY <2>1, <4>1
      <4>3. g[on[x]] = f[on[x]]
        BY <2>3, <4>1, <4>2
      <4> QED
        BY <2>3, <3>2, <4>3
    <3> QED
      BY <3>1, <3>2
  <2>5. g \in UpTo(n + 1)
    BY <2>2, <2>4
  <2> QED
    BY <2>5
<1>3. bound + 1 \in N
  <2> HIDE DEF N
  <2>1. Nat \subseteq N
    BY <1>1, <1>2, SetInduction
  <2> QED
    BY <2>1
<1>4. PICK f \in [D -> S] : \A x \in D : measure[x] < bound + 1 => Is(f, x)
  BY <1>3
<1>5. \A x \in D : f[x] = IF x \in T THEN val[x] ELSE step[<<x, f[on[x]]>>]
  BY <1>4
<1>6. f = [x \in D |-> IF x \in T THEN val[x] ELSE step[<<x, f[on[x]]>>]]
  BY <1>5
<1> QED
  BY <1>6 DEF Recurses

\* A loop that counts from a to b.
Repeats(a, b, s0, step, f) == f = [k \in a .. b |-> IF k = a THEN s0 ELSE step[<<k, f[k - 1]>>]]
LEMMA LoopExists ==
  ASSUME NEW a \in Int, NEW b \in Int, NEW S, NEW s0 \in S, NEW step,
         \A k \in (a + 1) .. b : \A y \in S : step[<<k, y>>] \in S
  PROVE  \E f \in [a .. b -> S] : Repeats(a, b, s0, step, f)
<1> DEFINE D == a .. b
           T == {a}
           on == [k \in D |-> k - 1]
           measure == [k \in D |-> k - a]
           val == [k \in D |-> s0]
           bound == IF a <= b THEN b - a ELSE 0
<1>1. /\ measure \in [D -> Nat] /\ bound \in Nat
      /\ \A x \in D : measure[x] <= bound
      /\ \A x \in D \ T : on[x] \in D /\ measure[on[x]] < measure[x]
      /\ \A x \in D \cap T : val[x] \in S
      /\ \A x \in D \ T : \A y \in S : step[<<x, y>>] \in S
  OBVIOUS
<1>2. \A x \in D : val[x] = s0 /\ on[x] = x - 1
  OBVIOUS
<1>3. \E f \in [D -> S] : Recurses(D, T, on, val, step, f)
  <2> HIDE DEF D, T, on, measure, val, bound
  <2> QED
    BY <1>1, RecursionExists
<1>4. PICK f \in [D -> S] : f = [x \in D |-> IF x \in T THEN val[x] ELSE step[<<x, f[on[x]]>>]]
  BY <1>3 DEF Recurses
<1>5. ASSUME NEW k \in a .. b PROVE f[k] = IF k = a THEN s0 ELSE step[<<k, f[k - 1]>>]
  <2> HIDE DEF val, on
  <2> QED
    BY <1>2, <1>4
<1>6. f = [k \in a .. b |-> IF k = a THEN s0 ELSE step[<<k, f[k - 1]>>]]
  BY <1>4, <1>5
<1> QED
  BY <1>4, <1>6 DEF Repeats

LEMMA LoopKeeps ==
  ASSUME NEW a \in Int, NEW b \in Int, NEW S, NEW g, a <= b => g[a] \in S,
         \A k \in (a + 1) .. b : g[k - 1] \in S => g[k] \in S
  PROVE  \A k \in a .. b : g[k] \in S
<1> DEFINE G == {k \in a .. b : g[k] \in S}
<1> SUFFICES ASSUME a <= b PROVE a .. b \subseteq G
  OBVIOUS
<1>1. a \in G
  OBVIOUS
<1>2. ASSUME NEW k \in a .. (b - 1), k \in G PROVE k + 1 \in G
  <2>1. k + 1 \in (a + 1) .. b /\ (k + 1) - 1 = k /\ g[k] \in S
    BY <1>2
  <2>2. g[k + 1] \in S
    BY <2>1
  <2> QED
    BY <2>1, <2>2
<1> HIDE DEF G
<1> QED
  BY <1>1, <1>2, IntervalInduction

=============================================================================
