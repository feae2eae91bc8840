---------------------------- MODULE JobRunProofs ----------------------------
(***************************************************************************)
(* Proofs about JobRun for any number of jobs on a disk of any size: what  *)
(* a run leaves behind, that what a done job serves is whole, that the     *)
(* tracks picked are the best of any list, and that space which was        *)
(* granted stays there.  Sums over jobs and files and the pass over a list *)
(* are folds over a finite set; the first two parts say what they yield.   *)
(***************************************************************************)
EXTENDS JobRun, FiniteSetTheorems, SequenceTheorems, TLAPS

-----------------------------------------------------------------------------
(* Induction over the subsets of a finite set.                             *)

\* A set that contains each set whose proper subsets it contains, contains
\* them all.
LEMMA SetInduction ==
    ASSUME NEW S, IsFiniteSet(S), NEW G,
           \A T \in SUBSET S : (\A U \in (SUBSET T) \ {T} : U \in G) => T \in G
    PROVE  \A T \in SUBSET S : T \in G
<1> DEFINE B == (SUBSET S) \ G
           R == StrictSubsetOrdering(S)
<1>1. IsWellFoundedOn(R, FiniteSubsetsOf(S))
  BY FS_StrictSubsetOrderingWellFounded
<1>2. B \subseteq FiniteSubsetsOf(S)
  BY FS_Subset DEF FiniteSubsetsOf
<1>3. SUFFICES ASSUME B # {} PROVE FALSE
  OBVIOUS
<1>4. PICK T \in B : \A U \in B : ~(<<U, T>> \in R)
  <2> HIDE DEF R, B
  <2> QED
    BY <1>1, <1>2, <1>3, WFMin
<1>5. \A U \in (SUBSET T) \ {T} : U \in G
  BY <1>4 DEF StrictSubsetOrdering
<1> QED
  BY <1>4, <1>5

\* h folds g over the subsets of S, taking the elements in the order of c.
FoldsOver(h, S, V, base, g, c) ==
    /\ h \in [SUBSET S -> V]
    /\ \A s \in SUBSET S : h[s] = IF s = {} THEN base ELSE g[<<c[s], h[s \ {c[s]}]>>]

LEMMA FoldUnique ==
    ASSUME NEW S, IsFiniteSet(S), NEW V, NEW base, NEW g, NEW c,
           \A s \in SUBSET S : s # {} => c[s] \in s,
           NEW T \in SUBSET S, NEW U \in SUBSET T, NEW h, NEW k,
           FoldsOver(h, T, V, base, g, c), FoldsOver(k, U, V, base, g, c)
    PROVE  \A s \in SUBSET U : h[s] = k[s]
<1> DEFINE G == {s \in SUBSET U : h[s] = k[s]}
<1>1. IsFiniteSet(U)
  BY FS_Subset
<1>2. ASSUME NEW s \in SUBSET U, \A w \in (SUBSET s) \ {s} : w \in G
      PROVE  h[s] = k[s]
  <2>1. CASE s = {}
    BY <2>1 DEF FoldsOver
  <2>2. CASE s # {}
    <3> DEFINE w == s \ {c[s]}
    <3>1. c[s] \in s /\ w \in (SUBSET s) \ {s} /\ s \in SUBSET T
      BY <2>2
    <3>2. h[w] = k[w]
      BY <1>2, <3>1
    <3>3. h[s] = g[<<c[s], h[w]>>] /\ k[s] = g[<<c[s], k[w]>>]
      BY <2>2, <3>1 DEF FoldsOver
    <3> QED
      BY <3>2, <3>3
  <2> QED
    BY <2>1, <2>2
<1>3. \A s \in SUBSET U : (\A w \in (SUBSET s) \ {s} : w \in G) => s \in G
  BY <1>2
<1> HIDE DEF G
<1>4. \A s \in SUBSET U : s \in G
  BY <1>1, <1>3, SetInduction
<1> QED
  BY <1>4 DEF G

LEMMA FoldExists ==
    ASSUME NEW S, IsFiniteSet(S), NEW V, NEW base \in V, NEW g, NEW c,
           \A s \in SUBSET S : s # {} => c[s] \in s,
           \A x \in S : \A v \in V : g[<<x, v>>] \in V
    PROVE  \E h : FoldsOver(h, S, V, base, g, c)
<1> DEFINE G == {T \in SUBSET S : \E h : FoldsOver(h, T, V, base, g, c)}
           H(U) == CHOOSE h : FoldsOver(h, U, V, base, g, c)
<1>1. ASSUME NEW T \in SUBSET S, \A U \in (SUBSET T) \ {T} : U \in G
      PROVE  T \in G
  <2> DEFINE k == [s \in SUBSET T |->
                     IF s = {} THEN base ELSE g[<<c[s], H(s \ {c[s]})[s \ {c[s]}]>>]]
  <2>1. \A U \in (SUBSET T) \ {T} : FoldsOver(H(U), U, V, base, g, c)
    BY <1>1
  <2> HIDE DEF G, H
  <2>2. ASSUME NEW u \in (SUBSET T) \ {T}
        PROVE  k[u] = H(u)[u]
    <3>1. FoldsOver(H(u), u, V, base, g, c)
      BY <2>1
    <3>2. CASE u = {}
      BY <3>1, <3>2 DEF FoldsOver
    <3>3. CASE u # {}
      <4> DEFINE w == u \ {c[u]}
      <4>1. c[u] \in u /\ w \in (SUBSET T) \ {T} /\ w \in SUBSET u /\ u \in SUBSET S
        BY <3>3
      <4>2. FoldsOver(H(w), w, V, base, g, c)
        BY <4>1, <2>1
      <4>3. H(u)[w] = H(w)[w]
        <5> HIDE DEF w
        <5>1. \A x \in SUBSET w : H(u)[x] = H(w)[x]
          BY <3>1, <4>1, <4>2, FoldUnique
        <5> QED
          BY <5>1
      <4>4. H(u)[u] = g[<<c[u], H(u)[w]>>]
        BY <3>1, <3>3 DEF FoldsOver
      <4>5. k[u] = g[<<c[u], H(w)[w]>>]
        BY <3>3
      <4> QED
        BY <4>3, <4>4, <4>5
    <3> QED
      BY <3>2, <3>3
  <2>3. ASSUME NEW s \in SUBSET T
        PROVE  /\ k[s] \in V
               /\ k[s] = IF s = {} THEN base ELSE g[<<c[s], k[s \ {c[s]}]>>]
    <3>1. CASE s = {}
      BY <3>1
    <3>2. CASE s # {}
      <4> DEFINE w == s \ {c[s]}
      <4>1. c[s] \in s /\ w \in (SUBSET T) \ {T}
        BY <3>2
      <4>2. k[w] = H(w)[w] /\ H(w)[w] \in V
        <5> HIDE DEF w, k
        <5>1. FoldsOver(H(w), w, V, base, g, c)
          BY <4>1, <2>1
        <5> QED
          BY <4>1, <5>1, <2>2 DEF FoldsOver
      <4>3. k[s] = g[<<c[s], H(w)[w]>>]
        BY <3>2
      <4> QED
        BY <3>2, <4>1, <4>2, <4>3
    <3> QED
      BY <3>1, <3>2
  <2>4. k \in [SUBSET T -> V]
    BY <2>3
  <2> HIDE DEF k
  <2>5. FoldsOver(k, T, V, base, g, c)
    BY <2>3, <2>4 DEF FoldsOver
  <2> QED
    BY <2>5 DEF G
<1> HIDE DEF G
<1>2. \A T \in SUBSET S : T \in G
  BY <1>1, SetInduction
<1> QED
  BY <1>2 DEF G

-----------------------------------------------------------------------------
(* Sums.                                                                   *)

Total(f, S) == FoldFunctionOnSet(+, 0, f, S)
AnyOf(s) == CHOOSE x \in s : TRUE
IsTotal(h, f, S) ==
    h = [s \in SUBSET S |-> IF s = {} THEN 0 ELSE f[AnyOf(s)] + h[s \ {AnyOf(s)}]]

LEMMA AnyOfIn == ASSUME NEW s, s # {} PROVE AnyOf(s) \in s
  BY DEF AnyOf

LEMMA TotalIs == ASSUME NEW f, NEW S PROVE Total(f, S) = (CHOOSE h : IsTotal(h, f, S))[S]
  BY Zenon DEF Total, FoldFunctionOnSet, MapThenFoldSet, IsTotal, AnyOf

LEMMA SumIs == ASSUME NEW f PROVE Sum(f) = Total(f, DOMAIN f)
  BY DEF Sum, Total, FoldFunction

LEMMA TotalExists ==
    ASSUME NEW S, IsFiniteSet(S), NEW f, \A x \in S : f[x] \in Nat
    PROVE  \E h : IsTotal(h, f, S) /\ h \in [SUBSET S -> Nat]
<1> DEFINE g == [p \in S \X Nat |-> f[p[1]] + p[2]]
           c == [s \in SUBSET S |-> AnyOf(s)]
<1>1. \A s \in SUBSET S : c[s] = AnyOf(s) /\ (s # {} => c[s] \in s)
  BY AnyOfIn
<1>2. \A x \in S : \A v \in Nat : g[<<x, v>>] = f[x] + v /\ g[<<x, v>>] \in Nat
  OBVIOUS
<1> HIDE DEF g, c
<1>3. PICK h : FoldsOver(h, S, Nat, 0, g, c)
  BY <1>1, <1>2, FoldExists
<1>4. ASSUME NEW s \in SUBSET S
      PROVE  h[s] = IF s = {} THEN 0 ELSE f[AnyOf(s)] + h[s \ {AnyOf(s)}]
  <2>1. s # {} => /\ AnyOf(s) \in S /\ h[s \ {AnyOf(s)}] \in Nat
                  /\ h[s] = g[<<AnyOf(s), h[s \ {AnyOf(s)}]>>]
    BY <1>1, <1>3, AnyOfIn DEF FoldsOver
  <2> QED
    BY <1>2, <1>3, <2>1 DEF FoldsOver
<1>5. h \in [SUBSET S -> Nat]
  BY <1>3 DEF FoldsOver
<1>6. IsTotal(h, f, S)
  BY <1>4, <1>5 DEF IsTotal
<1> QED
  BY <1>5, <1>6

LEMMA TotalUnique ==
    ASSUME NEW S, IsFiniteSet(S), NEW f, NEW T \in SUBSET S,
           NEW h, NEW k, IsTotal(h, f, S), IsTotal(k, f, T)
    PROVE  \A s \in SUBSET T : h[s] = k[s]
<1> DEFINE G == {s \in SUBSET T : h[s] = k[s]}
<1>1. ASSUME NEW s \in SUBSET T, \A w \in (SUBSET s) \ {s} : w \in G
      PROVE  h[s] = k[s]
  <2>1. CASE s = {}
    BY <2>1 DEF IsTotal
  <2>2. CASE s # {}
    <3> DEFINE w == s \ {AnyOf(s)}
    <3>1. w \in (SUBSET s) \ {s} /\ s \in SUBSET S
      BY <2>2, AnyOfIn
    <3>2. h[w] = k[w]
      BY <1>1, <3>1
    <3>3. h[s] = f[AnyOf(s)] + h[w] /\ k[s] = f[AnyOf(s)] + k[w]
      BY <2>2, <3>1 DEF IsTotal
    <3> QED
      BY <3>2, <3>3
  <2> QED
    BY <2>1, <2>2
<1>2. \A s \in SUBSET T : (\A w \in (SUBSET s) \ {s} : w \in G) => s \in G
  BY <1>1
<1>3. IsFiniteSet(T)
  BY FS_Subset
<1> HIDE DEF G
<1>4. \A s \in SUBSET T : s \in G
  BY <1>2, <1>3, SetInduction
<1> QED
  BY <1>4 DEF G

\* The sum, without mention of how it is defined.
LEMMA TotalStep ==
    ASSUME NEW S, IsFiniteSet(S), NEW f, \A x \in S : f[x] \in Nat
    PROVE  /\ Total(f, S) \in Nat
           /\ S = {} => Total(f, S) = 0
           /\ S # {} => Total(f, S) = f[AnyOf(S)] + Total(f, S \ {AnyOf(S)})
<1> DEFINE R == S \ {AnyOf(S)}
           h == CHOOSE a : IsTotal(a, f, S)
           k == CHOOSE a : IsTotal(a, f, R)
<1>1. IsFiniteSet(R) /\ R \in SUBSET S
  BY FS_Subset
<1>2. IsTotal(h, f, S) /\ IsTotal(k, f, R)
  <2>1. (\E a : IsTotal(a, f, S)) /\ (\E a : IsTotal(a, f, R))
    BY <1>1, TotalExists
  <2> QED
    BY <2>1
<1>3. Total(f, S) = h[S] /\ Total(f, R) = k[R]
  BY TotalIs
<1> HIDE DEF h, k
<1>4. h[R] = k[R]
  <2> HIDE DEF R
  <2>1. \A s \in SUBSET R : h[s] = k[s]
    BY <1>1, <1>2, TotalUnique
  <2> QED
    BY <2>1
<1>5. h[S] \in Nat
  <2>1. PICK a : IsTotal(a, f, S) /\ a \in [SUBSET S -> Nat]
    BY TotalExists
  <2>2. \A s \in SUBSET S : a[s] = h[s]
    BY <1>2, <2>1, TotalUnique
  <2> QED
    BY <2>1, <2>2
<1>6. h[S] = IF S = {} THEN 0 ELSE f[AnyOf(S)] + h[R]
  BY <1>2 DEF IsTotal
<1> QED
  BY <1>3, <1>4, <1>5, <1>6

\* Any element may go first.
LEMMA TotalRemove ==
    ASSUME NEW S, IsFiniteSet(S), NEW f, \A x \in S : f[x] \in Nat, NEW x \in S
    PROVE  Total(f, S) = f[x] + Total(f, S \ {x})
<1> DEFINE G == {T \in SUBSET S : \A y \in T : Total(f, T) = f[y] + Total(f, T \ {y})}
<1>1. \A T \in SUBSET S :
        /\ Total(f, T) \in Nat
        /\ T # {} => AnyOf(T) \in T /\ Total(f, T) = f[AnyOf(T)] + Total(f, T \ {AnyOf(T)})
  <2> SUFFICES ASSUME NEW T \in SUBSET S
               PROVE  /\ Total(f, T) \in Nat
                      /\ T # {} => AnyOf(T) \in T /\ Total(f, T) = f[AnyOf(T)] + Total(f, T \ {AnyOf(T)})
    OBVIOUS
  <2>1. IsFiniteSet(T)
    BY FS_Subset
  <2> QED
    BY <2>1, TotalStep, AnyOfIn
<1>2. ASSUME NEW T \in SUBSET S, \A U \in (SUBSET T) \ {T} : U \in G, NEW y \in T
      PROVE  Total(f, T) = f[y] + Total(f, T \ {y})
  <2> DEFINE a == AnyOf(T)
  <2>1. a \in T /\ Total(f, T) = f[a] + Total(f, T \ {a})
    BY <1>1
  <2>2. CASE y = a
    BY <2>1, <2>2
  <2>3. CASE y # a
    <3>1. Total(f, T \ {a}) = f[y] + Total(f, (T \ {a}) \ {y})
      BY <1>2, <2>1, <2>3
    <3>2. Total(f, T \ {y}) = f[a] + Total(f, (T \ {y}) \ {a})
      BY <1>2, <2>1, <2>3
    <3>3. (T \ {a}) \ {y} = (T \ {y}) \ {a}
      OBVIOUS
    <3> DEFINE rest == Total(f, (T \ {a}) \ {y})
    <3>4. rest \in Nat /\ f[a] \in Nat /\ f[y] \in Nat
      BY <1>1, <2>1
    <3>5. Total(f, T) = f[a] + (f[y] + rest) /\ Total(f, T \ {y}) = f[a] + rest
      BY <2>1, <3>1, <3>2, <3>3
    <3> HIDE DEF a, rest
    <3> QED
      BY <3>4, <3>5
  <2> QED
    BY <2>2, <2>3
<1>3. \A T \in SUBSET S : (\A U \in (SUBSET T) \ {T} : U \in G) => T \in G
  BY <1>2
<1> HIDE DEF G
<1>4. \A T \in SUBSET S : T \in G
  BY <1>3, SetInduction
<1> QED
  BY <1>4 DEF G

\* A sum grows with its terms.
LEMMA TotalMono ==
    ASSUME NEW S, IsFiniteSet(S), NEW f, NEW g,
           \A x \in S : f[x] \in Nat /\ g[x] \in Nat /\ f[x] <= g[x]
    PROVE  Total(f, S) <= Total(g, S)
<1> DEFINE G == {T \in SUBSET S : Total(f, T) <= Total(g, T)}
<1>1. ASSUME NEW T \in SUBSET S, \A U \in (SUBSET T) \ {T} : U \in G
      PROVE  Total(f, T) <= Total(g, T)
  <2> DEFINE a == AnyOf(T)
             U == T \ {a}
  <2>1. IsFiniteSet(T) /\ IsFiniteSet(U)
    BY FS_Subset
  <2>2. CASE T = {}
    BY <2>1, <2>2, TotalStep
  <2>3. CASE T # {}
    <3>1. a \in T /\ U \in (SUBSET T) \ {T}
      BY <2>3, AnyOfIn
    <3>2. Total(f, T) = f[a] + Total(f, U) /\ Total(g, T) = g[a] + Total(g, U)
      BY <2>1, <2>3, TotalStep
    <3>3. Total(f, U) \in Nat /\ Total(g, U) \in Nat
      BY <2>1, <3>1, TotalStep
    <3>4. Total(f, U) <= Total(g, U)
      BY <1>1, <3>1
    <3>5. f[a] \in Nat /\ g[a] \in Nat /\ f[a] <= g[a]
      BY <3>1
    <3> HIDE DEF a, U
    <3> QED
      BY <3>2, <3>3, <3>4, <3>5
  <2> QED
    BY <2>2, <2>3
<1>2. \A T \in SUBSET S : (\A U \in (SUBSET T) \ {T} : U \in G) => T \in G
  BY <1>1
<1> HIDE DEF G
<1>3. \A T \in SUBSET S : T \in G
  BY <1>2, SetInduction
<1> QED
  BY <1>3 DEF G

\* The sum of sums.
LEMMA TotalPlus ==
    ASSUME NEW S, IsFiniteSet(S), NEW f, NEW g, NEW h,
           \A x \in S : f[x] \in Nat /\ g[x] \in Nat /\ h[x] = f[x] + g[x]
    PROVE  Total(h, S) = Total(f, S) + Total(g, S)
<1> DEFINE G == {T \in SUBSET S : Total(h, T) = Total(f, T) + Total(g, T)}
<1>1. ASSUME NEW T \in SUBSET S, \A U \in (SUBSET T) \ {T} : U \in G
      PROVE  Total(h, T) = Total(f, T) + Total(g, T)
  <2> DEFINE a == AnyOf(T)
             U == T \ {a}
  <2>1. IsFiniteSet(T) /\ IsFiniteSet(U) /\ \A x \in T : h[x] \in Nat
    BY FS_Subset
  <2>2. CASE T = {}
    <3>1. Total(f, T) = 0
      BY <2>1, <2>2, TotalStep
    <3>2. Total(g, T) = 0
      BY <2>1, <2>2, TotalStep
    <3>3. Total(h, T) = 0
      BY <2>1, <2>2, TotalStep
    <3> QED
      BY <3>1, <3>2, <3>3
  <2>3. CASE T # {}
    <3>1. a \in T /\ U \in (SUBSET T) \ {T}
      BY <2>3, AnyOfIn
    <3>2. /\ Total(f, T) = f[a] + Total(f, U) /\ Total(g, T) = g[a] + Total(g, U)
          /\ Total(h, T) = h[a] + Total(h, U)
      BY <2>1, <2>3, TotalStep
    <3>3. Total(f, U) \in Nat /\ Total(g, U) \in Nat
      BY <2>1, <3>1, TotalStep
    <3>4. Total(h, U) = Total(f, U) + Total(g, U)
      BY <1>1, <3>1
    <3>5. f[a] \in Nat /\ g[a] \in Nat /\ h[a] = f[a] + g[a]
      BY <3>1
    <3> HIDE DEF a, U
    <3> QED
      BY <3>2, <3>3, <3>4, <3>5
  <2> QED
    BY <2>2, <2>3
<1>2. \A T \in SUBSET S : (\A U \in (SUBSET T) \ {T} : U \in G) => T \in G
  BY <1>1
<1> HIDE DEF G
<1>3. \A T \in SUBSET S : T \in G
  BY <1>2, SetInduction
<1> QED
  BY <1>3 DEF G

\* A sum over parts.
LEMMA TotalSplit ==
    ASSUME NEW S, IsFiniteSet(S), NEW f, \A x \in S : f[x] \in Nat, NEW T \in SUBSET S
    PROVE  Total(f, S) = Total(f, T) + Total(f, S \ T)
<1> DEFINE G == {U \in SUBSET T : Total(f, S) = Total(f, U) + Total(f, S \ U)}
<1>1. ASSUME NEW U \in SUBSET T, \A W \in (SUBSET U) \ {U} : W \in G
      PROVE  Total(f, S) = Total(f, U) + Total(f, S \ U)
  <2>1. CASE U = {}
    <3>1. Total(f, {}) = 0 /\ Total(f, S) \in Nat /\ S \ U = S
      BY <2>1, FS_EmptySet, TotalStep
    <3> QED
      BY <2>1, <3>1
  <2>2. CASE U # {}
    <3>1. PICK a \in U : TRUE
      BY <2>2
    <3> DEFINE W == U \ {a}
               R == S \ W
    <3>2. IsFiniteSet(U) /\ IsFiniteSet(W) /\ IsFiniteSet(R) /\ IsFiniteSet(S \ U)
      BY FS_Subset
    <3>3. Total(f, S) = Total(f, W) + Total(f, R)
      BY <1>1, <3>1
    <3>4. Total(f, U) = f[a] + Total(f, W)
      BY <3>1, <3>2, TotalRemove
    <3>5. a \in R /\ R \ {a} = S \ U
      BY <3>1
    <3>6. Total(f, R) = f[a] + Total(f, S \ U)
      <4> HIDE DEF R
      <4>1. \A x \in R : f[x] \in Nat
        BY DEF R
      <4> QED
        BY <3>2, <3>5, <4>1, TotalRemove
    <3>7. Total(f, W) \in Nat /\ Total(f, S \ U) \in Nat /\ f[a] \in Nat
      BY <3>1, <3>2, TotalStep
    <3> HIDE DEF W, R
    <3> QED
      BY <3>3, <3>4, <3>6, <3>7
  <2> QED
    BY <2>1, <2>2
<1>2. \A U \in SUBSET T : (\A W \in (SUBSET U) \ {U} : W \in G) => U \in G
  BY <1>1
<1> HIDE DEF G
<1>3. \A U \in SUBSET T : U \in G
  BY <1>2, FS_Subset, SetInduction
<1> QED
  BY <1>3 DEF G

\* A nonempty finite set of numbers has a greatest.
LEMMA MaxIn ==
    ASSUME NEW S \in SUBSET Nat, IsFiniteSet(S), S # {}
    PROVE  Max(S) \in S
<1> DEFINE G == {T \in SUBSET S : T # {} => \E x \in T : \A y \in T : x >= y}
<1>1. ASSUME NEW T \in SUBSET S, \A U \in (SUBSET T) \ {T} : U \in G, T # {}
      PROVE  \E x \in T : \A y \in T : x >= y
  <2>1. PICK a \in T : TRUE
    BY <1>1
  <2>2. CASE T \ {a} = {}
    BY <2>1, <2>2
  <2>3. CASE T \ {a} # {}
    <3> DEFINE U == T \ {a}
    <3>0. U \in (SUBSET T) \ {T} /\ U # {} /\ U \in G
      BY <1>1, <2>1, <2>3
    <3>1. PICK b \in U : \A y \in U : b >= y
      <4> HIDE DEF U
      <4> QED
        BY <3>0
    <3>2. a \in Nat /\ b \in Nat
      BY <2>1, <3>1
    <3>3. CASE a >= b
      BY <2>1, <3>1, <3>2, <3>3
    <3>4. CASE ~(a >= b)
      BY <2>1, <3>1, <3>2, <3>4
    <3> QED
      BY <3>3, <3>4
  <2> QED
    BY <2>2, <2>3
<1>2. \A T \in SUBSET S : (\A U \in (SUBSET T) \ {T} : U \in G) => T \in G
  BY <1>1
<1> HIDE DEF G
<1>3. S \in G
  BY <1>2, SetInduction
<1> QED
  BY <1>3 DEF G, Max

-----------------------------------------------------------------------------
(* The best of a sequence.                                                 *)

\* x is one of the items at the positions T that are in F, and none of those
\* is better by B; or there is none in F.
BestOf(x, T, items, F, B) ==
    \/ x = NoItem /\ \A m \in T : items[m] \notin F
    \/ /\ \E m \in T : x = items[m]
       /\ x \in F
       /\ \A m \in T : items[m] \in F => <<items[m], x>> \notin B

\* B ranks the members of V.
Ranks(B, V) ==
    /\ \A a \in V : <<a, a>> \notin B
    /\ \A a, b, d \in V : <<a, b>> \in B /\ <<d, b>> \notin B => <<d, a>> \notin B

\* h goes over the positions S and keeps an item of F that is better than the
\* one kept from the others.
Keeps(h, S, V, items, F, B, c) ==
    /\ h[{}] = NoItem
    /\ \A s \in SUBSET S : s # {} => c[s] \in s
    /\ \A s \in SUBSET S : s # {} /\ h[s \ {c[s]}] \in V \cup {NoItem} =>
         h[s] = IF /\ items[c[s]] \in F
                   /\ h[s \ {c[s]}] = NoItem \/ <<items[c[s]], h[s \ {c[s]}]>> \in B
                THEN items[c[s]] ELSE h[s \ {c[s]}]

LEMMA PassBest ==
    ASSUME NEW S, IsFiniteSet(S), NEW V, NoItem \notin V, NEW items, \A m \in S : items[m] \in V,
           NEW F, NEW B, Ranks(B, V), NEW c, NEW h, Keeps(h, S, V, items, F, B, c)
    PROVE  \A s \in SUBSET S : BestOf(h[s], s, items, F, B)
<1> DEFINE G == {T \in SUBSET S : BestOf(h[T], T, items, F, B)}
<1>1. ASSUME NEW T \in SUBSET S, \A U \in (SUBSET T) \ {T} : U \in G
      PROVE  BestOf(h[T], T, items, F, B)
  <2>1. CASE T = {}
    BY <2>1 DEF BestOf, Keeps
  <2>2. CASE T # {}
    <3> DEFINE x == items[c[T]]
               U == T \ {c[T]}
               y == h[U]
    <3>1. c[T] \in T /\ x \in V /\ U \in (SUBSET T) \ {T}
      BY <2>2 DEF Keeps
    <3>2. BestOf(y, U, items, F, B)
      BY <1>1, <3>1
    <3>3. y \in V \cup {NoItem}
      BY <3>1, <3>2 DEF BestOf
    <3>4. h[T] = IF x \in F /\ (y = NoItem \/ <<x, y>> \in B) THEN x ELSE y
      BY <2>2, <3>3 DEF Keeps
    <3>5. \A m \in T : m \in U \/ items[m] = x
      OBVIOUS
    <3>6. \A m \in T : items[m] \in V
      OBVIOUS
    <3>7. U \subseteq T
      OBVIOUS
    <3>8. CASE y = NoItem
      <4>1. \A m \in U : items[m] \notin F
        BY <3>2, <3>7, <3>6, <3>8 DEF BestOf
      <4>2. CASE x \in F
        BY <3>1, <3>4, <3>5, <3>8, <4>1, <4>2 DEF BestOf, Ranks
      <4>3. CASE x \notin F
        BY <3>4, <3>5, <3>8, <4>1, <4>3 DEF BestOf
      <4> QED
        BY <4>2, <4>3
    <3>9. CASE y # NoItem
      <4>1. /\ \E m \in U : y = items[m]
            /\ y \in F /\ \A m \in U : items[m] \in F => <<items[m], y>> \notin B
        BY <3>2, <3>9 DEF BestOf
      <4>2. y \in V
        BY <3>3, <3>9
      <4> HIDE DEF x, y, U
      <4>3. CASE x \in F /\ <<x, y>> \in B
        <5>1. \A m \in T : items[m] \in F => <<items[m], x>> \notin B
          BY <3>1, <3>5, <3>6, <4>1, <4>2, <4>3 DEF Ranks
        <5>2. h[T] = x /\ \E m \in T : x = items[m]
          BY <3>1, <3>4, <4>3 DEF x
        <5> QED
          BY <4>3, <5>1, <5>2 DEF BestOf
      <4>4. CASE ~(x \in F /\ <<x, y>> \in B)
        BY <3>4, <3>5, <3>7, <3>9, <4>1, <4>4 DEF BestOf
      <4> QED
        BY <4>3, <4>4
    <3> QED
      BY <3>8, <3>9
  <2> QED
    BY <2>1, <2>2
<1>2. \A T \in SUBSET S : (\A U \in (SUBSET T) \ {T} : U \in G) => T \in G
  BY <1>1
<1> HIDE DEF G
<1>3. \A T \in SUBSET S : T \in G
  BY <1>2, SetInduction
<1> QED
  BY <1>3 DEF G

VideoOp(o, best, s) ==
    IF VideoFits(s, o) /\ (best = NoItem \/ HigherVideo(s, best)) THEN s ELSE best

IsVideoPass(h, streams, o) ==
    h = [s \in SUBSET DOMAIN streams |->
           IF s = {} THEN NoItem ELSE VideoOp(o, h[s \ {Max(s)}], streams[Max(s)])]

LEMMA SelectVideoIs ==
    ASSUME NEW streams, NEW o
    PROVE  selectVideo(streams, o) = (CHOOSE h : IsVideoPass(h, streams, o))[DOMAIN streams]
  BY Zenon DEF selectVideo, FoldLeft, MapThenFoldSet, IsVideoPass, VideoOp

AudioOp(preferred, o, best, s) ==
    IF /\ AudioFits(s, o)
       /\ best = NoItem \/ audioRank(s, preferred) > audioRank(best, preferred)
    THEN s ELSE best

IsAudioPass(h, streams, preferred, o) ==
    h = [s \in SUBSET DOMAIN streams |->
           IF s = {} THEN NoItem ELSE AudioOp(preferred, o, h[s \ {Max(s)}], streams[Max(s)])]

LEMMA SelectAudioIs ==
    ASSUME NEW streams, NEW preferred, NEW o
    PROVE  selectAudio(streams, preferred, o)
             = (CHOOSE h : IsAudioPass(h, streams, preferred, o))[DOMAIN streams]
  BY Zenon DEF selectAudio, FoldLeft, MapThenFoldSet, IsAudioPass, AudioOp

\* The positions of a sequence, and the last of some of them.
LEMMA Positions ==
    ASSUME NEW V, NEW streams \in Seq(V)
    PROVE  /\ IsFiniteSet(DOMAIN streams)
           /\ \A m \in DOMAIN streams : streams[m] \in V
           /\ \A s \in SUBSET DOMAIN streams : s # {} => Max(s) \in s
<1>1. IsFiniteSet(DOMAIN streams) /\ DOMAIN streams \subseteq Nat
  BY FS_Interval
<1>2. \A s \in SUBSET DOMAIN streams : IsFiniteSet(s)
  BY <1>1, FS_Subset
<1> QED
  BY <1>1, <1>2, MaxIn

Fitting(o) == {s \in VideoItem : VideoFits(s, o)}
Higher == {p \in VideoItem \X VideoItem : HigherVideo(p[1], p[2])}

LEMMA VideoPassExists ==
    ASSUME NEW streams \in Seq(VideoItem), NEW o
    PROVE  \E h : IsVideoPass(h, streams, o)
<1> DEFINE S == DOMAIN streams
           V == VideoItem \cup {NoItem}
           g == [p \in S \X V |-> VideoOp(o, p[2], streams[p[1]])]
           c == [s \in SUBSET S |-> Max(s)]
<1>1. \A s \in SUBSET S : c[s] = Max(s) /\ (s # {} => c[s] \in s)
  BY Positions
<1>2. \A x \in S : \A v \in V : g[<<x, v>>] = VideoOp(o, v, streams[x]) /\ g[<<x, v>>] \in V
  BY Positions DEF VideoOp
<1>3. IsFiniteSet(S)
  BY Positions
<1> HIDE DEF g, c
<1>4. PICK h : FoldsOver(h, S, V, NoItem, g, c)
  BY <1>1, <1>2, <1>3, FoldExists
<1>5. ASSUME NEW s \in SUBSET S
      PROVE  h[s] = IF s = {} THEN NoItem ELSE VideoOp(o, h[s \ {Max(s)}], streams[Max(s)])
  <2>1. s # {} => /\ Max(s) \in S /\ h[s \ {Max(s)}] \in V
                  /\ h[s] = g[<<Max(s), h[s \ {Max(s)}]>>]
    BY <1>1, <1>4 DEF FoldsOver
  <2> QED
    BY <1>2, <1>4, <2>1 DEF FoldsOver
<1>6. IsVideoPass(h, streams, o)
  BY <1>4, <1>5 DEF IsVideoPass, FoldsOver
<1> QED
  BY <1>6

LEMMA SelectVideoBest ==
    ASSUME NEW streams \in Seq(VideoItem), NEW o, NoItem \notin VideoItem
    PROVE  BestOf(selectVideo(streams, o), DOMAIN streams, streams, Fitting(o), Higher)
<1> DEFINE S == DOMAIN streams
           h == CHOOSE k : IsVideoPass(k, streams, o)
           c == [s \in SUBSET S |-> Max(s)]
<1>1. IsVideoPass(h, streams, o)
  BY VideoPassExists
<1>2. selectVideo(streams, o) = h[S]
  BY SelectVideoIs
<1> HIDE DEF h
<1>3. \A s \in SUBSET S : c[s] = Max(s) /\ (s # {} => c[s] \in s)
  BY Positions
<1> HIDE DEF c
<1>4. \A a \in VideoItem : <<a, a>> \notin Higher
  <2> SUFFICES ASSUME NEW a \in VideoItem PROVE <<a, a>> \notin Higher
    OBVIOUS
  <2>1. a.height \in Nat /\ a.bitrate \in Nat
    BY DEF VideoItem
  <2>2. ~HigherVideo(a, a)
    BY <2>1 DEF HigherVideo
  <2> QED
    BY <2>2 DEF Higher
<1>5. ASSUME NEW a \in VideoItem, NEW b \in VideoItem, NEW d \in VideoItem,
             <<a, b>> \in Higher, <<d, b>> \notin Higher
      PROVE  <<d, a>> \notin Higher
  <2>1. HigherVideo(a, b) /\ ~HigherVideo(d, b)
    BY <1>5 DEF Higher
  <2>2. /\ a.height \in Nat /\ b.height \in Nat /\ d.height \in Nat
        /\ a.bitrate \in Nat /\ b.bitrate \in Nat /\ d.bitrate \in Nat
    BY DEF VideoItem
  <2>3. ~HigherVideo(d, a)
    BY <2>1, <2>2 DEF HigherVideo
  <2> QED
    BY <2>3 DEF Higher
<1>6. ASSUME NEW s \in SUBSET S, s # {}, h[s \ {c[s]}] \in VideoItem \cup {NoItem}
      PROVE  h[s] = IF /\ streams[c[s]] \in Fitting(o)
                       /\ \/ h[s \ {c[s]}] = NoItem
                          \/ <<streams[c[s]], h[s \ {c[s]}]>> \in Higher
                    THEN streams[c[s]] ELSE h[s \ {c[s]}]
  <2>1. h[s] = VideoOp(o, h[s \ {c[s]}], streams[c[s]])
    BY <1>1, <1>3, <1>6 DEF IsVideoPass
  <2>2. streams[c[s]] \in VideoItem
    BY <1>3, <1>6, Positions
  <2>3. streams[c[s]] \in Fitting(o) <=> VideoFits(streams[c[s]], o)
    BY <2>2 DEF Fitting
  <2>4. h[s \ {c[s]}] # NoItem =>
          (<<streams[c[s]], h[s \ {c[s]}]>> \in Higher
             <=> HigherVideo(streams[c[s]], h[s \ {c[s]}]))
    BY <1>6, <2>2 DEF Higher
  <2> QED
    BY <2>1, <2>3, <2>4 DEF VideoOp
<1>7. h[{}] = NoItem
  BY <1>1 DEF IsVideoPass
<1>8. IsFiniteSet(S) /\ \A m \in S : streams[m] \in VideoItem
  BY Positions
<1>9. \A s \in SUBSET S : BestOf(h[s], s, streams, Fitting(o), Higher)
  <2>1. Ranks(Higher, VideoItem)
    BY <1>4, <1>5 DEF Ranks
  <2>2. Keeps(h, S, VideoItem, streams, Fitting(o), Higher, c)
    BY <1>3, <1>6, <1>7 DEF Keeps
  <2> HIDE DEF S
  <2> QED
    BY <1>8, <2>1, <2>2, PassBest
<1> QED
  BY <1>2, <1>9

FittingAudio(o) == {s \in AudioItem : AudioFits(s, o)}
HigherRank(preferred) ==
    {p \in AudioItem \X AudioItem : audioRank(p[1], preferred) > audioRank(p[2], preferred)}

LEMMA AudioPassExists ==
    ASSUME NEW streams \in Seq(AudioItem), NEW preferred, NEW o
    PROVE  \E h : IsAudioPass(h, streams, preferred, o)
<1> DEFINE S == DOMAIN streams
           V == AudioItem \cup {NoItem}
           g == [p \in S \X V |-> AudioOp(preferred, o, p[2], streams[p[1]])]
           c == [s \in SUBSET S |-> Max(s)]
<1>1. \A s \in SUBSET S : c[s] = Max(s) /\ (s # {} => c[s] \in s)
  BY Positions
<1>2. \A x \in S : \A v \in V : g[<<x, v>>] = AudioOp(preferred, o, v, streams[x]) /\ g[<<x, v>>] \in V
  BY Positions DEF AudioOp
<1>3. IsFiniteSet(S)
  BY Positions
<1> HIDE DEF g, c
<1>4. PICK h : FoldsOver(h, S, V, NoItem, g, c)
  BY <1>1, <1>2, <1>3, FoldExists
<1>5. ASSUME NEW s \in SUBSET S
      PROVE  h[s] = IF s = {} THEN NoItem ELSE AudioOp(preferred, o, h[s \ {Max(s)}], streams[Max(s)])
  <2>1. s # {} => /\ Max(s) \in S /\ h[s \ {Max(s)}] \in V
                  /\ h[s] = g[<<Max(s), h[s \ {Max(s)}]>>]
    BY <1>1, <1>4 DEF FoldsOver
  <2> QED
    BY <1>2, <1>4, <2>1 DEF FoldsOver
<1>6. IsAudioPass(h, streams, preferred, o)
  BY <1>4, <1>5 DEF IsAudioPass, FoldsOver
<1> QED
  BY <1>6

LEMMA AudioRankNat == \A s \in AudioItem : \A preferred : audioRank(s, preferred) \in Nat
<1> SUFFICES ASSUME NEW s \in AudioItem, NEW preferred PROVE audioRank(s, preferred) \in Nat
  OBVIOUS
<1>1. s.bitrate \in Nat
  BY DEF AudioItem
<1> QED
  BY <1>1 DEF audioRank

LEMMA SelectAudioBest ==
    ASSUME NEW streams \in Seq(AudioItem), NEW preferred, NEW o, NoItem \notin AudioItem
    PROVE  BestOf(selectAudio(streams, preferred, o), DOMAIN streams, streams,
                  FittingAudio(o), HigherRank(preferred))
<1> DEFINE S == DOMAIN streams
           h == CHOOSE k : IsAudioPass(k, streams, preferred, o)
           c == [s \in SUBSET S |-> Max(s)]
<1>1. IsAudioPass(h, streams, preferred, o)
  BY AudioPassExists
<1>2. selectAudio(streams, preferred, o) = h[S]
  BY SelectAudioIs
<1> HIDE DEF h
<1>3. \A s \in SUBSET S : c[s] = Max(s) /\ (s # {} => c[s] \in s)
  BY Positions
<1> HIDE DEF c
<1>4. \A a \in AudioItem : <<a, a>> \notin HigherRank(preferred)
  <2> SUFFICES ASSUME NEW a \in AudioItem PROVE <<a, a>> \notin HigherRank(preferred)
    OBVIOUS
  <2>1. ~(audioRank(a, preferred) > audioRank(a, preferred))
    BY AudioRankNat
  <2> QED
    BY <2>1 DEF HigherRank
<1>5. ASSUME NEW a \in AudioItem, NEW b \in AudioItem, NEW d \in AudioItem,
             <<a, b>> \in HigherRank(preferred), <<d, b>> \notin HigherRank(preferred)
      PROVE  <<d, a>> \notin HigherRank(preferred)
  <2>1. /\ audioRank(a, preferred) > audioRank(b, preferred)
        /\ ~(audioRank(d, preferred) > audioRank(b, preferred))
    BY <1>5 DEF HigherRank
  <2>2. /\ audioRank(a, preferred) \in Nat /\ audioRank(b, preferred) \in Nat
        /\ audioRank(d, preferred) \in Nat
    BY AudioRankNat
  <2>3. ~(audioRank(d, preferred) > audioRank(a, preferred))
    BY <2>1, <2>2
  <2> QED
    BY <2>3 DEF HigherRank
<1>6. ASSUME NEW s \in SUBSET S, s # {}, h[s \ {c[s]}] \in AudioItem \cup {NoItem}
      PROVE  h[s] = IF /\ streams[c[s]] \in FittingAudio(o)
                       /\ \/ h[s \ {c[s]}] = NoItem
                          \/ <<streams[c[s]], h[s \ {c[s]}]>> \in HigherRank(preferred)
                    THEN streams[c[s]] ELSE h[s \ {c[s]}]
  <2>1. h[s] = AudioOp(preferred, o, h[s \ {c[s]}], streams[c[s]])
    BY <1>1, <1>3, <1>6 DEF IsAudioPass
  <2>2. streams[c[s]] \in AudioItem
    BY <1>3, <1>6, Positions
  <2>3. streams[c[s]] \in FittingAudio(o) <=> AudioFits(streams[c[s]], o)
    BY <2>2 DEF FittingAudio
  <2>4. h[s \ {c[s]}] # NoItem =>
          (<<streams[c[s]], h[s \ {c[s]}]>> \in HigherRank(preferred)
             <=> audioRank(streams[c[s]], preferred) > audioRank(h[s \ {c[s]}], preferred))
    BY <1>6, <2>2 DEF HigherRank
  <2> QED
    BY <2>1, <2>3, <2>4 DEF AudioOp
<1>7. h[{}] = NoItem
  BY <1>1 DEF IsAudioPass
<1>8. IsFiniteSet(S) /\ \A m \in S : streams[m] \in AudioItem
  BY Positions
<1>9. \A s \in SUBSET S : BestOf(h[s], s, streams, FittingAudio(o), HigherRank(preferred))
  <2>1. Ranks(HigherRank(preferred), AudioItem)
    BY <1>4, <1>5 DEF Ranks
  <2>2. Keeps(h, S, AudioItem, streams, FittingAudio(o), HigherRank(preferred), c)
    BY <1>3, <1>6, <1>7 DEF Keeps
  <2> HIDE DEF S
  <2> QED
    BY <1>8, <2>1, <2>2, PassBest
<1> QED
  BY <1>2, <1>9

-----------------------------------------------------------------------------
(* The inductive invariant about files.                                    *)

TaskStates == {"new", "open", "ok", "failed"}

\* Every variable that runs share out is a function of the jobs.
Shares ==
    /\ DOMAIN pc = Jobs /\ DOMAIN stream = Jobs /\ DOMAIN selection = Jobs
    /\ DOMAIN task = Jobs /\ DOMAIN tries = Jobs /\ DOMAIN disk = Jobs
    /\ DOMAIN unlinked = Jobs /\ DOMAIN reservations = Jobs
    /\ DOMAIN outcome = Jobs /\ DOMAIN object = Jobs /\ DOMAIN left = Jobs
    /\ backend \in {"local", "s3"}

JobTypes(j) ==
    /\ pc[j] \in Active \cup {"idle", "ended"}
    /\ DOMAIN task[j] = Tracks /\ \A t \in Tracks : task[j][t] \in TaskStates
    /\ outcome[j] \in {"none", "done", "failed"}
    /\ pc[j] \in (Active \cup {"idle"}) \ {"tidy"} => outcome[j] = "none"
    /\ pc[j] = "tidy" => outcome[j] \in {"none", "done"}
    /\ pc[j] = "ended" => outcome[j] \in {"done", "failed"}

\* Files of the present run.
Own(j) == DOMAIN disk[j] \ left[j]

\* Files that a route makes beside the temporary ones.
Products(j) == IF Remote(j) THEN {"output"} ELSE Downloads(j) \cup {"output"}

\* The files of its own that a run may have, by where it is.
May(j) ==
    IF pc[j] \in {"idle", "picked", "sabr"} THEN {}
    ELSE IF pc[j] = "tracks"
         THEN {t \in Downloads(j) : task[j][t] = "ok"}
              \cup {PartOf[t] : t \in {u \in Downloads(j) : task[j][u] = "open"}}
    ELSE IF pc[j] = "parts" THEN {"parts"}
    ELSE IF pc[j] = "join" THEN {"parts", "join"}
    ELSE IF pc[j] = "ended"
         THEN IF outcome[j] = "done" /\ backend = "local" THEN {"output"} ELSE {}
    ELSE Products(j)

\* A track is open or here only while the run downloads it.
TasksInTurn(j) ==
    /\ pc[j] \in {"idle", "picked", "ended"} => \A t \in Tracks : task[j][t] = "new"
    /\ \A t \in Tracks \ Downloads(j) : task[j][t] = "new"

\* What the run has open or made is not a left-over of an earlier life.
MadeHere(j) ==
    /\ Growing(j) \cup Reading(j) \subseteq Own(j)
    /\ pc[j] = "tracks" => \A t \in Downloads(j) : task[j][t] = "ok" => t \notin left[j]
    /\ pc[j] = "make" /\ ~Remote(j) => {"video", "audio"} \cap left[j] = {}
    /\ pc[j] \in {"save", "saving"} => "output" \notin left[j]

\* Each route has its own states, and only videos are muxed.
OnRoute(j) ==
    /\ pc[j] = "tracks" => Route(j) = "direct"
    /\ pc[j] \in {"sabr", "parts", "join"} => Route(j) = "sabr"
    /\ pc[j] \in {"make", "making"} /\ AudioOnly(j) => Remote(j)

\* Whatever has the name of the output is complete; a local store's is there.
OutputWhole(j) ==
    /\ "output" \in DOMAIN disk[j] => Complete(j, "output")
    /\ backend = "local" => Complete(j, "output")

WholeInv(j) ==
    /\ backend = "local" => "output" \notin unlinked[j]
    /\ pc[j] \in {"save", "saving"} => OutputWhole(j)
    /\ pc[j] = "tracks" /\ "output" \in Downloads(j) /\ task[j]["output"] = "ok" => OutputWhole(j)
    /\ pc[j] = "saved" \/ outcome[j] = "done" =>
         IF backend = "s3" THEN object[j] = Whole(j, "output") ELSE Complete(j, "output")

FilesInv(j) ==
    /\ JobTypes(j) /\ TasksInTurn(j) /\ OnRoute(j)
    /\ Own(j) \subseteq May(j) /\ MadeHere(j)
    /\ WholeInv(j)

RunInv == Shares /\ \A j \in Jobs : FilesInv(j)

-----------------------------------------------------------------------------
(* A step of one job leaves the other jobs alone.                          *)

SameJob(k) ==
    /\ pc'[k] = pc[k] /\ stream'[k] = stream[k] /\ selection'[k] = selection[k]
    /\ task'[k] = task[k] /\ disk'[k] = disk[k] /\ unlinked'[k] = unlinked[k]
    /\ reservations'[k] = reservations[k] /\ outcome'[k] = outcome[k]
    /\ object'[k] = object[k] /\ left'[k] = left[k] /\ tries'[k] = tries[k]

LEMMA SameKeeps ==
    ASSUME NEW k \in Jobs, SameJob(k), backend' = backend, FilesInv(k)
    PROVE  FilesInv(k)'
  BY DEF SameJob, FilesInv, JobTypes, Own, May, Products, Remote, Route, MainItem, Items,
         AudioOnly, Downloads, TasksInTurn, OnRoute, MadeHere, Growing, Reading, WholeInv, OutputWhole,
         Complete, Whole, MediaSize, Item

JobStep(j) ==
    \/ Select(j) \/ Advance(j) \/ Uploaded(j) \/ Breaks(j) \/ Cancel(j)
    \/ \E f \in Names : Write(j, f) \/ Clean(j, f)

LEMMA OnlyOne ==
    ASSUME Shares, NEW j \in Jobs, JobStep(j)
    PROVE  Shares' /\ backend' = backend /\ \A k \in Jobs \ {j} : SameJob(k)
<1> USE DEF Shares, SameJob, envVars, planVars, fileVars, RunGoes, Fails, RetryOrFail
<1>1. CASE Select(j)
  BY <1>1 DEF Select, Refused
<1>2. CASE Reserve(j)
  BY <1>2 DEF Reserve, Granted, Refused
<1>3. CASE JoinTracks(j)
  BY <1>3 DEF JoinTracks
<1>4. CASE OpenParts(j) \/ OpenJoin(j)
  BY <1>4 DEF OpenParts, OpenJoin, Open
<1>5. CASE CommitJoin(j)
  BY <1>5 DEF CommitJoin, Commit
<1>6. ASSUME NEW t \in Tracks, OpenPart(j, t) \/ CommitPart(j, t) \/ FailPart(j, t)
      PROVE  Shares' /\ backend' = backend /\ \A k \in Jobs \ {j} : SameJob(k)
  BY <1>6 DEF OpenPart, CommitPart, FailPart, TaskGoes, Open, Commit, Close
<1>7. CASE BeginMake(j) \/ Made(j) \/ FailMake(j)
  BY <1>7 DEF BeginMake, Made, FailMake, Open, Close
<1>8. CASE SaveLocal(j) \/ BeginUpload(j) \/ Uploaded(j) \/ FailSave(j)
  BY <1>8 DEF SaveLocal, BeginUpload, Uploaded, FailSave, Close
<1>9. CASE Publish(j) \/ Tidy(j)
  BY <1>9 DEF Publish, Tidy, RunEnds, CleanupWork, Close
<1>10. CASE FailSabr(j)
  BY <1>10 DEF FailSabr, Close
<1>11. CASE Cancel(j)
  BY <1>11 DEF Cancel
<1>12. ASSUME NEW f \in Names, Write(j, f) \/ Clean(j, f)
       PROVE  Shares' /\ backend' = backend /\ \A k \in Jobs \ {j} : SameJob(k)
  BY <1>12 DEF Write, Clean
<1> QED
  BY <1>1, <1>2, <1>3, <1>4, <1>5, <1>6, <1>7, <1>8, <1>9, <1>10, <1>11, <1>12 DEF JobStep, Advance, Breaks

\* A job's plan is a matter of its selection.
LEMMA PlanKept ==
    ASSUME NEW j \in Jobs, selection'[j] = selection[j]
    PROVE  /\ Route(j)' = Route(j) /\ Remote(j)' = Remote(j) /\ AudioOnly(j)' = AudioOnly(j)
           /\ Downloads(j)' = Downloads(j) /\ Products(j)' = Products(j)
           /\ \A f : Whole(j, f)' = Whole(j, f)
  BY DEF Route, Remote, AudioOnly, Downloads, Products, Whole, MediaSize, Item, MainItem, Items

-----------------------------------------------------------------------------
(* What opening, closing and committing do to a job's files.               *)

LEMMA OpenFacts ==
    ASSUME Shares, NEW j \in Jobs, NEW f, Open(j, f)
    PROVE  /\ DOMAIN disk'[j] = DOMAIN disk[j] \cup {f}
           /\ \A g \in DOMAIN disk'[j] : disk'[j][g] = IF g = f THEN 0 ELSE disk[j][g]
           /\ left'[j] = left[j] \ {f}
  BY DEF Shares, Open, Placed

LEMMA CloseFacts ==
    ASSUME Shares, NEW j \in Jobs, NEW d, NEW F, Close(j, d, F)
    PROVE  /\ DOMAIN disk'[j] = DOMAIN d \ (F \cap unlinked[j])
           /\ \A g \in DOMAIN disk'[j] : disk'[j][g] = d[g]
           /\ left'[j] = left[j] \cap DOMAIN disk'[j]
           /\ unlinked'[j] = unlinked[j] \ F
  BY DEF Shares, Close, Without, Restrict

LEMMA CommitFacts ==
    ASSUME Shares, NEW j \in Jobs, NEW F, NEW T, Commit(j, F, T)
    PROVE  /\ DOMAIN disk'[j] = (DOMAIN disk[j] \ T) \cup F
           /\ \A g \in DOMAIN disk'[j] : disk'[j][g] = IF g \in F THEN Whole(j, g) ELSE disk[j][g]
           /\ left'[j] = left[j] \ (F \cup T)
           /\ unlinked'[j] = unlinked[j] \ T
  BY DEF Shares, Commit, Placed, Without, Restrict

-----------------------------------------------------------------------------
(* Every action keeps the invariant of its job.                            *)

LEMMA SelectKeeps ==
    ASSUME RunInv, NEW j \in Jobs, Select(j)
    PROVE  FilesInv(j)'
<1> USE DEF RunInv, Shares, FilesInv, JobTypes, TasksInTurn, OnRoute, Own, May, MadeHere, WholeInv, Active,
    RunGoes, fileVars, envVars, AudioOnly, Downloads, Growing, Reading
<1> QED
  BY DEF Select, Refused

LEMMA ReserveKeeps ==
    ASSUME RunInv, NEW j \in Jobs, Reserve(j)
    PROVE  FilesInv(j)'
<1> USE DEF RunInv, Shares, FilesInv, JobTypes, TasksInTurn, Active, RunGoes, fileVars, envVars
<1>0. pc[j] = "picked" /\ Own(j)' = Own(j) /\ Own(j) = {}
  BY DEF Reserve, Own, May
<1>1. CASE Granted(j, ReservationBytes(j))
  <2>1. /\ selection'[j] = selection[j] /\ outcome'[j] = outcome[j]
        /\ \A t \in Tracks : task'[j][t] = "new" /\ DOMAIN task'[j] = Tracks
        /\ Downloads(j)' \subseteq Tracks /\ "output" \in Tracks
        /\ pc'[j] = IF Route(j) = "sabr" THEN "sabr" ELSE IF Remote(j) THEN "make" ELSE "tracks"
    BY <1>0, <1>1 DEF Granted, Reserve, Downloads, Tracks
  <2>2. Growing(j)' = {} /\ Reading(j)' = {}
    BY <2>1, <1>0 DEF Growing, Reading
  <2>3. Route(j) \in {"sabr", "remoteMux", "remote", "direct"}
    BY DEF Route
  <2>4. OnRoute(j)'
    BY <2>1, <2>3, PlanKept DEF OnRoute, Remote
  <2>5. MadeHere(j)'
    BY <1>0, <2>1, <2>2, <2>3, PlanKept DEF MadeHere, Remote
  <2>6. WholeInv(j)'
    BY <1>0, <2>1 DEF WholeInv, Reserve
  <2> QED
    BY <1>0, <2>1, <2>4, <2>5, <2>6, PlanKept
<1>2. CASE Refused(j)
  BY <1>0, <1>2 DEF Refused, Reserve, OnRoute, MadeHere, WholeInv, Growing, Reading, AudioOnly, Downloads
<1> QED
  BY <1>1, <1>2 DEF Reserve

\* A run that goes on in another state, with the same files.
LEMMA WriteKeeps ==
    ASSUME RunInv, NEW j \in Jobs, NEW f, Write(j, f)
    PROVE  FilesInv(j)'
<1> USE DEF RunInv, Shares, FilesInv
<1>1. /\ pc' = pc /\ task' = task /\ unlinked' = unlinked /\ left' = left /\ selection' = selection
      /\ outcome' = outcome /\ object' = object /\ backend' = backend
      /\ f \in Growing(j) /\ disk[j][f] < Whole(j, f)
      /\ DOMAIN disk'[j] = DOMAIN disk[j]
      /\ \A g \in DOMAIN disk[j] : g # f => disk'[j][g] = disk[j][g]
  BY DEF Write, planVars, envVars
<1>2. JobTypes(j)' /\ TasksInTurn(j)' /\ OnRoute(j)'
  BY <1>1, PlanKept DEF JobTypes, TasksInTurn, OnRoute
<1>3. Own(j)' = Own(j) /\ May(j)' = May(j)
  BY <1>1, PlanKept DEF Own, May
<1>4. Growing(j)' = Growing(j) /\ Reading(j)' = Reading(j)
  BY <1>1, PlanKept DEF Growing, Reading
<1>5. MadeHere(j)'
  BY <1>1, <1>3, <1>4, PlanKept DEF MadeHere
<1>6. ASSUME f = "output" PROVE pc[j] = "making"
  BY <1>1, <1>6 DEF Growing, Downloads, PartOf, Tracks
<1>7. WholeInv(j)'
  BY <1>1, <1>6, PlanKept DEF WholeInv, OutputWhole, Complete, JobTypes, Active
<1> QED
  BY <1>2, <1>3, <1>5, <1>7

\* The direct download of a track.
LEMMA OpenPartKeeps ==
    ASSUME RunInv, NEW j \in Jobs, NEW t \in Tracks, OpenPart(j, t)
    PROVE  FilesInv(j)'
<1> USE DEF RunInv, Shares, FilesInv
<1>1. /\ pc[j] = "tracks" /\ pc' = pc /\ unlinked' = unlinked /\ selection' = selection
      /\ outcome' = outcome /\ object' = object /\ backend' = backend
      /\ t \in Downloads(j) /\ task[j][t] = "new"
  BY DEF OpenPart, planVars, envVars
<1>2. CASE Item(j, t).url = ""
  <2>1. disk' = disk /\ left' = left /\ task' = [task EXCEPT ![j][t] = "failed"]
    BY <1>2 DEF OpenPart, TaskGoes
  <2>2. DOMAIN task'[j] = Tracks /\ \A u \in Tracks : task'[j][u] = IF u = t THEN "failed" ELSE task[j][u]
    BY <2>1 DEF JobTypes
  <2>3. JobTypes(j)' /\ TasksInTurn(j)' /\ OnRoute(j)'
    BY <1>1, <2>1, <2>2, PlanKept DEF JobTypes, TasksInTurn, OnRoute, TaskStates
  <2>4. Own(j)' = Own(j) /\ May(j)' = May(j)
    BY <1>1, <2>1, <2>2, PlanKept DEF Own, May, Downloads, Tracks
  <2>5. Growing(j)' = Growing(j) /\ Reading(j)' = Reading(j)
    BY <1>1, <2>2, PlanKept DEF Growing, Reading, Downloads, Tracks
  <2>6. MadeHere(j)'
    BY <1>1, <2>1, <2>2, <2>4, <2>5, PlanKept DEF MadeHere, Downloads, Tracks
  <2>7. WholeInv(j)'
    BY <1>1, <2>1, <2>2, PlanKept DEF WholeInv, OutputWhole, Complete, Tracks
  <2> QED
    BY <2>3, <2>4, <2>6, <2>7
<1>3. CASE Item(j, t).url # ""
  <2>1. Open(j, PartOf[t]) /\ task' = [task EXCEPT ![j][t] = "open"]
    BY <1>3 DEF OpenPart, TaskGoes
  <2>2. DOMAIN task'[j] = Tracks /\ \A u \in Tracks : task'[j][u] = IF u = t THEN "open" ELSE task[j][u]
    BY <2>1 DEF JobTypes
  <2>3. JobTypes(j)' /\ TasksInTurn(j)' /\ OnRoute(j)'
    BY <1>1, <2>1, <2>2, PlanKept DEF JobTypes, TasksInTurn, OnRoute, TaskStates
  <2>4. Own(j)' = Own(j) \cup {PartOf[t]} /\ May(j)' = May(j) \cup {PartOf[t]}
    BY <1>1, <2>1, <2>2, PlanKept, OpenFacts DEF Own, May, Downloads, Tracks
  <2>5. Growing(j)' = Growing(j) \cup {PartOf[t]} /\ Reading(j)' = Reading(j)
    BY <1>1, <2>2, PlanKept DEF Growing, Reading, Downloads, Tracks
  <2>6. MadeHere(j)'
    BY <1>1, <2>1, <2>2, <2>4, <2>5, PlanKept, OpenFacts DEF MadeHere, Downloads, Tracks
  <2>7. PartOf[t] # "output"
    BY DEF PartOf, Tracks
  <2>8. WholeInv(j)'
    BY <1>1, <2>1, <2>2, <2>7, PlanKept, OpenFacts DEF WholeInv, OutputWhole, Complete, Tracks, JobTypes, Active
  <2> QED
    BY <2>3, <2>4, <2>6, <2>8
<1> QED
  BY <1>2, <1>3

LEMMA CommitPartKeeps ==
    ASSUME RunInv, NEW j \in Jobs, NEW t \in Tracks, CommitPart(j, t)
    PROVE  FilesInv(j)'
<1> USE DEF RunInv, Shares, FilesInv
<1>1. /\ pc[j] = "tracks" /\ pc' = pc /\ selection' = selection
      /\ outcome' = outcome /\ object' = object /\ backend' = backend
      /\ task[j][t] = "open" /\ task' = [task EXCEPT ![j][t] = "ok"]
      /\ Commit(j, {t}, {PartOf[t]})
  BY DEF CommitPart, TaskGoes, planVars, envVars
<1>2. DOMAIN task'[j] = Tracks /\ \A u \in Tracks : task'[j][u] = IF u = t THEN "ok" ELSE task[j][u]
  BY <1>1 DEF JobTypes
<1>3. t \in Downloads(j) /\ Downloads(j) \subseteq Tracks
  BY <1>1 DEF TasksInTurn, Downloads, Tracks
<1>4. JobTypes(j)' /\ TasksInTurn(j)' /\ OnRoute(j)'
  BY <1>1, <1>2, <1>3, PlanKept DEF JobTypes, TasksInTurn, OnRoute, TaskStates
<1>5. Own(j)' = (Own(j) \ {PartOf[t]}) \cup {t}
  BY <1>1, CommitFacts DEF Own, PartOf, Tracks
<1>6. Growing(j)' = Growing(j) \ {PartOf[t]} /\ Reading(j)' = Reading(j)
  BY <1>1, <1>2, <1>3, PlanKept DEF Growing, Reading, Tracks, PartOf
<1>7. May(j)' = (May(j) \ {PartOf[t]}) \cup {t}
  BY <1>1, <1>2, <1>3, PlanKept DEF May, Tracks, PartOf
<1>8. MadeHere(j)'
  <2>1. left'[j] = left[j] \ ({t} \cup {PartOf[t]}) /\ Reading(j) = {}
    BY <1>1, CommitFacts DEF Reading
  <2>2. \A u \in Downloads(j) : task'[j][u] = "ok" => u \notin left'[j]
    BY <1>1, <1>2, <1>3, <2>1 DEF MadeHere
  <2> QED
    BY <1>1, <1>5, <1>6, <2>1, <2>2, PlanKept DEF MadeHere
<1>0. PartOf[t] # "output" /\ outcome[j] = "none"
  BY <1>1 DEF JobTypes, Active, PartOf, Tracks
<1>9. /\ unlinked'[j] = unlinked[j] \ {PartOf[t]}
      /\ DOMAIN disk'[j] = (DOMAIN disk[j] \ {PartOf[t]}) \cup {t}
      /\ "output" \in DOMAIN disk'[j] =>
           disk'[j]["output"] = IF t = "output" THEN Whole(j, "output") ELSE disk[j]["output"]
  <2>1. "output" \in DOMAIN disk'[j] =>
          disk'[j]["output"] = IF "output" \in {t} THEN Whole(j, "output") ELSE disk[j]["output"]
    BY <1>1, CommitFacts
  <2> QED
    BY <1>1, <2>1, CommitFacts
<1>10. OutputWhole(j)' \/ (t # "output" /\ (OutputWhole(j) => OutputWhole(j)'))
  BY <1>0, <1>1, <1>9, PlanKept DEF OutputWhole, Complete
<1>11. WholeInv(j)'
  BY <1>0, <1>1, <1>2, <1>3, <1>9, <1>10, PlanKept DEF WholeInv, Tracks
<1> QED
  BY <1>4, <1>5, <1>7, <1>8, <1>11

LEMMA FailPartKeeps ==
    ASSUME RunInv, NEW j \in Jobs, NEW t \in Tracks, FailPart(j, t)
    PROVE  FilesInv(j)'
<1> USE DEF RunInv, Shares, FilesInv
<1> DEFINE d == IF task[j][t] = "open" THEN Without(disk[j], {PartOf[t]}) ELSE disk[j]
<1>1. /\ pc[j] = "tracks" /\ pc' = pc /\ selection' = selection
      /\ outcome' = outcome /\ object' = object /\ backend' = backend
      /\ task[j][t] \in {"new", "open"} /\ task' = [task EXCEPT ![j][t] = "failed"]
      /\ t \in Downloads(j) /\ Close(j, d, {PartOf[t]})
  BY DEF FailPart, TaskGoes, planVars, envVars
<1>2. DOMAIN task'[j] = Tracks /\ \A u \in Tracks : task'[j][u] = IF u = t THEN "failed" ELSE task[j][u]
  BY <1>1 DEF JobTypes
<1>3. /\ DOMAIN d = IF task[j][t] = "open" THEN DOMAIN disk[j] \ {PartOf[t]} ELSE DOMAIN disk[j]
      /\ \A g \in DOMAIN d : d[g] = disk[j][g]
  BY DEF Without, Restrict
<1> HIDE DEF d
<1>4. /\ DOMAIN disk'[j] = DOMAIN d \ ({PartOf[t]} \cap unlinked[j])
      /\ \A g \in DOMAIN disk'[j] : disk'[j][g] = disk[j][g]
      /\ left'[j] = left[j] \cap DOMAIN disk'[j]
      /\ unlinked'[j] = unlinked[j] \ {PartOf[t]}
  <2>1. /\ DOMAIN disk'[j] = DOMAIN d \ ({PartOf[t]} \cap unlinked[j])
        /\ \A g \in DOMAIN disk'[j] : disk'[j][g] = d[g]
        /\ left'[j] = left[j] \cap DOMAIN disk'[j]
        /\ unlinked'[j] = unlinked[j] \ {PartOf[t]}
    BY <1>1, CloseFacts
  <2> QED
    BY <1>3, <2>1
<1>5. PartOf[t] # "output" /\ Downloads(j) \subseteq Tracks /\ \A u \in Tracks : PartOf[u] = PartOf[t] => u = t
  BY DEF PartOf, Tracks, Downloads
<1>6. JobTypes(j)' /\ TasksInTurn(j)' /\ OnRoute(j)'
  BY <1>1, <1>2, PlanKept DEF JobTypes, TasksInTurn, OnRoute, TaskStates
<1>7. Own(j)' \subseteq Own(j) /\ (task[j][t] = "open" => Own(j)' = Own(j) \ {PartOf[t]})
      /\ Own(j) \ {PartOf[t]} \subseteq Own(j)'
  <2>1. CASE task[j][t] = "open"
    BY <1>3, <1>4, <2>1 DEF Own
  <2>2. CASE task[j][t] # "open"
    BY <1>3, <1>4, <2>2 DEF Own
  <2> QED
    BY <2>1, <2>2
<1>8. Growing(j)' = Growing(j) \ {PartOf[t]} /\ Reading(j)' = {}
  BY <1>1, <1>2, <1>5, PlanKept DEF Growing, Reading
<1>9. IF task[j][t] = "open" THEN May(j)' = May(j) \ {PartOf[t]} ELSE May(j)' = May(j)
  BY <1>1, <1>2, <1>5, PlanKept DEF May, PartOf, Tracks
<1>10. MadeHere(j)'
  <2>1. \A u \in Downloads(j) : task'[j][u] = "ok" => u \notin left'[j]
    BY <1>1, <1>2, <1>4, <1>5 DEF MadeHere
  <2> QED
    BY <1>1, <1>7, <1>8, <2>1, PlanKept DEF MadeHere
<1>11. WholeInv(j)'
  <2>1. "output" \in DOMAIN disk'[j] <=> "output" \in DOMAIN disk[j]
    BY <1>3, <1>4, <1>5
  <2>2. OutputWhole(j) => OutputWhole(j)'
    BY <1>1, <1>4, <2>1, PlanKept DEF OutputWhole, Complete
  <2> QED
    BY <1>1, <1>2, <1>4, <2>1, <2>2, PlanKept DEF WholeInv, Tracks, JobTypes, Active
<1> QED
  BY <1>6, <1>7, <1>9, <1>10, <1>11

LEMMA JoinTracksKeeps ==
    ASSUME RunInv, NEW j \in Jobs, JoinTracks(j)
    PROVE  FilesInv(j)'
<1> USE DEF RunInv, Shares, FilesInv
<1>1. /\ pc[j] = "tracks" /\ disk' = disk /\ left' = left /\ unlinked' = unlinked /\ selection' = selection
      /\ outcome' = outcome /\ object' = object /\ backend' = backend /\ task' = task
      /\ \A t \in Downloads(j) : task[j][t] \in {"ok", "failed"}
      /\ pc'[j] = IF \E t \in Downloads(j) : task[j][t] = "failed" THEN "tidy"
                   ELSE IF AudioOnly(j) THEN "save" ELSE "make"
  BY DEF JoinTracks, RunGoes, Fails, planVars, envVars, fileVars
<1>2. ~Remote(j) /\ Products(j) = Downloads(j) \cup {"output"}
  BY <1>1 DEF OnRoute, Remote, Products
<1>3. JobTypes(j)' /\ TasksInTurn(j)' /\ OnRoute(j)'
  BY <1>1, PlanKept DEF JobTypes, TasksInTurn, OnRoute, Active
<1>4. Own(j)' = Own(j) /\ Own(j) \subseteq Downloads(j)
  BY <1>1 DEF Own, May
<1>5. May(j)' = Products(j)
  BY <1>1, PlanKept DEF May
<1>6. Growing(j)' = {} /\ Reading(j)' = {}
  BY <1>1 DEF Growing, Reading
<1>7. MadeHere(j)'
  BY <1>1, <1>6, PlanKept DEF MadeHere, Downloads
<1>8. WholeInv(j)'
  BY <1>1, PlanKept DEF WholeInv, OutputWhole, Complete, Downloads
<1> QED
  BY <1>2, <1>3, <1>4, <1>5, <1>7, <1>8

\* The SABR download.
LEMMA OpenSabrKeeps ==
    ASSUME RunInv, NEW j \in Jobs, OpenParts(j) \/ OpenJoin(j)
    PROVE  FilesInv(j)'
<1> USE DEF RunInv, Shares, FilesInv
<1> DEFINE f == IF pc[j] = "sabr" THEN "parts" ELSE "join"
<1>1. /\ pc[j] \in {"sabr", "parts"} /\ unlinked' = unlinked /\ selection' = selection
      /\ outcome' = outcome /\ object' = object /\ backend' = backend /\ task' = task
      /\ pc'[j] = IF pc[j] = "sabr" THEN "parts" ELSE "join"
      /\ pc[j] = "parts" => "parts" \in DOMAIN disk[j]
      /\ Open(j, f)
  BY DEF OpenParts, OpenJoin, planVars, envVars, Complete
<1> HIDE DEF f
<1>2. JobTypes(j)' /\ TasksInTurn(j)' /\ OnRoute(j)'
  BY <1>1, PlanKept DEF JobTypes, TasksInTurn, OnRoute, Active
<1>3. Own(j)' = Own(j) \cup {f}
  BY <1>1, OpenFacts DEF Own
<1>4. Growing(j)' = {f} /\ Reading(j)' = IF f = "join" THEN {"parts"} ELSE {}
  BY <1>1 DEF Growing, Reading, f
<1>5. Own(j)' \subseteq May(j)'
  BY <1>1, <1>3 DEF May, f
<1>6. MadeHere(j)'
  BY <1>1, <1>3, <1>4 DEF MadeHere, Growing, f
<1>7. WholeInv(j)'
  BY <1>1 DEF WholeInv, JobTypes, Active
<1> QED
  BY <1>2, <1>5, <1>6, <1>7

LEMMA CommitJoinKeeps ==
    ASSUME RunInv, NEW j \in Jobs, CommitJoin(j)
    PROVE  FilesInv(j)'
<1> USE DEF RunInv, Shares, FilesInv
<1>1. /\ pc[j] = "join" /\ selection' = selection
      /\ outcome' = outcome /\ object' = object /\ backend' = backend /\ task' = task
      /\ pc'[j] = IF AudioOnly(j) THEN "save" ELSE "make"
      /\ Commit(j, Downloads(j), {"parts", "join"})
  BY DEF CommitJoin, RunGoes, planVars, envVars
<1>2. ~Remote(j) /\ Products(j) = Downloads(j) \cup {"output"}
  BY <1>1 DEF OnRoute, Remote, Products
<1>3. JobTypes(j)' /\ TasksInTurn(j)' /\ OnRoute(j)'
  BY <1>1, <1>2, PlanKept DEF JobTypes, TasksInTurn, OnRoute, Active
<1>4. Own(j)' \subseteq Downloads(j)
  BY <1>1, CommitFacts DEF Own, May
<1>5. May(j)' = Products(j)
  BY <1>1, PlanKept DEF May
<1>6. Growing(j)' = {} /\ Reading(j)' = {}
  BY <1>1 DEF Growing, Reading
<1>7. MadeHere(j)'
  BY <1>1, <1>6, PlanKept, CommitFacts DEF MadeHere, Downloads
<1>8. AudioOnly(j) => OutputWhole(j)'
  <2>1. ASSUME AudioOnly(j) PROVE "output" \in DOMAIN disk'[j] /\ disk'[j]["output"] = Whole(j, "output")
    BY <1>1, <2>1, CommitFacts DEF Downloads
  <2> QED
    BY <1>1, <2>1, PlanKept DEF OutputWhole, Complete
<1>9. WholeInv(j)'
  BY <1>1, <1>8, CommitFacts DEF WholeInv, JobTypes, Active
<1> QED
  BY <1>2, <1>3, <1>4, <1>5, <1>7, <1>9

LEMMA FailSabrKeeps ==
    ASSUME RunInv, NEW j \in Jobs, FailSabr(j)
    PROVE  FilesInv(j)'
<1> USE DEF RunInv, Shares, FilesInv
<1> DEFINE d == Without(disk[j], {"parts", "join"})
<1>1. /\ pc[j] \in {"sabr", "parts", "join"} /\ selection' = selection
      /\ outcome' = outcome /\ object' = object /\ backend' = backend /\ task' = task
      /\ pc'[j] \in {"sabr", "tidy"}
      /\ Close(j, d, {"parts", "join"})
  BY DEF FailSabr, RetryOrFail, Fails, RunGoes, planVars, envVars
<1>2. DOMAIN d = DOMAIN disk[j] \ {"parts", "join"} /\ \A g \in DOMAIN d : d[g] = disk[j][g]
  BY DEF Without, Restrict
<1> HIDE DEF d
<1>3. JobTypes(j)' /\ TasksInTurn(j)' /\ OnRoute(j)'
  BY <1>1, PlanKept DEF JobTypes, TasksInTurn, OnRoute, Active
<1>4. Own(j)' = {}
  BY <1>1, <1>2, CloseFacts DEF Own, May
<1>5. Growing(j)' = {} /\ Reading(j)' = {}
  BY <1>1 DEF Growing, Reading
<1>6. MadeHere(j)'
  BY <1>1, <1>5 DEF MadeHere
<1>7. WholeInv(j)'
  BY <1>1, CloseFacts DEF WholeInv, JobTypes, Active
<1> QED
  BY <1>3, <1>4, <1>6, <1>7

\* The output.
LEMMA BeginMakeKeeps ==
    ASSUME RunInv, NEW j \in Jobs, BeginMake(j)
    PROVE  FilesInv(j)'
<1> USE DEF RunInv, Shares, FilesInv
<1>1. /\ pc[j] = "make" /\ unlinked' = unlinked /\ selection' = selection
      /\ outcome' = outcome /\ object' = object /\ backend' = backend /\ task' = task
      /\ pc'[j] = "making" /\ Open(j, "output")
      /\ ~Remote(j) => {"video", "audio"} \subseteq DOMAIN disk[j]
  BY DEF BeginMake, planVars, envVars
<1>2. JobTypes(j)' /\ TasksInTurn(j)' /\ OnRoute(j)'
  BY <1>1, PlanKept DEF JobTypes, TasksInTurn, OnRoute, Active
<1>3. Own(j)' = Own(j) \cup {"output"}
  BY <1>1, OpenFacts DEF Own
<1>4. Growing(j)' = {"output"} /\ Reading(j)' = IF Remote(j) THEN {} ELSE {"video", "audio"}
  BY <1>1, PlanKept DEF Growing, Reading
<1>5. May(j)' = Products(j) /\ May(j) = Products(j) /\ "output" \in Products(j)
  BY <1>1, PlanKept DEF May, Products
<1>6. MadeHere(j)'
  <2>1. ~Remote(j) => {"video", "audio"} \subseteq Own(j)
    BY <1>1 DEF MadeHere, Own
  <2> QED
    BY <1>1, <1>3, <1>4, <2>1 DEF MadeHere
<1>7. WholeInv(j)'
  BY <1>1 DEF WholeInv, JobTypes, Active
<1> QED
  BY <1>2, <1>3, <1>5, <1>6, <1>7

\* Files that are closed: what was unlinked goes, and nothing else changes.
LEMMA CloseAllFacts ==
    ASSUME RunInv, NEW j \in Jobs, Close(j, disk[j], Names)
    PROVE  /\ Own(j)' \subseteq Own(j)
           /\ left'[j] \subseteq left[j] /\ unlinked'[j] \subseteq unlinked[j]
           /\ (backend' = backend /\ selection'[j] = selection[j] /\ OutputWhole(j))
                => OutputWhole(j)'
<1>1. /\ DOMAIN disk'[j] = DOMAIN disk[j] \ (Names \cap unlinked[j])
      /\ \A g \in DOMAIN disk'[j] : disk'[j][g] = disk[j][g]
      /\ left'[j] = left[j] \cap DOMAIN disk'[j]
      /\ unlinked'[j] = unlinked[j] \ Names
  BY CloseFacts DEF RunInv
<1>2. Own(j)' \subseteq Own(j)
  BY <1>1 DEF Own
<1>3. ASSUME backend' = backend, selection'[j] = selection[j], OutputWhole(j) PROVE OutputWhole(j)'
  <2>1. backend = "local" => "output" \notin unlinked[j]
    BY DEF RunInv, FilesInv, WholeInv
  <2> QED
    BY <1>1, <1>3, <2>1, PlanKept DEF OutputWhole, Complete
<1> QED
  BY <1>1, <1>2, <1>3

LEMMA MadeKeeps ==
    ASSUME RunInv, NEW j \in Jobs, Made(j)
    PROVE  FilesInv(j)'
<1> USE DEF RunInv, Shares, FilesInv
<1>1. /\ pc[j] = "making" /\ selection' = selection
      /\ outcome' = outcome /\ object' = object /\ backend' = backend /\ task' = task
      /\ pc'[j] = "save" /\ Close(j, disk[j], Names) /\ Complete(j, "output")
  BY DEF Made, RunGoes, planVars, envVars
<1>2. JobTypes(j)' /\ TasksInTurn(j)' /\ OnRoute(j)'
  BY <1>1, PlanKept DEF JobTypes, TasksInTurn, OnRoute, Active
<1>3. Growing(j)' = {} /\ Reading(j)' = {} /\ "output" \in Growing(j)
  BY <1>1, PlanKept DEF Growing, Reading
<1>4. May(j)' = May(j)
  BY <1>1, PlanKept DEF May
<1>5. MadeHere(j)'
  BY <1>1, <1>3, CloseAllFacts DEF MadeHere, Own
<1>6. OutputWhole(j)'
  BY <1>1, CloseAllFacts DEF OutputWhole
<1>7. WholeInv(j)'
  BY <1>1, <1>6, CloseAllFacts DEF WholeInv, JobTypes, Active
<1> QED
  BY <1>1, <1>2, <1>4, <1>5, <1>7, CloseAllFacts

LEMMA FailMakeKeeps ==
    ASSUME RunInv, NEW j \in Jobs, FailMake(j)
    PROVE  FilesInv(j)'
<1> USE DEF RunInv, Shares, FilesInv
<1> DEFINE d == IF pc[j] = "make" THEN Without(disk[j], {"output"}) ELSE disk[j]
<1>1. /\ pc[j] \in {"make", "making"} /\ selection' = selection
      /\ outcome' = outcome /\ object' = object /\ backend' = backend /\ task' = task
      /\ pc'[j] \in {"make", "tidy"} /\ Close(j, d, Names)
  BY DEF FailMake, RetryOrFail, Fails, RunGoes, planVars, envVars
<1>2. DOMAIN d \subseteq DOMAIN disk[j]
  BY DEF Without, Restrict
<1> HIDE DEF d
<1>3. JobTypes(j)' /\ TasksInTurn(j)' /\ OnRoute(j)'
  BY <1>1, PlanKept DEF JobTypes, TasksInTurn, OnRoute, Active
<1>4. /\ DOMAIN disk'[j] \subseteq DOMAIN disk[j] /\ unlinked'[j] \subseteq unlinked[j]
      /\ left'[j] = left[j] \cap DOMAIN disk'[j]
  BY <1>1, <1>2, CloseFacts
<1>5. Own(j)' \subseteq Own(j)
  BY <1>4 DEF Own
<1>6. Growing(j)' = {} /\ Reading(j)' = {}
  BY <1>1, PlanKept DEF Growing, Reading
<1>7. May(j)' = May(j)
  BY <1>1, PlanKept DEF May
<1>8. ~Remote(j) => {"video", "audio"} \cap left[j] = {}
  BY <1>1 DEF MadeHere, Own, Reading
<1>9. MadeHere(j)'
  BY <1>1, <1>4, <1>6, <1>8, PlanKept DEF MadeHere
<1>10. WholeInv(j)'
  BY <1>1, <1>4 DEF WholeInv, JobTypes, Active
<1> QED
  BY <1>3, <1>5, <1>7, <1>9, <1>10

\* Saving.
LEMMA SaveLocalKeeps ==
    ASSUME RunInv, NEW j \in Jobs, SaveLocal(j) \/ BeginUpload(j)
    PROVE  FilesInv(j)'
<1> USE DEF RunInv, Shares, FilesInv
<1>1. /\ pc[j] = "save" /\ disk' = disk /\ left' = left /\ unlinked' = unlinked /\ selection' = selection
      /\ outcome' = outcome /\ object' = object /\ backend' = backend /\ task' = task
      /\ \/ pc'[j] = "saved" /\ backend = "local"
         \/ pc'[j] = "saving" /\ "output" \in DOMAIN disk[j]
  BY DEF SaveLocal, BeginUpload, RunGoes, planVars, fileVars, envVars
<1>2. JobTypes(j)' /\ TasksInTurn(j)' /\ OnRoute(j)'
  BY <1>1, PlanKept DEF JobTypes, TasksInTurn, OnRoute, Active
<1>3. Growing(j)' = {} /\ Reading(j)' = IF pc'[j] = "saving" THEN {"output"} ELSE {}
  BY <1>1 DEF Growing, Reading
<1>4. Own(j)' = Own(j) /\ May(j)' = May(j)
  BY <1>1, PlanKept DEF Own, May
<1>5. MadeHere(j)'
  BY <1>1, <1>3, <1>4 DEF MadeHere, Own
<1>6. OutputWhole(j) /\ OutputWhole(j)'
  BY <1>1, PlanKept DEF WholeInv, OutputWhole, Complete
<1>7. WholeInv(j)'
  BY <1>1, <1>6, PlanKept DEF WholeInv, OutputWhole, JobTypes, Active
<1> QED
  BY <1>2, <1>4, <1>5, <1>7

LEMMA UploadKeeps ==
    ASSUME RunInv, NEW j \in Jobs, Uploaded(j) \/ FailSave(j)
    PROVE  FilesInv(j)'
<1> USE DEF RunInv, Shares, FilesInv
<1>1. /\ pc[j] \in {"save", "saving"} /\ selection' = selection
      /\ outcome' = outcome /\ backend' = backend /\ task' = task
      /\ \/ pc'[j] \in {"save", "tidy"}
         \/ pc[j] = "saving" /\ pc'[j] = "saved" /\ object'[j] = disk[j]["output"]
      /\ Close(j, disk[j], Names)
  BY DEF Uploaded, FailSave, RetryOrFail, Fails, RunGoes, planVars, envVars
<1>2. JobTypes(j)' /\ TasksInTurn(j)' /\ OnRoute(j)'
  BY <1>1, PlanKept DEF JobTypes, TasksInTurn, OnRoute, Active
<1>3. Growing(j)' = {} /\ Reading(j)' = {}
  BY <1>1 DEF Growing, Reading
<1>4. May(j)' = May(j)
  BY <1>1, PlanKept DEF May
<1>5. MadeHere(j)'
  BY <1>1, <1>3, CloseAllFacts DEF MadeHere
<1>6. OutputWhole(j) /\ OutputWhole(j)'
  BY <1>1, CloseAllFacts DEF WholeInv
<1>7. pc[j] = "saving" => disk[j]["output"] = Whole(j, "output")
  BY <1>6 DEF OutputWhole, Complete, MadeHere, Reading, Own
<1>8. WholeInv(j)'
  BY <1>1, <1>6, <1>7, CloseAllFacts, PlanKept DEF WholeInv, OutputWhole, JobTypes, Active
<1> QED
  BY <1>1, <1>2, <1>4, <1>5, <1>8, CloseAllFacts

LEMMA PublishKeeps ==
    ASSUME RunInv, NEW j \in Jobs, Publish(j)
    PROVE  FilesInv(j)'
<1> USE DEF RunInv, Shares, FilesInv
<1>1. /\ pc[j] = "saved" /\ disk' = disk /\ left' = left /\ unlinked' = unlinked /\ selection' = selection
      /\ outcome'[j] = "done" /\ object' = object /\ backend' = backend /\ task' = task
      /\ pc'[j] = "tidy"
  BY DEF Publish, RunGoes, fileVars, envVars
<1>2. JobTypes(j)' /\ TasksInTurn(j)' /\ OnRoute(j)'
  BY <1>1, PlanKept DEF JobTypes, TasksInTurn, OnRoute, Active
<1>3. Growing(j)' = {} /\ Reading(j)' = {}
  BY <1>1 DEF Growing, Reading
<1>4. Own(j)' = Own(j) /\ May(j)' = May(j)
  BY <1>1, PlanKept DEF Own, May
<1>5. MadeHere(j)'
  BY <1>1, <1>3 DEF MadeHere
<1>6. WholeInv(j)'
  BY <1>1, PlanKept DEF WholeInv, Complete
<1> QED
  BY <1>2, <1>4, <1>5, <1>6

LEMMA TidyKeeps ==
    ASSUME RunInv, NEW j \in Jobs, Tidy(j)
    PROVE  FilesInv(j)'
<1> USE DEF RunInv, Shares, FilesInv
<1> DEFINE kept == outcome[j] = "done" /\ backend = "local"
           F == {"video", "audio"} \cup (IF kept THEN {} ELSE {"output"})
           d == Without(disk[j], F)
<1>1. /\ pc[j] = "tidy" /\ object' = object /\ backend' = backend /\ pc'[j] = "ended"
      /\ task'[j] = [t \in Tracks |-> "new"]
      /\ outcome'[j] = IF outcome[j] = "done" THEN "done" ELSE "failed"
      /\ outcome[j] = "done" => selection'[j] = selection[j]
      /\ Close(j, d, {})
  BY DEF Tidy, RunEnds, CleanupWork, RunGoes
<1>2. DOMAIN d = DOMAIN disk[j] \ F /\ \A g \in DOMAIN d : d[g] = disk[j][g]
  BY DEF Without, Restrict
<1> HIDE DEF d
<1>3. /\ DOMAIN disk'[j] = DOMAIN disk[j] \ F /\ unlinked'[j] = unlinked[j]
      /\ \A g \in DOMAIN disk'[j] : disk'[j][g] = d[g]
      /\ left'[j] = left[j] \cap DOMAIN disk'[j]
  <2>1. /\ DOMAIN disk'[j] = DOMAIN d \ ({} \cap unlinked[j])
        /\ \A g \in DOMAIN disk'[j] : disk'[j][g] = d[g]
        /\ left'[j] = left[j] \cap DOMAIN disk'[j] /\ unlinked'[j] = unlinked[j] \ {}
    BY <1>1 DEF Close, Without, Restrict
  <2> QED
    BY <1>2, <2>1
<1>4. JobTypes(j)' /\ TasksInTurn(j)' /\ OnRoute(j)'
  BY <1>1 DEF JobTypes, TasksInTurn, OnRoute, Active, TaskStates
<1>5. Own(j)' \subseteq May(j)'
  <2>1. Own(j) \subseteq {"video", "audio", "output"}
    BY <1>1 DEF May, Products, Downloads
  <2>2. Own(j)' = Own(j) \ F
    BY <1>3 DEF Own
  <2>3. May(j)' = IF kept THEN {"output"} ELSE {}
    BY <1>1 DEF May, JobTypes
  <2> QED
    BY <2>1, <2>2, <2>3
<1>6. Growing(j)' = {} /\ Reading(j)' = {}
  BY <1>1 DEF Growing, Reading
<1>7. MadeHere(j)'
  BY <1>1, <1>6 DEF MadeHere
<1>8. WholeInv(j)'
  BY <1>1, <1>2, <1>3, PlanKept DEF WholeInv, Complete
<1> QED
  BY <1>4, <1>5, <1>7, <1>8

\* Cancels, the cleaner and kills.
LEMMA CancelKeeps ==
    ASSUME RunInv, NEW j \in Jobs, Cancel(j)
    PROVE  FilesInv(j)'
<1>1. SameJob(j) /\ backend' = backend
  BY DEF Cancel, SameJob, planVars, fileVars
<1> QED
  BY <1>1, SameKeeps DEF RunInv

LEMMA CleanKeeps ==
    ASSUME RunInv, NEW j \in Jobs, NEW f, Clean(j, f)
    PROVE  FilesInv(j)'
<1> USE DEF RunInv, Shares, FilesInv
<1>1. /\ pc' = pc /\ task' = task /\ selection' = selection /\ outcome' = outcome
      /\ object' = object /\ backend' = backend /\ left'[j] = left[j] \ {f}
      /\ f \in Swept(j)
  BY DEF Clean, planVars, envVars
<1>2. Growing(j)' = Growing(j) /\ Reading(j)' = Reading(j) /\ May(j)' = May(j)
  BY <1>1, PlanKept DEF Growing, Reading, May
<1>3. JobTypes(j)' /\ TasksInTurn(j)' /\ OnRoute(j)'
  BY <1>1, PlanKept DEF JobTypes, TasksInTurn, OnRoute
<1>4. backend = "local" => f # "output"
  BY <1>1 DEF Swept, AudioOnly
<1>5. CASE f \in Growing(j) \cup Reading(j)
  <2>1. unlinked'[j] = unlinked[j] \cup {f} /\ disk' = disk
    BY <1>5 DEF Clean
  <2>2. f \notin left[j]
    BY <1>5 DEF MadeHere, Own
  <2>3. Own(j)' = Own(j) /\ left'[j] = left[j]
    BY <1>1, <2>1, <2>2 DEF Own
  <2>4. MadeHere(j)'
    BY <1>1, <1>2, <2>3, PlanKept DEF MadeHere
  <2>5. WholeInv(j)'
    BY <1>1, <1>4, <2>1, PlanKept DEF WholeInv, OutputWhole, Complete
  <2> QED
    BY <1>2, <1>3, <2>3, <2>4, <2>5
<1>6. CASE f \notin Growing(j) \cup Reading(j)
  <2>1. /\ unlinked' = unlinked /\ DOMAIN disk'[j] = DOMAIN disk[j] \ {f}
        /\ \A g \in DOMAIN disk'[j] : disk'[j][g] = disk[j][g]
    BY <1>6 DEF Clean, Without, Restrict
  <2>2. Own(j)' = Own(j) \ {f}
    BY <1>1, <2>1 DEF Own
  <2>3. MadeHere(j)'
    BY <1>1, <1>2, <1>6, <2>2, PlanKept DEF MadeHere
  <2>4. OutputWhole(j) => OutputWhole(j)'
    BY <1>1, <1>4, <2>1, PlanKept DEF OutputWhole, Complete
  <2>5. WholeInv(j)'
    BY <1>1, <1>4, <2>1, <2>4, PlanKept DEF WholeInv, Complete
  <2> QED
    BY <1>2, <1>3, <2>2, <2>3, <2>5
<1> QED
  BY <1>5, <1>6

LEMMA KillKeeps ==
    ASSUME RunInv, Kill
    PROVE  RunInv'
<1> USE DEF RunInv, Shares
<1>1. Shares' /\ backend' = backend
  BY DEF Kill
<1>2. ASSUME NEW j \in Jobs PROVE FilesInv(j)'
  <2> USE DEF FilesInv
  <2>1. /\ pc'[j] = IF outcome[j] = "none" THEN "idle" ELSE "ended"
        /\ outcome' = outcome
        /\ task'[j] = [t \in Tracks |-> "new"] /\ unlinked'[j] = {}
        /\ outcome[j] = "done" => selection'[j] = selection[j] /\ object'[j] = object[j]
        /\ disk'[j] = Without(disk[j], unlinked[j])
        /\ left'[j] = DOMAIN disk'[j] \
              (IF outcome[j] = "done" /\ backend = "local" THEN {"output"} ELSE {})
    BY DEF Kill
  <2>2. DOMAIN disk'[j] = DOMAIN disk[j] \ unlinked[j] /\ \A g \in DOMAIN disk'[j] : disk'[j][g] = disk[j][g]
    BY <2>1 DEF Without, Restrict
  <2>3. JobTypes(j)' /\ TasksInTurn(j)' /\ OnRoute(j)'
    BY <2>1 DEF JobTypes, TasksInTurn, OnRoute, Active, TaskStates
  <2>4. Own(j)' \subseteq May(j)'
    BY <1>1, <2>1 DEF Own, May, JobTypes
  <2>5. Growing(j)' = {} /\ Reading(j)' = {}
    BY <2>1 DEF Growing, Reading
  <2>6. MadeHere(j)'
    BY <2>1, <2>5 DEF MadeHere
  <2>7. WholeInv(j)'
    BY <1>1, <2>1, <2>2, PlanKept DEF WholeInv, Complete
  <2> QED
    BY <2>3, <2>4, <2>6, <2>7
<1> QED
  BY <1>1, <1>2

-----------------------------------------------------------------------------
LEMMA RunInvInit == Init => RunInv
<1> SUFFICES ASSUME Init PROVE RunInv
  OBVIOUS
<1>1. Shares
  BY RunAssumption DEF Init, Shares
<1>2. ASSUME NEW j \in Jobs PROVE FilesInv(j)
  <2>1. /\ pc[j] = "idle" /\ task[j] = [t \in Tracks |-> "new"] /\ DOMAIN disk[j] = {}
        /\ unlinked[j] = {} /\ outcome[j] = "none" /\ left[j] = {}
    BY DEF Init, NoFiles
  <2> QED
    BY <1>1, <2>1 DEF FilesInv, JobTypes, TasksInTurn, OnRoute, Own, May, MadeHere, WholeInv, Growing,
       Reading, Active, TaskStates, Shares
<1> QED
  BY <1>1, <1>2 DEF RunInv

LEMMA RunInvStep == RunInv /\ [Next]_runVars => RunInv'
<1> SUFFICES ASSUME RunInv, [Next]_runVars PROVE RunInv'
  OBVIOUS
<1>1. ASSUME NEW j \in Jobs, JobStep(j) PROVE RunInv'
  <2>1. FilesInv(j)'
    BY <1>1, SelectKeeps, ReserveKeeps, OpenPartKeeps, CommitPartKeeps, FailPartKeeps, JoinTracksKeeps,
       OpenSabrKeeps, CommitJoinKeeps, FailSabrKeeps, BeginMakeKeeps, MadeKeeps, FailMakeKeeps,
       SaveLocalKeeps, UploadKeeps, PublishKeeps, TidyKeeps, CancelKeeps, CleanKeeps, WriteKeeps
       DEF JobStep, Advance, Breaks
  <2>2. Shares' /\ \A k \in Jobs \ {j} : FilesInv(k)'
    BY <1>1, OnlyOne, SameKeeps DEF RunInv
  <2> QED
    BY <2>1, <2>2 DEF RunInv
<1>2. CASE Kill
  BY <1>2, KillKeeps
<1>3. CASE UNCHANGED runVars
  <2>1. Shares' /\ backend' = backend
    BY <1>3 DEF runVars, RunInv, Shares
  <2>2. \A j \in Jobs : SameJob(j)
    BY <1>3 DEF runVars, SameJob
  <2> QED
    BY <2>1, <2>2, SameKeeps DEF RunInv
<1> QED
  BY <1>1, <1>2, <1>3 DEF Next, JobStep

\* The inductive invariant about files.
THEOREM RunInvariant == Spec => []RunInv
  BY RunInvInit, RunInvStep, PTL DEF Spec

\* A run that is over leaves nothing on disk but the artifact of a local store
\* and what a kill left (work_cleanup.go:10-22, range_downloader.go:65-71).
THEOREM NothingLeftBehindAlways == Spec => []NothingLeftBehind
<1>1. RunInv => NothingLeftBehind
  BY DEF RunInv, FilesInv, Own, May, NothingLeftBehind
<1> QED
  BY <1>1, RunInvariant, PTL

\* What a done job serves is whole and stays so (runner.go:105-117,
\* local.go:17-19).
THEOREM DoneIsWholeAlways == Spec => []DoneIsWhole
<1>1. RunInv => DoneIsWhole
  BY DEF RunInv, FilesInv, WholeInv, DoneIsWhole
<1> QED
  BY <1>1, RunInvariant, PTL

-----------------------------------------------------------------------------
(* The plan of a job.                                                      *)

\* The tracks of a job are the ones the selector picks from its response.
PlanInv(j) ==
    /\ stream[j] \in Responses[j] \cup {NoStream}
    /\ Planned(j) => /\ selection[j] = Pick(stream[j], Options[j])
                     /\ Found(selection[j])
    /\ pc[j] \in Active \/ outcome[j] = "done" => Planned(j)

PlansInv == \A j \in Jobs : PlanInv(j)

LEMMA PlanStep == RunInv /\ PlansInv /\ [Next]_runVars => PlansInv'
<1> SUFFICES ASSUME RunInv, PlansInv, [Next]_runVars, NEW j \in Jobs PROVE PlanInv(j)'
  BY DEF PlansInv
<1> USE DEF RunInv, Shares, FilesInv, JobTypes, PlansInv, PlanInv, Planned
<1>0. NoStream \notin Responses[j]
  BY RunAssumption
<1>1. ASSUME stream'[j] = stream[j], selection'[j] = selection[j],
             pc'[j] \in Active => pc[j] \in Active,
             outcome'[j] = "done" => outcome[j] = "done" \/ pc[j] \in Active
      PROVE  PlanInv(j)'
  BY <1>1
<1>2. ASSUME NEW k \in Jobs, JobStep(k) PROVE PlanInv(j)'
  <2>1. CASE j # k
    <3>1. SameJob(j)
      BY <1>2, <2>1, OnlyOne
    <3> QED
      BY <1>1, <3>1 DEF SameJob
  <2>2. CASE j = k
    <3> USE DEF RunGoes, fileVars, envVars, planVars
    <3>1. CASE Select(j)
      BY <1>0, <3>1 DEF Select, Refused, Active
    <3>2. CASE Reserve(j)
      <4>1. CASE Granted(j, ReservationBytes(j))
        BY <1>1, <3>2, <4>1 DEF Reserve, Granted, Active
      <4>2. CASE Refused(j)
        BY <4>2 DEF Refused, Active
      <4> QED
        BY <3>2, <4>1, <4>2 DEF Reserve
    <3>3. CASE Tidy(j)
      BY <3>3 DEF Tidy, RunEnds, Active
    <3>4. CASE Publish(j)
      BY <1>1, <3>4 DEF Publish, Active
    <3>5. ASSUME NEW f \in Names, Write(j, f) \/ Clean(j, f) PROVE PlanInv(j)'
      BY <1>1, <3>5 DEF Write, Clean
    <3>6. CASE Cancel(j)
      BY <1>1, <3>6 DEF Cancel
    <3>7. CASE JoinTracks(j) \/ OpenParts(j) \/ OpenJoin(j) \/ CommitJoin(j) \/ FailSabr(j)
      BY <1>1, <3>7 DEF JoinTracks, OpenParts, OpenJoin, CommitJoin, FailSabr, RetryOrFail, Fails, Active
    <3>8. ASSUME NEW t \in Tracks, OpenPart(j, t) \/ CommitPart(j, t) \/ FailPart(j, t)
          PROVE  PlanInv(j)'
      BY <1>1, <3>8 DEF OpenPart, CommitPart, FailPart
    <3>9. CASE BeginMake(j) \/ Made(j) \/ FailMake(j)
      BY <1>1, <3>9 DEF BeginMake, Made, FailMake, RetryOrFail, Fails, Active
    <3>10. CASE SaveLocal(j) \/ BeginUpload(j) \/ Uploaded(j) \/ FailSave(j)
      BY <1>1, <3>10 DEF SaveLocal, BeginUpload, Uploaded, FailSave, RetryOrFail, Fails, Active
    <3> QED
      BY <1>2, <2>2, <3>1, <3>2, <3>3, <3>4, <3>5, <3>6, <3>7, <3>8, <3>9, <3>10
         DEF JobStep, Advance, Breaks
  <2> QED
    BY <2>1, <2>2
<1>3. CASE Kill
  BY <1>3 DEF Kill, Active
<1>4. CASE UNCHANGED runVars
  BY <1>1, <1>4 DEF runVars
<1> QED
  BY <1>2, <1>3, <1>4 DEF Next, JobStep

LEMMA PlanInit == Init => PlansInv
  BY DEF Init, PlansInv, PlanInv, Planned, Active

THEOREM PlansInvariant == Spec => []PlansInv
<1>1. Init => PlansInv
  BY PlanInit
<1>2. RunInv /\ PlansInv /\ [Next]_runVars => PlansInv'
  BY PlanStep
<1> QED
  BY <1>1, <1>2, RunInvariant, PTL DEF Spec

\* What is picked comes from the response.
LEMMA PickFacts ==
    ASSUME NEW j \in Jobs, PlanInv(j), Planned(j)
    PROVE  LET r == stream[j]
               s == selection[j]
               request == AudioRequest(j)
           IN  /\ r \in Responses[j] /\ r.audios \in Seq(AudioItem) /\ r.videos \in Seq(VideoItem)
               /\ s.audio \in AudioItem /\ s.audio \in Range(r.audios)
               /\ BestOf(s.audio, DOMAIN r.audios, r.audios, FittingAudio(request),
                         HigherRank(r.preferred))
               /\ ~AudioOnly(j) =>
                    /\ s.video \in VideoItem /\ s.video \in Range(r.videos)
                    /\ BestOf(s.video, DOMAIN r.videos, r.videos,
                              Fitting(VideoRequest(Options[j])), Higher)
<1> DEFINE r == stream[j]
           s == selection[j]
           request == AudioRequest(j)
<1>1. r \in Responses[j] /\ r.audios \in Seq(AudioItem) /\ r.videos \in Seq(VideoItem)
  BY RunAssumption DEF PlanInv, Planned
<1>2. s = Pick(r, Options[j]) /\ s.audio # NoItem
  BY DEF PlanInv, Found
<1>3. NoItem \notin VideoItem /\ NoItem \notin AudioItem
  BY RunAssumption
<1>4. s.audio = selectAudio(r.audios, r.preferred, request)
  BY <1>2 DEF Pick, AudioOnly, AudioRequest
<1>5. ~AudioOnly(j) => s.video = selectVideo(r.videos, VideoRequest(Options[j])) /\ s.video # NoItem
  BY <1>2 DEF Pick, AudioOnly
<1> HIDE DEF r, s, request
<1>6. BestOf(s.audio, DOMAIN r.audios, r.audios, FittingAudio(request), HigherRank(r.preferred))
  BY <1>1, <1>3, <1>4, SelectAudioBest
<1>7. s.audio \in Range(r.audios) /\ s.audio \in AudioItem
  BY <1>2, <1>6 DEF BestOf, FittingAudio, Range
<1>8. ASSUME ~AudioOnly(j)
      PROVE  BestOf(s.video, DOMAIN r.videos, r.videos, Fitting(VideoRequest(Options[j])), Higher)
  BY <1>1, <1>3, <1>5, <1>8, SelectVideoBest
<1>9. ~AudioOnly(j) => s.video \in Range(r.videos) /\ s.video \in VideoItem
  BY <1>5, <1>8 DEF BestOf, Fitting, Range
<1> QED
  BY <1>1, <1>6, <1>7, <1>8, <1>9 DEF r, s, request

LEMMA AudioFields ==
    ASSUME NEW s \in AudioItem
    PROVE  /\ s.bitrate \in Nat /\ s.length \in Nat /\ s.size \in Nat \ {0}
           /\ s.original \in BOOLEAN
<1>1. s.bitrate \in Nat
  BY Zenon DEF AudioItem
<1>2. s.length \in Nat
  BY Zenon DEF AudioItem
<1>3. s.size \in Nat \ {0}
  BY Zenon DEF AudioItem
<1>4. s.original \in BOOLEAN
  BY Zenon DEF AudioItem
<1> QED
  BY <1>1, <1>2, <1>3, <1>4

LEMMA VideoFields ==
    ASSUME NEW s \in VideoItem
    PROVE  s.bitrate \in Nat /\ s.length \in Nat /\ s.size \in Nat \ {0}
<1>1. s.bitrate \in Nat
  BY Zenon DEF VideoItem
<1>2. s.length \in Nat
  BY Zenon DEF VideoItem
<1>3. s.size \in Nat \ {0}
  BY Zenon DEF VideoItem
<1> QED
  BY <1>1, <1>2, <1>3

LEMMA RankTells ==
    ASSUME NEW r, NEW a \in AudioItem, NEW b \in AudioItem, a.bitrate < 500000, b.bitrate < 500000,
           BetterAudio(a, b, r)
    PROVE  audioRank(a, r.preferred) > audioRank(b, r.preferred)
<1> DEFINE p(x) == IF Preferred(x, r) THEN 1000000 ELSE 0
           q(x) == IF x.original THEN 500000 ELSE 0
<1>1. /\ audioRank(a, r.preferred) = a.bitrate + p(a) + q(a)
      /\ audioRank(b, r.preferred) = b.bitrate + p(b) + q(b)
  BY DEF audioRank, Preferred
<1>2. a.bitrate \in Nat /\ b.bitrate \in Nat /\ a.original \in BOOLEAN /\ b.original \in BOOLEAN
  BY AudioFields
<1>3. /\ p(a) \in {0, 1000000} /\ p(b) \in {0, 1000000}
      /\ q(a) \in {0, 500000} /\ q(b) \in {0, 500000}
  OBVIOUS
<1>4. \/ p(a) = 1000000 /\ p(b) = 0
      \/ p(a) = p(b) /\ q(a) = 500000 /\ q(b) = 0
      \/ p(a) = p(b) /\ q(a) = q(b) /\ a.bitrate > b.bitrate
  <2>1. CASE Preferred(a, r) /\ ~Preferred(b, r)
    BY <2>1
  <2>2. CASE Preferred(a, r) = Preferred(b, r) /\ a.original /\ ~b.original
    BY <2>2
  <2>3. CASE Preferred(a, r) = Preferred(b, r) /\ a.original = b.original /\ a.bitrate > b.bitrate
    BY <2>3
  <2> QED
    BY <2>1, <2>2, <2>3 DEF BetterAudio
<1> HIDE DEF p, q
<1> QED
  BY <1>1, <1>2, <1>3, <1>4

\* The selector picks the best tracks (ranking.go:17-26, selector.go).
THEOREM SelectionIsBestAlways == BitratesBelowWeights => (Spec => []SelectionIsBest)
<1> SUFFICES ASSUME BitratesBelowWeights PROVE Spec => []SelectionIsBest
  OBVIOUS
<1>1. PlansInv => SelectionIsBest
  <2> SUFFICES ASSUME PlansInv, NEW j \in Jobs, pc[j] = "picked"
               PROVE  BestAudio(j) /\ (~AudioOnly(j) => BestVideo(j))
    BY DEF SelectionIsBest
  <2>1. PlanInv(j) /\ Planned(j)
    BY DEF PlansInv, PlanInv, Active
  <2> DEFINE r == stream[j]
             a == selection[j].audio
             v == selection[j].video
             request == AudioRequest(j)
             wanted == VideoRequest(Options[j])
  <2>2. /\ r \in Responses[j] /\ r.audios \in Seq(AudioItem) /\ r.videos \in Seq(VideoItem)
        /\ a \in AudioItem /\ a \in Range(r.audios)
        /\ BestOf(a, DOMAIN r.audios, r.audios, FittingAudio(request), HigherRank(r.preferred))
        /\ ~AudioOnly(j) =>
             v \in VideoItem /\ BestOf(v, DOMAIN r.videos, r.videos, Fitting(wanted), Higher)
    BY <2>1, PickFacts
  <2>3. BestAudio(j)
    <3> HIDE DEF r, a, request
    <3>1. /\ a \in FittingAudio(request)
          /\ \A n \in DOMAIN r.audios :
               r.audios[n] \in FittingAudio(request) => <<r.audios[n], a>> \notin HigherRank(r.preferred)
      BY <2>2, RunAssumption DEF BestOf
    <3>2. ASSUME NEW n \in DOMAIN r.audios, AudioFits(r.audios[n], request)
          PROVE  ~BetterAudio(r.audios[n], a, r)
      <4>1. r.audios[n] \in AudioItem /\ r.audios[n] \in Range(r.audios)
        BY <2>2 DEF Range
      <4>2. r.audios[n].bitrate < 500000 /\ a.bitrate < 500000
        BY <2>2, <4>1 DEF BitratesBelowWeights
      <4>3. ~(audioRank(r.audios[n], r.preferred) > audioRank(a, r.preferred))
        BY <2>2, <3>1, <3>2, <4>1 DEF FittingAudio, HigherRank
      <4> QED
        BY <2>2, <4>1, <4>2, <4>3, RankTells
    <3>3. AudioFits(a, request)
      BY <3>1 DEF FittingAudio
    <3> QED
      BY <3>2, <3>3 DEF BestAudio, r, a, request
  <2>4. ASSUME ~AudioOnly(j) PROVE BestVideo(j)
    <3> HIDE DEF r, v, wanted
    <3>1. /\ v \in Fitting(wanted)
          /\ \A n \in DOMAIN r.videos : r.videos[n] \in Fitting(wanted) => <<r.videos[n], v>> \notin Higher
      BY <2>2, <2>4, RunAssumption DEF BestOf
    <3>2. ASSUME NEW n \in DOMAIN r.videos, VideoFits(r.videos[n], wanted)
          PROVE  ~HigherVideo(r.videos[n], v)
      <4>1. r.videos[n] \in VideoItem
        BY <2>2
      <4> QED
        BY <2>2, <2>4, <3>1, <3>2, <4>1 DEF Fitting, Higher
    <3>3. VideoFits(v, wanted)
      BY <3>1 DEF Fitting
    <3> QED
      BY <3>2, <3>3 DEF BestVideo, r, v, wanted
  <2> QED
    BY <2>3, <2>4
<1> QED
  BY <1>1, PlansInvariant, PTL

-----------------------------------------------------------------------------
(* The space that is promised.                                             *)

\* The sum of a function of the jobs.
LEMMA SumStep ==
    ASSUME NEW f, DOMAIN f = Jobs, \A j \in Jobs : f[j] \in Nat
    PROVE  Sum(f) = Total(f, Jobs) /\ Sum(f) \in Nat
  BY RunAssumption, SumIs, TotalStep

IsCapped(h, f, S) ==
    h = [s \in SUBSET S |-> IF s = {} THEN 0 ELSE saturatedAdd(f[AnyOf(s)], h[s \ {AnyOf(s)}])]

LEMMA CappedIs ==
    ASSUME NEW f
    PROVE  FoldFunction(saturatedAdd, 0, f) = (CHOOSE h : IsCapped(h, f, DOMAIN f))[DOMAIN f]
  BY Zenon DEF FoldFunction, FoldFunctionOnSet, MapThenFoldSet, IsCapped, AnyOf

CappedAt(n) == IF n < MaxBytes THEN n ELSE MaxBytes

\* Sums that saturate are sums that are cut off (monitor.go:99-104).
LEMMA CappedStep ==
    ASSUME NEW f, IsFiniteSet(DOMAIN f), \A x \in DOMAIN f : f[x] \in 0..MaxBytes
    PROVE  FoldFunction(saturatedAdd, 0, f) = CappedAt(Total(f, DOMAIN f))
<1> DEFINE S == DOMAIN f
           k == [s \in SUBSET S |-> CappedAt(Total(f, s))]
           h == CHOOSE a : IsCapped(a, f, S)
<1>0. MaxBytes \in Nat
  BY RunAssumption
<1>1. ASSUME NEW s \in SUBSET S
      PROVE  /\ Total(f, s) \in Nat
             /\ s = {} => Total(f, s) = 0
             /\ s # {} => /\ AnyOf(s) \in s
                          /\ Total(f, s) = f[AnyOf(s)] + Total(f, s \ {AnyOf(s)})
                          /\ Total(f, s \ {AnyOf(s)}) \in Nat
                          /\ f[AnyOf(s)] \in 0..MaxBytes
  <2> DEFINE w == s \ {AnyOf(s)}
  <2>1. IsFiniteSet(s) /\ IsFiniteSet(w) /\ (\A x \in s : f[x] \in Nat) /\ \A x \in w : f[x] \in Nat
    BY <1>0, FS_Subset
  <2> HIDE DEF w
  <2>2. Total(f, s) \in Nat /\ Total(f, w) \in Nat
    BY <2>1, TotalStep
  <2>3. s = {} => Total(f, s) = 0
    BY <2>1, TotalStep
  <2>4. s # {} => AnyOf(s) \in s /\ Total(f, s) = f[AnyOf(s)] + Total(f, s \ {AnyOf(s)})
    BY <2>1, TotalStep, AnyOfIn
  <2> QED
    BY <2>2, <2>3, <2>4 DEF w
<1>2. ASSUME NEW s \in SUBSET S, s # {}, NEW v, v = CappedAt(Total(f, s \ {AnyOf(s)}))
      PROVE  saturatedAdd(f[AnyOf(s)], v) = CappedAt(Total(f, s))
  <2> DEFINE t == Total(f, s \ {AnyOf(s)})
             x == f[AnyOf(s)]
  <2>1. t \in Nat /\ x \in 0..MaxBytes /\ Total(f, s) = x + t
    BY <1>1, <1>2
  <2> HIDE DEF t, x
  <2>2. saturatedAdd(x, v) = CappedAt(x + t)
    BY <1>0, <1>2, <2>1 DEF saturatedAdd, CappedAt, t
  <2> QED
    BY <2>1, <2>2 DEF x
<1>3. IsCapped(k, f, S)
  <2>1. ASSUME NEW s \in SUBSET S
        PROVE  k[s] = IF s = {} THEN 0 ELSE saturatedAdd(f[AnyOf(s)], k[s \ {AnyOf(s)}])
    <3>1. CASE s = {}
      <4>1. Total(f, s) = 0 /\ CappedAt(0) = 0
        BY <1>0, <1>1, <3>1 DEF CappedAt
      <4> QED
        BY <3>1, <4>1
    <3>2. CASE s # {}
      BY <1>2, <3>2
    <3> QED
      BY <3>1, <3>2
  <2> QED
    BY <2>1 DEF IsCapped
<1>4. IsCapped(h, f, S)
  BY <1>3
<1> HIDE DEF h
<1> DEFINE G == {s \in SUBSET S : h[s] = CappedAt(Total(f, s))}
<1>5. ASSUME NEW s \in SUBSET S, \A w \in (SUBSET s) \ {s} : w \in G
      PROVE  h[s] = CappedAt(Total(f, s))
  <2>1. CASE s = {}
    BY <1>0, <1>1, <1>4, <2>1 DEF IsCapped, CappedAt
  <2>2. CASE s # {}
    <3>1. h[s \ {AnyOf(s)}] = CappedAt(Total(f, s \ {AnyOf(s)}))
      BY <1>1, <1>5, <2>2
    <3>2. h[s] = saturatedAdd(f[AnyOf(s)], h[s \ {AnyOf(s)}])
      BY <1>4, <2>2 DEF IsCapped
    <3> QED
      BY <1>2, <2>2, <3>1, <3>2
  <2> QED
    BY <2>1, <2>2
<1>6. \A s \in SUBSET S : (\A w \in (SUBSET s) \ {s} : w \in G) => s \in G
  BY <1>5
<1> HIDE DEF G
<1>7. S \in G
  BY <1>6, SetInduction
<1>8. FoldFunction(saturatedAdd, 0, f) = h[S]
  BY CappedIs DEF h
<1> QED
  BY <1>7, <1>8 DEF G

LEMMA NamesFinite == IsFiniteSet(Names) /\ IsFiniteSet(Jobs)
<1>1. Names = Tracks \cup ({PartOf[t] : t \in Tracks} \cup {"parts", "join"})
  BY DEF Names
<1>2. /\ Tracks = {"video"} \cup ({"audio"} \cup {"output"})
      /\ {PartOf[t] : t \in Tracks} = {PartOf["video"]} \cup ({PartOf["audio"]} \cup {PartOf["output"]})
      /\ {"parts", "join"} = {"parts"} \cup {"join"}
  BY DEF Tracks
<1>3. \A x : IsFiniteSet({x})
  BY FS_Singleton
<1>4. \A S, T : IsFiniteSet(S) /\ IsFiniteSet(T) => IsFiniteSet(S \cup T)
  BY FS_Union
<1>5. IsFiniteSet(Tracks)
  BY <1>2, <1>3, <1>4
<1>6. IsFiniteSet({PartOf[t] : t \in Tracks}) /\ IsFiniteSet({"parts", "join"})
  <2>1. IsFiniteSet({PartOf["audio"]} \cup {PartOf["output"]})
    BY <1>3, <1>4
  <2>2. IsFiniteSet({PartOf["video"]} \cup ({PartOf["audio"]} \cup {PartOf["output"]}))
    BY <1>3, <1>4, <2>1
  <2>3. IsFiniteSet({"parts"} \cup {"join"})
    BY <1>3, <1>4
  <2> QED
    BY <1>2, <2>2, <2>3
<1>7. IsFiniteSet({PartOf[t] : t \in Tracks} \cup {"parts", "join"})
  BY <1>4, <1>6
<1>8. IsFiniteSet(Names)
  BY <1>1, <1>4, <1>5, <1>7
<1> QED
  BY <1>8, RunAssumption

\* A file of at most n bytes more.
LEMMA TotalDrop ==
    ASSUME NEW S, IsFiniteSet(S), NEW d, \A x \in S : d[x] \in Nat, NEW a, NEW n \in Nat,
           a \in S => d[a] <= n
    PROVE  /\ Total(d, S) <= n + Total(d, S \ {a})
           /\ Total(d, S \ {a}) \in Nat
<1> DEFINE R == S \ {a}
<1>1. IsFiniteSet(R) /\ \A x \in R : d[x] \in Nat
  BY FS_Subset
<1> HIDE DEF R
<1>2. Total(d, R) \in Nat /\ Total(d, S) \in Nat
  BY <1>1, TotalStep
<1>3. CASE a \in S
  <2>1. Total(d, S) = d[a] + Total(d, R) /\ d[a] \in Nat
    BY <1>3, TotalRemove DEF R
  <2> QED
    BY <1>2, <1>3, <2>1 DEF R
<1>4. CASE a \notin S
  <2>1. R = S
    BY <1>4 DEF R
  <2> QED
    BY <1>2, <2>1 DEF R
<1> QED
  BY <1>3, <1>4

\* At most three files, and what they can hold.
LEMMA TotalThree ==
    ASSUME NEW a, NEW b, NEW c, NEW S, IsFiniteSet(S), S \subseteq {a, b, c},
           NEW d, \A x \in S : d[x] \in Nat,
           NEW l \in Nat, NEW m \in Nat, NEW n \in Nat,
           a \in S => d[a] <= l, b \in S => d[b] <= m, c \in S => d[c] <= n
    PROVE  Total(d, S) <= l + m + n
<1> DEFINE T == S \ {a}
           U == T \ {b}
           W == U \ {c}
<1>1. IsFiniteSet(T) /\ IsFiniteSet(U) /\ IsFiniteSet(W) /\ W = {}
  BY FS_Subset
<1>2. /\ \A x \in T : d[x] \in Nat
      /\ \A x \in U : d[x] \in Nat
      /\ b \in T => d[b] <= m
      /\ c \in U => d[c] <= n
  OBVIOUS
<1>3. Total(d, S) <= l + Total(d, T) /\ Total(d, T) \in Nat
  BY TotalDrop
<1> HIDE DEF T
<1>4. Total(d, T) <= m + Total(d, U) /\ Total(d, U) \in Nat
  BY <1>1, <1>2, TotalDrop
<1> HIDE DEF U
<1>5. Total(d, U) <= n + Total(d, W)
  BY <1>1, <1>2, TotalDrop
<1> HIDE DEF W
<1>6. Total(d, W) = 0
  BY <1>1, TotalStep
<1>7. Total(d, S) \in Nat
  BY TotalStep
<1> QED
  BY <1>3, <1>4, <1>5, <1>6, <1>7

LEMMA TotalTwo ==
    ASSUME NEW a, NEW b, NEW S, IsFiniteSet(S), S \subseteq {a, b},
           NEW d, \A x \in S : d[x] \in Nat, NEW l \in Nat, NEW m \in Nat,
           a \in S => d[a] <= l, b \in S => d[b] <= m
    PROVE  Total(d, S) <= l + m
<1> DEFINE T == S \ {a}
           U == T \ {b}
<1>1. IsFiniteSet(T) /\ IsFiniteSet(U) /\ U = {}
  BY FS_Subset
<1>2. (\A x \in T : d[x] \in Nat) /\ (b \in T => d[b] <= m)
  OBVIOUS
<1>3. Total(d, S) <= l + Total(d, T) /\ Total(d, T) \in Nat
  BY TotalDrop
<1> HIDE DEF T
<1>4. Total(d, T) <= m + Total(d, U)
  BY <1>1, <1>2, TotalDrop
<1> HIDE DEF U
<1>5. Total(d, U) = 0
  BY <1>1, TotalStep
<1>6. Total(d, S) \in Nat
  BY TotalStep
<1> QED
  BY <1>3, <1>4, <1>5, <1>6

LEMMA TotalOne ==
    ASSUME NEW a, NEW S, IsFiniteSet(S), S \subseteq {a},
           NEW d, \A x \in S : d[x] \in Nat, NEW l \in Nat, a \in S => d[a] <= l
    PROVE  Total(d, S) <= l
<1> DEFINE T == S \ {a}
<1>1. IsFiniteSet(T) /\ T = {}
  BY FS_Subset
<1>2. Total(d, S) <= l + Total(d, T)
  BY TotalDrop
<1> HIDE DEF T
<1>3. Total(d, T) = 0
  BY <1>1, TotalStep
<1>4. Total(d, S) \in Nat
  BY TotalStep
<1> QED
  BY <1>2, <1>3, <1>4

-----------------------------------------------------------------------------
(* The inductive invariant about space.                                    *)

\* From the reservation on, up to the deferred calls.
Working == Active \ {"picked"}

\* The most a run that knows its sizes ever has on disk.
Peak(j) == IF peakTenths(j) = 21 THEN 2 * MediaSize(j) ELSE MediaSize(j)

\* Files are as long as they can be, and a run with estimates has reserved
\* what it will need.
SizesInv(j) ==
    /\ DOMAIN disk[j] \subseteq Names /\ left[j] \subseteq DOMAIN disk[j]
    /\ \A f \in DOMAIN disk[j] : disk[j][f] \in Nat
    /\ \A f \in Own(j) : disk[j][f] <= Whole(j, f)
    /\ reservations[j] \in 0..MaxBytes
    /\ reservations[j] # 0 => pc[j] \in Working
    /\ pc[j] \in Working /\ Sized(j) => reservations[j] >= Peak(j)

LeftBytes(j) == Total(disk[j], left[j])

\* What a job has claim to: its left-overs, and its reservation or what it
\* has written, whichever is more; or only the reservation if what it writes
\* is not known beforehand.
Held(j) ==
    LeftBytes(j) + (IF Planned(j) /\ ~Sized(j) THEN reservations[j]
                    ELSE IF Written(j) > reservations[j] THEN Written(j) ELSE reservations[j])

SpaceInv ==
    /\ \A j \in Jobs : SizesInv(j)
    /\ (\E j \in Jobs : reservations[j] > 0) =>
         MinFree + Sum([j \in Jobs |-> Held(j)]) <= DiskBytes

LEMMA WrittenIs == \A j \in Jobs : Written(j) = Total(disk[j], Own(j))
  BY DEF Written, Total, Own

\* Sizes of the tracks of a plan.
LEMMA PlanSizes ==
    ASSUME NEW j \in Jobs, PlanInv(j), Planned(j)
    PROVE  /\ selection[j].audio.size \in Nat \ {0}
           /\ ~AudioOnly(j) => selection[j].video.size \in Nat \ {0}
           /\ MediaSize(j) \in Nat \ {0}
           /\ Peak(j) \in Nat /\ MediaSize(j) <= Peak(j)
           /\ \A f : (AudioOnly(j) => f \notin {"video", "video.part"}) => Whole(j, f) \in Nat
<1>1. selection[j].audio \in AudioItem /\ (~AudioOnly(j) => selection[j].video \in VideoItem)
  BY PickFacts
<1>2. selection[j].audio.size \in Nat \ {0} /\ (~AudioOnly(j) => selection[j].video.size \in Nat \ {0})
  BY <1>1, AudioFields, VideoFields
<1>3. MediaSize(j) \in Nat \ {0}
  BY <1>2 DEF MediaSize
<1>4. Peak(j) \in Nat /\ MediaSize(j) <= Peak(j)
  BY <1>3 DEF Peak
<1>5. \A f : (AudioOnly(j) => f \notin {"video", "video.part"}) => Whole(j, f) \in Nat
  BY <1>2, <1>3 DEF Whole, Item
<1> QED
  BY <1>2, <1>3, <1>4, <1>5

\* What a run has on disk stays within its peak.
LEMMA WithinPeak ==
    ASSUME RunInv, NEW j \in Jobs, PlanInv(j), SizesInv(j), pc[j] \in Working
    PROVE  Written(j) \in Nat /\ Written(j) <= Peak(j)
<1> DEFINE d == disk[j]
           S == Own(j)
           M == MediaSize(j)
           a == selection[j].audio.size
           v == selection[j].video.size
<1>1. Planned(j)
  BY DEF PlanInv, Working
<1>2. M \in Nat /\ Peak(j) \in Nat /\ M <= Peak(j) /\ a \in Nat /\ (~AudioOnly(j) => v \in Nat /\ M = v + a)
  BY <1>1, PlanSizes DEF MediaSize
<1>3. IsFiniteSet(S) /\ \A x \in S : d[x] \in Nat /\ d[x] <= Whole(j, x)
  BY NamesFinite, FS_Subset DEF SizesInv, Own
<1>4. Written(j) = Total(d, S) /\ Total(d, S) \in Nat
  BY <1>3, WrittenIs, TotalStep
<1>5. S \subseteq May(j) /\ OnRoute(j) /\ JobTypes(j) /\ TasksInTurn(j)
  BY DEF RunInv, FilesInv
<1>6. \A f \in {"output", "parts", "join"} : Whole(j, f) = M
  BY DEF Whole
<1>7. /\ Whole(j, "audio") = a /\ Whole(j, "audio.part") = a
      /\ Whole(j, "video") = v /\ Whole(j, "video.part") = v
      /\ AudioOnly(j) => Whole(j, "output.part") = M
  BY DEF Whole, Item, MediaSize
<1>8. MainItem(j).delivery = "sabr" \/ (~AudioOnly(j) /\ Route(j) = "direct") => Peak(j) = M + M
  BY <1>2 DEF Peak, peakTenths
<1>9. Route(j) = "sabr" => MainItem(j).delivery = "sabr"
  BY DEF Route
<1> HIDE DEF M, a, v, d, S
<1>10. CASE pc[j] = "tracks" /\ AudioOnly(j)
  <2> DEFINE x == IF task[j]["output"] = "ok" THEN "output" ELSE "output.part"
  <2>1. S \subseteq {x}
    BY <1>5, <1>10 DEF May, Downloads, PartOf, Tracks
  <2>2. x \in S => d[x] <= M
    BY <1>3, <1>6, <1>7, <1>10
  <2> HIDE DEF x
  <2>3. Total(d, S) <= M
    BY <1>2, <1>3, <2>1, <2>2, TotalOne
  <2> QED
    BY <1>2, <1>4, <2>3
<1>11. CASE pc[j] = "tracks" /\ ~AudioOnly(j)
  <2> DEFINE x == IF task[j]["video"] = "ok" THEN "video" ELSE "video.part"
             y == IF task[j]["audio"] = "ok" THEN "audio" ELSE "audio.part"
  <2>1. S \subseteq {x, y}
    BY <1>5, <1>11 DEF May, Downloads, PartOf, Tracks
  <2>2. (x \in S => d[x] <= v) /\ (y \in S => d[y] <= a)
    BY <1>3, <1>7, <1>11
  <2> HIDE DEF x, y
  <2>3. Total(d, S) <= v + a
    BY <1>2, <1>3, <1>11, <2>1, <2>2, TotalTwo
  <2> QED
    BY <1>2, <1>4, <1>11, <2>3
<1>12. CASE pc[j] \in {"sabr", "parts"}
  <2>1. S \subseteq {"parts"}
    BY <1>5, <1>12 DEF May
  <2>2. "parts" \in S => d["parts"] <= M
    BY <1>3, <1>6
  <2>3. Total(d, S) <= M
    BY <1>2, <1>3, <2>1, <2>2, TotalOne
  <2> QED
    BY <1>2, <1>4, <2>3
<1>13. CASE pc[j] = "join"
  <2>1. S \subseteq {"parts", "join"}
    BY <1>5, <1>13 DEF May
  <2>2. ("parts" \in S => d["parts"] <= M) /\ ("join" \in S => d["join"] <= M)
    BY <1>3, <1>6
  <2>3. Total(d, S) <= M + M
    BY <1>2, <1>3, <2>1, <2>2, TotalTwo
  <2> QED
    BY <1>2, <1>4, <1>5, <1>8, <1>9, <1>13, <2>3 DEF OnRoute
<1>14. CASE pc[j] \in Working \ {"tracks", "sabr", "parts", "join"}
  <2>0. S \subseteq Products(j)
    BY <1>5, <1>14 DEF May, Working, Active
  <2>1. CASE Remote(j) \/ AudioOnly(j)
    <3>1. S \subseteq {"output"}
      BY <2>0, <2>1 DEF Products, Downloads
    <3>2. "output" \in S => d["output"] <= M
      BY <1>3, <1>6
    <3>3. Total(d, S) <= M
      BY <1>2, <1>3, <3>1, <3>2, TotalOne
    <3> QED
      BY <1>2, <1>4, <3>3
  <2>2. CASE ~Remote(j) /\ ~AudioOnly(j)
    <3>1. S \subseteq {"video", "audio", "output"}
      BY <2>0, <2>2 DEF Products, Downloads
    <3>2. /\ "output" \in S => d["output"] <= M
          /\ "video" \in S => d["video"] <= v
          /\ "audio" \in S => d["audio"] <= a
      BY <1>3, <1>6, <1>7
    <3>3. Total(d, S) <= v + a + M
      BY <1>2, <1>3, <2>2, <3>1, <3>2, TotalThree
    <3>4. Route(j) \in {"sabr", "direct"}
      BY <2>2 DEF Remote, Route
    <3> QED
      BY <1>2, <1>4, <1>8, <1>9, <2>2, <3>3, <3>4
  <2> QED
    BY <2>1, <2>2
<1> QED
  BY <1>10, <1>11, <1>12, <1>13, <1>14

LEMMA MediaBytesNat ==
    ASSUME NEW s, s.length \in Nat, s.bitrate \in Nat, NEW n \in Nat
    PROVE  mediaBytes(s, n) \in Nat
<1>0. MaxBytes \in Nat
  BY RunAssumption
<1>1. s.bitrate * n \in Nat
  OBVIOUS
<1>2. (s.bitrate * n) \div 8 \in Nat
  <2> DEFINE p == s.bitrate * n
  <2>1. p \in Nat
    BY <1>1
  <2> HIDE DEF p
  <2>2. p \div 8 \in Nat
    BY <2>1
  <2> QED
    BY <2>2 DEF p
<1> QED
  BY <1>0, <1>2 DEF mediaBytes

LEMMA ScaledCovers ==
    ASSUME NEW m \in Nat, NEW M \in Nat \ {0}, M <= m, NEW t \in {11, 21}
    PROVE  /\ scaledBytes(m, t) \in Nat \ {0} \/ MaxBytes = 0
           /\ scaledBytes(m, t) < MaxBytes => scaledBytes(m, t) >= IF t = 21 THEN 2 * M ELSE M
<1>0. MaxBytes \in Nat
  BY RunAssumption
<1>1. CASE m > MaxBytes \div t
  BY <1>0, <1>1 DEF scaledBytes
<1>2. CASE ~(m > MaxBytes \div t)
  <2>1. scaledBytes(m, t) = (m * t) \div 10
    BY <1>2 DEF scaledBytes
  <2>2. CASE t = 11
    <3>1. (m * 11) \div 10 >= M /\ (m * 11) \div 10 \in Nat
      OBVIOUS
    <3> QED
      BY <2>1, <2>2, <3>1
  <2>3. CASE t = 21
    <3>1. (m * 21) \div 10 >= 2 * M /\ (m * 21) \div 10 \in Nat
      OBVIOUS
    <3> QED
      BY <2>1, <2>3, <3>1
  <2> QED
    BY <2>2, <2>3
<1> QED
  BY <1>1, <1>2

\* A run with estimates that are right reserves what it will need
\* (capacity.go:12-28).
LEMMA ReservationCovers ==
    ASSUME EstimatesHold, NEW j \in Jobs, PlanInv(j), Planned(j)
    PROVE  /\ ReservationBytes(j) \in Nat
           /\ Sized(j) /\ ReservationBytes(j) < MaxBytes =>
                ReservationBytes(j) # 0 /\ ReservationBytes(j) >= Peak(j)
<1> DEFINE n == stream[j].duration
           ea == mediaBytes(selection[j].audio, n)
           ev == mediaBytes(selection[j].video, n)
           m == IF AudioOnly(j) THEN ea ELSE saturatedAdd(ev, ea)
           t == peakTenths(j)
           M == MediaSize(j)
<1>0. MaxBytes \in Nat /\ DiskBytes \in Nat /\ DiskBytes < MaxBytes
  BY RunAssumption
<1>1. /\ stream[j] \in Responses[j] /\ n \in Nat
      /\ selection[j].audio \in AudioItem /\ selection[j].audio \in Range(stream[j].audios)
      /\ ~AudioOnly(j) => selection[j].video \in VideoItem /\ selection[j].video \in Range(stream[j].videos)
  BY PickFacts, RunAssumption
<1>2. ea \in Nat /\ (~AudioOnly(j) => ev \in Nat)
  BY <1>1, AudioFields, VideoFields, MediaBytesNat
<1>3. ReservationBytes(j) = scaledBytes(m, t) /\ t \in {11, 21}
  BY DEF ReservationBytes, peakTenths
<1>4. M \in Nat \ {0} /\ Peak(j) = IF t = 21 THEN 2 * M ELSE M
  BY PlanSizes DEF Peak
<1>5. /\ ea > 0 => selection[j].audio.size <= ea
      /\ ~AudioOnly(j) /\ ev > 0 => selection[j].video.size <= ev
  BY <1>1 DEF EstimatesHold
<1>6. Sized(j) => ea > 0 /\ (~AudioOnly(j) => ev > 0)
  BY DEF Sized, Items
<1>7. /\ selection[j].audio.size \in Nat
      /\ ~AudioOnly(j) => selection[j].video.size \in Nat
      /\ M = IF AudioOnly(j) THEN selection[j].audio.size
             ELSE selection[j].video.size + selection[j].audio.size
  BY PlanSizes DEF MediaSize
<1> HIDE DEF ea, ev, t, M
<1>8. m \in Nat
  BY <1>0, <1>2 DEF saturatedAdd
<1>9. scaledBytes(m, t) \in Nat
  <2> HIDE DEF m
  <2>1. CASE t = 11
    BY <1>0, <1>8, <2>1 DEF scaledBytes
  <2>2. CASE t = 21
    BY <1>0, <1>8, <2>2 DEF scaledBytes
  <2> QED
    BY <1>3, <2>1, <2>2
<1>10. ASSUME Sized(j), scaledBytes(m, t) < MaxBytes
       PROVE  scaledBytes(m, t) # 0 /\ scaledBytes(m, t) >= Peak(j)
  <2>1. CASE AudioOnly(j) \/ ~(MaxBytes - ev < ea)
    <3>1. M <= m
      BY <1>0, <1>2, <1>5, <1>6, <1>7, <1>10, <2>1 DEF saturatedAdd
    <3> HIDE DEF m
    <3> QED
      BY <1>3, <1>4, <1>8, <1>10, <3>1, ScaledCovers
  <2>2. CASE ~AudioOnly(j) /\ MaxBytes - ev < ea
    <3>1. m = MaxBytes
      BY <2>2 DEF saturatedAdd
    <3> HIDE DEF m
    <3>2. MaxBytes > MaxBytes \div 11 /\ MaxBytes > MaxBytes \div 21
      BY <1>0
    <3>3. scaledBytes(m, t) = MaxBytes
      BY <1>3, <3>1, <3>2 DEF scaledBytes
    <3> QED
      BY <1>0, <1>10, <3>3
  <2> QED
    BY <2>1, <2>2
<1> QED
  BY <1>3, <1>9, <1>10

-----------------------------------------------------------------------------
(* What a step does to the space that its job holds.                       *)

\* Left-overs only go; a file of the run has its old length or one it may have.
FilesMove(j) ==
    /\ left'[j] \subseteq left[j] /\ left'[j] \subseteq DOMAIN disk'[j]
    /\ DOMAIN disk'[j] \subseteq Names
    /\ \A f \in left'[j] : f \in DOMAIN disk[j] /\ disk'[j][f] = disk[j][f]
    /\ \A f \in DOMAIN disk'[j] : disk'[j][f] \in Nat
    /\ \A f \in DOMAIN disk'[j] \ left'[j] :
         \/ f \in Own(j) /\ disk'[j][f] = disk[j][f]
         \/ disk'[j][f] <= Whole(j, f)

LEMMA SameMove ==
    ASSUME NEW j \in Jobs, SizesInv(j), disk'[j] = disk[j], left'[j] = left[j]
    PROVE  FilesMove(j)
  BY DEF FilesMove, SizesInv, Own

LEMMA OpenMove ==
    ASSUME Shares, NEW j \in Jobs, SizesInv(j), NEW f \in Names, Whole(j, f) \in Nat, Open(j, f)
    PROVE  FilesMove(j)
  BY OpenFacts DEF FilesMove, SizesInv, Own

LEMMA CloseMove ==
    ASSUME Shares, NEW j \in Jobs, SizesInv(j), NEW d, NEW F, Close(j, d, F),
           DOMAIN d \subseteq DOMAIN disk[j], \A f \in DOMAIN d : d[f] = disk[j][f]
    PROVE  FilesMove(j)
<1>1. /\ DOMAIN disk'[j] \subseteq DOMAIN disk[j] /\ left'[j] = left[j] \cap DOMAIN disk'[j]
      /\ \A f \in DOMAIN disk'[j] : disk'[j][f] = disk[j][f]
  <2>1. /\ DOMAIN disk'[j] = DOMAIN d \ (F \cap unlinked[j])
        /\ \A g \in DOMAIN disk'[j] : disk'[j][g] = d[g]
        /\ left'[j] = left[j] \cap DOMAIN disk'[j]
    BY DEF Shares, Close, Without, Restrict
  <2> QED
    BY <2>1
<1> QED
  BY <1>1 DEF FilesMove, SizesInv, Own

LEMMA CommitMove ==
    ASSUME Shares, NEW j \in Jobs, SizesInv(j), NEW F, NEW T, Commit(j, F, T),
           F \subseteq Names, \A f \in F : Whole(j, f) \in Nat
    PROVE  FilesMove(j)
<1>1. /\ DOMAIN disk'[j] = (DOMAIN disk[j] \ T) \cup F
      /\ \A g \in DOMAIN disk'[j] : disk'[j][g] = IF g \in F THEN Whole(j, g) ELSE disk[j][g]
      /\ left'[j] = left[j] \ (F \cup T)
  BY CommitFacts
<1>2. \A f \in F : disk'[j][f] <= Whole(j, f) /\ disk'[j][f] \in Nat
  BY <1>1
<1>3. \A f \in DOMAIN disk'[j] \ F : f \in DOMAIN disk[j] /\ f \notin T /\ disk'[j][f] = disk[j][f]
  BY <1>1
<1>4. /\ left'[j] \subseteq left[j] /\ left'[j] \subseteq DOMAIN disk'[j]
      /\ \A f \in left'[j] : f \in DOMAIN disk[j] /\ disk'[j][f] = disk[j][f]
  BY <1>1, <1>3 DEF SizesInv
<1>5. DOMAIN disk'[j] \subseteq Names
  BY <1>1 DEF SizesInv
<1>6. \A f \in DOMAIN disk'[j] : disk'[j][f] \in Nat
  BY <1>2, <1>3 DEF SizesInv
<1>7. \A f \in DOMAIN disk'[j] \ left'[j] :
        \/ f \in Own(j) /\ disk'[j][f] = disk[j][f]
        \/ disk'[j][f] <= Whole(j, f)
  BY <1>1, <1>2, <1>3 DEF Own
<1> QED
  BY <1>4, <1>5, <1>6, <1>7 DEF FilesMove

\* The actions between the reservation and the deferred calls.
Works(j) ==
    \/ JoinTracks(j) \/ OpenParts(j) \/ OpenJoin(j) \/ CommitJoin(j) \/ FailSabr(j)
    \/ \E t \in Tracks : OpenPart(j, t) \/ CommitPart(j, t) \/ FailPart(j, t)
    \/ BeginMake(j) \/ Made(j) \/ FailMake(j)
    \/ SaveLocal(j) \/ BeginUpload(j) \/ Uploaded(j) \/ FailSave(j) \/ Publish(j)
    \/ \E f \in Names : Write(j, f)

SamePlan(j) ==
    /\ stream'[j] = stream[j] /\ selection'[j] = selection[j]
    /\ reservations' = reservations

LEMMA WorksKeepPlan ==
    ASSUME Shares, NEW j \in Jobs, Works(j)
    PROVE  pc[j] \in Working /\ pc'[j] \in Working /\ SamePlan(j)
<1> USE DEF SamePlan, Working, Active, planVars, RunGoes, RetryOrFail, Fails, Shares
<1>1. CASE JoinTracks(j)
  BY <1>1 DEF JoinTracks
<1>2. CASE OpenParts(j) \/ OpenJoin(j) \/ CommitJoin(j) \/ FailSabr(j)
  BY <1>2 DEF OpenParts, OpenJoin, CommitJoin, FailSabr
<1>3. ASSUME NEW t \in Tracks, OpenPart(j, t) \/ CommitPart(j, t) \/ FailPart(j, t)
      PROVE  pc[j] \in Working /\ pc'[j] \in Working /\ SamePlan(j)
  BY <1>3 DEF OpenPart, CommitPart, FailPart
<1>4. CASE BeginMake(j) \/ Made(j) \/ FailMake(j)
  BY <1>4 DEF BeginMake, Made, FailMake
<1>5. CASE SaveLocal(j) \/ BeginUpload(j)
  BY <1>5 DEF SaveLocal, BeginUpload
<1>6. CASE Uploaded(j) \/ FailSave(j) \/ Publish(j)
  BY <1>6 DEF Uploaded, FailSave, Publish
<1>7. ASSUME NEW f \in Names, Write(j, f)
      PROVE  pc[j] \in Working /\ pc'[j] \in Working /\ SamePlan(j)
  BY <1>7 DEF Write, Growing
<1> QED
  BY <1>1, <1>2, <1>3, <1>4, <1>5, <1>6, <1>7 DEF Works

\* Files that a run opens or commits are files of its plan.
LEMMA WorksMove ==
    ASSUME RunInv, NEW j \in Jobs, PlanInv(j), SizesInv(j), Works(j)
    PROVE  FilesMove(j)
<1>1. Shares
  BY DEF RunInv
<1>2. Planned(j)
  BY <1>1, WorksKeepPlan DEF PlanInv, Working
<1>3. \A f : (AudioOnly(j) => f \notin {"video", "video.part"}) => Whole(j, f) \in Nat
  BY <1>2, PlanSizes
<1>4. /\ \A t \in Tracks : t \in Names /\ PartOf[t] \in Names
      /\ {"output", "parts", "join"} \subseteq Names /\ Downloads(j) \subseteq Tracks
  BY DEF Names, Tracks, Downloads
<1>5. \A t \in Downloads(j) : Whole(j, t) \in Nat /\ Whole(j, PartOf[t]) \in Nat
  BY <1>3 DEF Downloads, PartOf, Tracks
<1>6. \A f \in {"output", "parts", "join"} : Whole(j, f) \in Nat
  BY <1>3
<1>7. \A t \in Tracks : task[j][t] = "open" => t \in Downloads(j)
  BY DEF RunInv, FilesInv, TasksInTurn
<1>8. \A F : Close(j, disk[j], F) => FilesMove(j)
  BY <1>1, CloseMove
<1>9. \A F, G : Close(j, Without(disk[j], G), F) => FilesMove(j)
  <2> SUFFICES ASSUME NEW F, NEW G, Close(j, Without(disk[j], G), F) PROVE FilesMove(j)
    OBVIOUS
  <2> DEFINE d == Without(disk[j], G)
  <2>1. Close(j, d, F) /\ DOMAIN d \subseteq DOMAIN disk[j] /\ \A f \in DOMAIN d : d[f] = disk[j][f]
    BY DEF Without, Restrict
  <2> HIDE DEF d
  <2> QED
    BY <1>1, <2>1, CloseMove
<1>10. CASE disk' = disk /\ left' = left
  BY <1>10, SameMove
<1>11. CASE JoinTracks(j) \/ SaveLocal(j) \/ BeginUpload(j) \/ Publish(j)
  BY <1>10, <1>11 DEF JoinTracks, SaveLocal, BeginUpload, Publish, fileVars
<1>12. CASE OpenParts(j) \/ OpenJoin(j) \/ BeginMake(j)
  BY <1>1, <1>4, <1>6, <1>12, OpenMove DEF OpenParts, OpenJoin, BeginMake
<1>13. CASE CommitJoin(j)
  <2>1. Commit(j, Downloads(j), {"parts", "join"})
    BY <1>13 DEF CommitJoin
  <2> QED
    BY <1>1, <1>4, <1>5, <2>1, CommitMove
<1>14. CASE FailSabr(j)
  BY <1>9, <1>14 DEF FailSabr
<1>15. ASSUME NEW t \in Tracks, OpenPart(j, t) PROVE FilesMove(j)
  <2>1. t \in Downloads(j) /\ ((disk' = disk /\ left' = left) \/ Open(j, PartOf[t]))
    BY <1>15 DEF OpenPart
  <2> QED
    BY <1>1, <1>4, <1>5, <1>10, <2>1, OpenMove
<1>16. ASSUME NEW t \in Tracks, CommitPart(j, t) PROVE FilesMove(j)
  <2>1. Commit(j, {t}, {PartOf[t]}) /\ t \in Downloads(j)
    BY <1>7, <1>16 DEF CommitPart
  <2> QED
    BY <1>1, <1>4, <1>5, <2>1, CommitMove
<1>17. ASSUME NEW t \in Tracks, FailPart(j, t) PROVE FilesMove(j)
  BY <1>8, <1>9, <1>17 DEF FailPart
<1>18. CASE Made(j) \/ FailMake(j) \/ Uploaded(j) \/ FailSave(j)
  BY <1>8, <1>9, <1>18 DEF Made, FailMake, Uploaded, FailSave
<1>19. ASSUME NEW f \in Names, Write(j, f) PROVE FilesMove(j)
  <2>1. /\ f \in Growing(j) /\ disk[j][f] < Whole(j, f) /\ left' = left
        /\ disk' = [disk EXCEPT ![j][f] = @ + 1]
    BY <1>19 DEF Write
  <2>2. f \in Own(j)
    BY <2>1 DEF RunInv, FilesInv, MadeHere
  <2>3. f \in DOMAIN disk[j] /\ f \notin left[j] /\ disk[j][f] \in Nat
    BY <2>2 DEF Own, SizesInv
  <2>4. /\ DOMAIN disk'[j] = DOMAIN disk[j]
        /\ \A g \in DOMAIN disk[j] : disk'[j][g] = IF g = f THEN disk[j][f] + 1 ELSE disk[j][g]
    BY <1>1, <2>1 DEF Shares
  <2>5. Whole(j, f) \in Nat
    <3>1. AudioOnly(j) => f \notin {"video", "video.part"}
      BY <2>1 DEF Growing, Downloads, PartOf, Tracks
    <3> QED
      BY <1>3, <3>1
  <2> HIDE DEF Whole
  <2>6. disk'[j][f] \in Nat /\ disk'[j][f] <= Whole(j, f)
    BY <2>1, <2>3, <2>4, <2>5
  <2> QED
    BY <2>1, <2>3, <2>4, <2>6 DEF FilesMove, SizesInv, Own
<1> QED
  BY <1>11, <1>12, <1>13, <1>14, <1>15, <1>16, <1>17, <1>18, <1>19 DEF Works

LEMMA StepIs ==
    ASSUME NEW j \in Jobs, JobStep(j)
    PROVE  \/ Works(j) \/ Select(j) \/ Reserve(j) \/ Tidy(j) \/ Cancel(j)
           \/ \E f \in Names : Clean(j, f)
  BY DEF JobStep, Advance, Breaks, Works

\* The run's own files only go.
OwnShrinks(j) ==
    \A f \in DOMAIN disk'[j] \ left'[j] : f \in Own(j) /\ disk'[j][f] = disk[j][f]

LEMMA CleanMove ==
    ASSUME RunInv, NEW j \in Jobs, SizesInv(j), NEW f \in Names, Clean(j, f)
    PROVE  FilesMove(j) /\ OwnShrinks(j) /\ pc' = pc /\ SamePlan(j)
<1>0. pc' = pc /\ SamePlan(j)
  BY DEF Clean, SamePlan, planVars
<1>1. left'[j] = left[j] \ {f}
  BY DEF Clean, RunInv, Shares
<1>2. CASE f \in Growing(j) \cup Reading(j)
  <2>1. disk' = disk /\ f \notin left[j]
    BY <1>2 DEF Clean, RunInv, FilesInv, MadeHere, Own
  <2>2. left'[j] = left[j]
    BY <1>1, <2>1
  <2> QED
    BY <1>0, <2>1, <2>2, SameMove DEF OwnShrinks, Own
<1>3. CASE f \notin Growing(j) \cup Reading(j)
  <2>1. disk'[j] = Without(disk[j], {f})
    BY <1>3 DEF Clean, RunInv, Shares
  <2>2. DOMAIN disk'[j] = DOMAIN disk[j] \ {f} /\ \A g \in DOMAIN disk'[j] : disk'[j][g] = disk[j][g]
    BY <2>1 DEF Without, Restrict
  <2> QED
    BY <1>0, <1>1, <2>2 DEF FilesMove, OwnShrinks, SizesInv, Own
<1> QED
  BY <1>2, <1>3

LEMMA TidyMove ==
    ASSUME RunInv, NEW j \in Jobs, SizesInv(j), Tidy(j)
    PROVE  FilesMove(j) /\ OwnShrinks(j)
<1> DEFINE d == Without(disk[j], {"video", "audio"} \cup
                   (IF outcome[j] = "done" /\ backend = "local" THEN {} ELSE {"output"}))
<1>1. Close(j, d, {})
  BY DEF Tidy, CleanupWork
<1>2. DOMAIN d \subseteq DOMAIN disk[j] /\ \A f \in DOMAIN d : d[f] = disk[j][f]
  BY DEF Without, Restrict
<1> HIDE DEF d
<1>3. FilesMove(j)
  BY <1>1, <1>2, CloseMove DEF RunInv
<1>4. OwnShrinks(j)
  BY <1>1, <1>2 DEF OwnShrinks, Own, Close, Without, Restrict, RunInv, Shares
<1> QED
  BY <1>3, <1>4

LEMMA StepMove ==
    ASSUME RunInv, NEW j \in Jobs, PlanInv(j), SizesInv(j), JobStep(j)
    PROVE  FilesMove(j)
<1>1. CASE Works(j)
  BY <1>1, WorksMove
<1>2. CASE Select(j) \/ Reserve(j) \/ Cancel(j)
  BY <1>2, SameMove DEF Select, Reserve, Cancel, fileVars
<1>3. CASE Tidy(j)
  BY <1>3, TidyMove
<1>4. ASSUME NEW f \in Names, Clean(j, f) PROVE FilesMove(j)
  BY <1>4, CleanMove
<1> QED
  BY <1>1, <1>2, <1>3, <1>4, StepIs

\* The disk has room for what is reserved, so it is not everything.
LEMMA ReserveBounds ==
    ASSUME RunInv, PlansInv, \A k \in Jobs : SizesInv(k), NEW j \in Jobs, Reserve(j),
           Granted(j, ReservationBytes(j)), ReservationBytes(j) \in Nat
    PROVE  /\ reservations[j] = 0 /\ reservations'[j] = ReservationBytes(j)
           /\ \A k \in Jobs \ {j} : reservations'[k] = reservations[k]
           /\ ReservationBytes(j) < MaxBytes
           /\ ReservationBytes(j) # 0 =>
                Free >= MinFree + Sum(reservations) + ReservationBytes(j)
<1>0. MaxBytes \in Nat /\ DiskBytes \in Nat /\ MinFree \in Nat /\ DiskBytes < MaxBytes
  BY RunAssumption
<1>1. pc[j] = "picked" /\ DOMAIN reservations = Jobs
  BY DEF Reserve, RunInv, Shares
<1>2. reservations[j] = 0
  BY <1>1 DEF SizesInv, Working
<1>3. /\ reservations'[j] = ReservationBytes(j)
      /\ \A k \in Jobs \ {j} : reservations'[k] = reservations[k]
  BY <1>1 DEF Granted
<1>4. \A k \in Jobs : reservations[k] \in 0..MaxBytes /\ reservations[k] \in Nat
  BY <1>0 DEF SizesInv
<1>5. IsFiniteSet(Jobs)
  BY RunAssumption
<1>6. FoldFunction(saturatedAdd, 0, reservations) = CappedAt(Sum(reservations)) /\ Sum(reservations) \in Nat
  BY <1>1, <1>4, <1>5, CappedStep, SumStep
<1>7. Sum([k \in Jobs |-> Sum(disk[k])]) \in Nat
  <2>1. ASSUME NEW k \in Jobs PROVE Sum(disk[k]) \in Nat
    <3>1. IsFiniteSet(DOMAIN disk[k]) /\ \A f \in DOMAIN disk[k] : disk[k][f] \in Nat
      BY NamesFinite, FS_Subset DEF SizesInv
    <3> QED
      BY <3>1, SumIs, TotalStep
  <2> DEFINE F == [k \in Jobs |-> Sum(disk[k])]
  <2>2. DOMAIN F = Jobs /\ \A k \in Jobs : F[k] \in Nat
    BY <2>1
  <2> HIDE DEF F
  <2>3. Sum(F) \in Nat
    BY <2>2, SumStep
  <2> QED
    BY <2>3 DEF F
<1>8. Free \in Int /\ Free <= DiskBytes
  BY <1>0, <1>7 DEF Free
<1>9. CASE ReservationBytes(j) = 0
  BY <1>0, <1>2, <1>3, <1>9
<1>10. CASE ReservationBytes(j) # 0
  <2> DEFINE b == ReservationBytes(j)
             s == Sum(reservations)
             q == RequiredBytes - reservations[j]
  <2>0. s \in Nat
    BY <1>6
  <2>1. Free >= saturatedAdd(q, b)
    <3>1. pc'[j] # "ended"
      BY <1>1 DEF Granted, RunGoes, RunInv, Shares
    <3>2. ~Refused(j)
      BY <1>1, <3>1 DEF Refused, RunGoes, RunInv, Shares
    <3> QED
      BY <1>10, <3>2 DEF Reserve
  <2>2. q = saturatedAdd(MinFree, CappedAt(s)) /\ s \in Nat /\ b \in Nat
    <3>1. RequiredBytes = saturatedAdd(MinFree, CappedAt(s))
      BY <1>6 DEF RequiredBytes
    <3>2. saturatedAdd(MinFree, CappedAt(s)) \in Nat
      <4> HIDE DEF s
      <4> QED
        BY <1>0, <2>0 DEF saturatedAdd, CappedAt
    <3> QED
      BY <1>2, <1>6, <3>1, <3>2
  <2> HIDE DEF b, s, q
  <2>3. saturatedAdd(q, b) < MaxBytes
    <3>1. saturatedAdd(q, b) \in Nat
      BY <1>0, <2>2 DEF saturatedAdd, CappedAt
    <3> QED
      BY <1>0, <1>8, <2>1, <3>1
  <2>4. saturatedAdd(q, b) = q + b /\ q < MaxBytes /\ b < MaxBytes
    BY <1>0, <2>2, <2>3 DEF saturatedAdd, CappedAt
  <2>5. q = MinFree + s
    BY <1>0, <2>2, <2>4 DEF saturatedAdd, CappedAt
  <2> QED
    BY <1>2, <1>3, <2>1, <2>4, <2>5 DEF b, s
<1> QED
  BY <1>9, <1>10

-----------------------------------------------------------------------------
(* What a job holds, step by step.                                         *)

\* What is on disk is left-overs and what the run wrote.
LEMMA HeldIs ==
    \A j \in Jobs : SizesInv(j) =>
        /\ LeftBytes(j) \in Nat /\ Written(j) \in Nat /\ reservations[j] \in Nat
        /\ Sum(disk[j]) \in Nat /\ Sum(disk[j]) = LeftBytes(j) + Written(j)
        /\ Held(j) \in Nat
<1> SUFFICES ASSUME NEW j \in Jobs, SizesInv(j)
             PROVE  /\ LeftBytes(j) \in Nat /\ Written(j) \in Nat /\ reservations[j] \in Nat
                    /\ Sum(disk[j]) \in Nat /\ Sum(disk[j]) = LeftBytes(j) + Written(j)
                    /\ Held(j) \in Nat
  OBVIOUS
<1> DEFINE d == disk[j]
           D == DOMAIN disk[j]
           L == left[j]
<1>1. IsFiniteSet(D) /\ L \in SUBSET D /\ \A f \in D : d[f] \in Nat
  BY NamesFinite, FS_Subset DEF SizesInv
<1>2. Own(j) = D \ L /\ LeftBytes(j) = Total(d, L) /\ Written(j) = Total(d, D \ L) /\ Sum(d) = Total(d, D)
  BY WrittenIs, SumIs DEF Own, LeftBytes
<1>3. reservations[j] \in Nat
  BY RunAssumption DEF SizesInv
<1> HIDE DEF d, D, L
<1>4. IsFiniteSet(L) /\ IsFiniteSet(D \ L)
  BY <1>1, FS_Subset
<1>5. Total(d, L) \in Nat
  BY <1>1, <1>4, TotalStep
<1>6. Total(d, D \ L) \in Nat
  BY <1>1, <1>4, TotalStep
<1>7. Total(d, D) = Total(d, L) + Total(d, D \ L)
  BY <1>1, TotalSplit
<1>8. LeftBytes(j) \in Nat /\ Written(j) \in Nat /\ Sum(d) \in Nat /\ Sum(d) = LeftBytes(j) + Written(j)
  BY <1>2, <1>5, <1>6, <1>7
<1>9. Held(j) \in Nat
  BY <1>3, <1>8 DEF Held
<1> QED
  BY <1>3, <1>8, <1>9 DEF d

LEMMA HeldIsNext ==
    \A j \in Jobs : SizesInv(j)' =>
        /\ LeftBytes(j)' \in Nat /\ Written(j)' \in Nat /\ reservations'[j] \in Nat
        /\ Sum(disk'[j]) \in Nat /\ Sum(disk'[j]) = LeftBytes(j)' + Written(j)'
        /\ Held(j)' \in Nat
<1>1. (\A j \in Jobs : SizesInv(j) =>
        /\ LeftBytes(j) \in Nat /\ Written(j) \in Nat /\ reservations[j] \in Nat
        /\ Sum(disk[j]) \in Nat /\ Sum(disk[j]) = LeftBytes(j) + Written(j)
        /\ Held(j) \in Nat)'
  BY HeldIs, PTL
<1> QED
  BY <1>1

LEMMA WrittenNext ==
    \A j \in Jobs : Written(j)' = Total(disk'[j], DOMAIN disk'[j] \ left'[j])
<1>1. (\A j \in Jobs : Written(j) = Total(disk[j], Own(j)))'
  BY WrittenIs, PTL
<1> QED
  BY <1>1 DEF Own

LEMMA WithinPeakNext ==
    RunInv' => \A j \in Jobs : PlanInv(j)' /\ SizesInv(j)' /\ pc'[j] \in Working =>
                                 Written(j)' <= Peak(j)'
<1>1. RunInv => \A j \in Jobs : PlanInv(j) /\ SizesInv(j) /\ pc[j] \in Working =>
                                  Written(j) <= Peak(j)
  BY WithinPeak
<1>2. (RunInv => \A j \in Jobs : PlanInv(j) /\ SizesInv(j) /\ pc[j] \in Working =>
                                  Written(j) <= Peak(j))'
  BY <1>1, PTL
<1> QED
  BY <1>2

\* Some of the files, each with the length it had.
LEMMA TotalShrinks ==
    ASSUME NEW L, IsFiniteSet(L), NEW M \in SUBSET L, NEW d, NEW e,
           \A f \in L : d[f] \in Nat, \A f \in M : e[f] = d[f]
    PROVE  Total(e, M) <= Total(d, L)
<1>1. IsFiniteSet(M) /\ IsFiniteSet(L \ M)
  BY FS_Subset
<1>2. \A f \in M : e[f] \in Nat /\ d[f] \in Nat /\ e[f] <= d[f]
  OBVIOUS
<1>3. Total(e, M) <= Total(d, M)
  BY <1>1, <1>2, TotalMono
<1>4. Total(e, M) \in Nat
  BY <1>1, <1>2, TotalStep
<1>5. Total(d, M) \in Nat
  BY <1>1, <1>2, TotalStep
<1>6. Total(d, L \ M) \in Nat
  BY <1>1, TotalStep
<1>7. Total(d, L) = Total(d, M) + Total(d, L \ M)
  BY TotalSplit
<1> QED
  BY <1>3, <1>4, <1>5, <1>6, <1>7

\* Left-overs only shrink.
LEMMA LeftShrinks ==
    ASSUME NEW j \in Jobs, SizesInv(j), FilesMove(j)
    PROVE  LeftBytes(j)' <= LeftBytes(j)
<1> DEFINE d == disk[j]
           e == disk'[j]
           L == left[j]
           M == left'[j]
<1>1. IsFiniteSet(L) /\ M \in SUBSET L /\ \A f \in L : d[f] \in Nat
  BY NamesFinite, FS_Subset DEF SizesInv, FilesMove
<1>2. \A f \in M : e[f] = d[f]
  BY DEF FilesMove
<1>3. LeftBytes(j) = Total(d, L) /\ LeftBytes(j)' = Total(e, M)
  BY DEF LeftBytes
<1> HIDE DEF d, e, L, M
<1> QED
  BY <1>1, <1>2, <1>3, TotalShrinks

LEMMA WrittenShrinks ==
    ASSUME NEW j \in Jobs, SizesInv(j), OwnShrinks(j)
    PROVE  Written(j)' <= Written(j)
<1> DEFINE d == disk[j]
           e == disk'[j]
           L == Own(j)
           M == DOMAIN disk'[j] \ left'[j]
<1>1. IsFiniteSet(L) /\ M \in SUBSET L /\ \A f \in L : d[f] \in Nat
  BY NamesFinite, FS_Subset DEF SizesInv, OwnShrinks, Own
<1>2. \A f \in M : e[f] = d[f]
  BY DEF OwnShrinks
<1>3. Written(j) = Total(d, L) /\ Written(j)' = Total(e, M)
  BY WrittenIs, WrittenNext
<1> HIDE DEF d, e, L, M
<1> QED
  BY <1>1, <1>2, <1>3, TotalShrinks

-----------------------------------------------------------------------------
(* The kinds of steps.                                                     *)

SameTracks(j) == stream'[j] = stream[j] /\ selection'[j] = selection[j]

LEMMA TracksKept ==
    ASSUME NEW j \in Jobs, SameTracks(j)
    PROVE  /\ Planned(j)' = Planned(j) /\ Sized(j)' = Sized(j) /\ Peak(j)' = Peak(j)
           /\ \A f : Whole(j, f)' = Whole(j, f)
  BY DEF SameTracks, Planned, Sized, Peak, peakTenths, MediaSize, Whole, Item, MainItem, Items,
         Route, AudioOnly

\* The run asks for space and is granted it.
Gets(j) == Reserve(j) /\ Granted(j, ReservationBytes(j))

\* A step beside the run.
Rests(j) == pc'[j] = pc[j] /\ SamePlan(j) /\ OwnShrinks(j)

\* The run has no reservation before it begins to work and after it ends.
Leaves(j) ==
    /\ pc'[j] \notin Working /\ reservations'[j] = 0
    /\ \/ DOMAIN disk'[j] \ left'[j] = {}
       \/ SameTracks(j) /\ OwnShrinks(j)

LEMMA StepKinds ==
    ASSUME RunInv, RunInv', NEW j \in Jobs, SizesInv(j), JobStep(j)
    PROVE  Works(j) \/ Gets(j) \/ Rests(j) \/ Leaves(j)
<1>1. Shares /\ FilesInv(j) /\ FilesInv(j)'
  BY DEF RunInv
<1>2. pc'[j] \in {"idle", "picked"} => DOMAIN disk'[j] \ left'[j] = {}
  BY <1>1 DEF FilesInv, Own, May
<1>3. pc'[j] = "ended" /\ outcome'[j] # "done" => DOMAIN disk'[j] \ left'[j] = {}
  BY <1>1 DEF FilesInv, Own, May
<1>4. pc[j] \notin Working => reservations[j] = 0
  BY DEF SizesInv
<1>5. CASE Select(j)
  <2>1. reservations' = reservations /\ pc[j] = "idle"
        /\ \/ pc'[j] = "picked"
           \/ pc'[j] = "ended" /\ outcome'[j] = "failed"
    BY <1>1, <1>5 DEF Select, Refused, RunGoes, Shares
  <2> QED
    BY <1>2, <1>3, <1>4, <2>1 DEF Leaves, Working, Active
<1>6. CASE Reserve(j) /\ ~Gets(j)
  <2>1. Refused(j) /\ reservations' = reservations /\ pc[j] = "picked"
    BY <1>6 DEF Reserve, Gets
  <2>2. pc'[j] = "ended" /\ outcome'[j] = "failed"
    BY <1>1, <2>1 DEF Refused, RunGoes, Shares
  <2> QED
    BY <1>3, <1>4, <2>1, <2>2 DEF Leaves, Working, Active
<1>7. CASE Tidy(j)
  <2>1. /\ pc'[j] = "ended" /\ reservations'[j] = 0
        /\ outcome[j] = "done" => SameTracks(j) /\ outcome'[j] = "done"
        /\ outcome[j] # "done" => outcome'[j] = "failed"
    BY <1>1, <1>7 DEF Tidy, RunEnds, RunGoes, Shares, SameTracks
  <2>2. OwnShrinks(j)
    BY <1>7, TidyMove
  <2> QED
    BY <1>3, <2>1, <2>2 DEF Leaves, Working, Active
<1>8. CASE Cancel(j)
  <2>1. pc' = pc /\ SamePlan(j) /\ disk' = disk /\ left' = left
    BY <1>8 DEF Cancel, SamePlan, planVars, fileVars
  <2> QED
    BY <2>1 DEF Rests, OwnShrinks, Own
<1>9. ASSUME NEW f \in Names, Clean(j, f) PROVE Rests(j)
  BY <1>9, CleanMove DEF Rests
<1> QED
  BY <1>5, <1>6, <1>7, <1>8, <1>9, StepIs

LEMMA SizesStep ==
    ASSUME EstimatesHold, RunInv, RunInv', PlansInv, \A k \in Jobs : SizesInv(k),
           NEW j \in Jobs, JobStep(j)
    PROVE  SizesInv(j)'
<1>0. MaxBytes \in Nat /\ PlanInv(j) /\ SizesInv(j)
  BY RunAssumption DEF PlansInv
<1>1. FilesMove(j)
  BY <1>0, StepMove
<1>2. /\ DOMAIN disk'[j] \subseteq Names /\ left'[j] \subseteq DOMAIN disk'[j]
      /\ \A f \in DOMAIN disk'[j] : disk'[j][f] \in Nat
  BY <1>1 DEF FilesMove
<1>3. SameTracks(j) => \A f \in Own(j)' : disk'[j][f] <= Whole(j, f)'
  <2> SUFFICES ASSUME SameTracks(j), NEW f \in DOMAIN disk'[j] \ left'[j]
               PROVE  disk'[j][f] <= Whole(j, f)'
    BY DEF Own
  <2>1. Whole(j, f)' = Whole(j, f)
    BY TracksKept
  <2>2. disk'[j][f] <= Whole(j, f)
    BY <1>0, <1>1 DEF FilesMove, SizesInv
  <2> QED
    BY <2>1, <2>2
<1>4. CASE Works(j) \/ Rests(j)
  <2>1. SamePlan(j) /\ SameTracks(j) /\ (pc[j] \in Working <=> pc'[j] \in Working)
    BY <1>4, WorksKeepPlan DEF RunInv, Rests, SamePlan, SameTracks
  <2>2. /\ reservations'[j] \in 0..MaxBytes
        /\ reservations'[j] # 0 => pc'[j] \in Working
        /\ pc'[j] \in Working /\ Sized(j)' => reservations'[j] >= Peak(j)'
    BY <1>0, <2>1, TracksKept DEF SizesInv, SamePlan
  <2> QED
    BY <1>2, <1>3, <2>1, <2>2 DEF SizesInv
<1>5. CASE Gets(j)
  <2>1. pc[j] = "picked" /\ Planned(j)
    BY <1>0, <1>5 DEF Gets, Reserve, PlanInv, Active
  <2>2. SameTracks(j) /\ pc'[j] \in Working
    BY <1>5, <2>1 DEF Gets, Granted, RunGoes, RunInv, Shares, SameTracks, Working, Active
  <2>3. /\ ReservationBytes(j) \in Nat
        /\ Sized(j) /\ ReservationBytes(j) < MaxBytes => ReservationBytes(j) >= Peak(j)
    BY <1>0, <2>1, ReservationCovers
  <2>4. reservations'[j] = ReservationBytes(j) /\ ReservationBytes(j) < MaxBytes
    BY <1>5, <2>3, ReserveBounds DEF Gets
  <2>5. /\ reservations'[j] \in 0..MaxBytes
        /\ Sized(j)' => reservations'[j] >= Peak(j)'
    BY <1>0, <2>2, <2>3, <2>4, TracksKept
  <2> QED
    BY <1>2, <1>3, <2>2, <2>5 DEF SizesInv
<1>6. CASE Leaves(j)
  <2>1. \A f \in Own(j)' : disk'[j][f] <= Whole(j, f)'
    BY <1>3, <1>6 DEF Leaves, Own
  <2> QED
    BY <1>0, <1>2, <1>6, <2>1 DEF Leaves, SizesInv
<1> QED
  BY <1>0, <1>4, <1>5, <1>6, StepKinds

\* A job's claim grows only with its reservation.
LEMMA HeldShrinks ==
    ASSUME RunInv, RunInv', PlansInv, PlansInv', \A k \in Jobs : SizesInv(k),
           NEW j \in Jobs, SizesInv(j)', JobStep(j), Gets(j) => ReservationBytes(j) = 0
    PROVE  Held(j)' <= Held(j)
<1>0. PlanInv(j) /\ PlanInv(j)' /\ SizesInv(j)
  BY DEF PlansInv
<1>1. LeftBytes(j)' <= LeftBytes(j)
  BY <1>0, StepMove, LeftShrinks
<1>2. /\ LeftBytes(j) \in Nat /\ Written(j) \in Nat /\ reservations[j] \in Nat
      /\ LeftBytes(j)' \in Nat /\ Written(j)' \in Nat /\ reservations'[j] \in Nat
  BY <1>0, HeldIs, HeldIsNext
<1>3. CASE Works(j)
  <2>1. SamePlan(j) /\ SameTracks(j) /\ pc[j] \in Working /\ pc'[j] \in Working
    BY <1>3, WorksKeepPlan DEF RunInv, SamePlan, SameTracks
  <2>2. Planned(j) /\ Planned(j)' /\ Sized(j)' = Sized(j) /\ reservations'[j] = reservations[j]
    BY <1>0, <2>1, TracksKept DEF PlanInv, Working, SamePlan
  <2>3. CASE Sized(j)
    <3>1. Written(j)' <= Peak(j)' /\ Peak(j)' <= reservations'[j] /\ Peak(j)' \in Nat
      <4>1. Peak(j) \in Nat
        BY <1>0, <2>2, PlanSizes
      <4> QED
        BY <1>0, <2>1, <2>2, <2>3, <4>1, WithinPeakNext, TracksKept DEF SizesInv
    <3>2. Written(j)' <= reservations'[j]
      BY <1>2, <3>1
    <3>3. Held(j)' = LeftBytes(j)' + reservations'[j]
      BY <1>2, <2>2, <2>3, <3>2 DEF Held
    <3> QED
      BY <1>1, <1>2, <2>2, <2>3, <3>3 DEF Held
  <2>4. CASE ~Sized(j)
    BY <1>1, <1>2, <2>2, <2>4 DEF Held
  <2> QED
    BY <2>3, <2>4
<1>4. CASE SameTracks(j) /\ OwnShrinks(j) /\ reservations'[j] <= reservations[j]
  <2>1. Written(j)' <= Written(j)
    BY <1>0, <1>4, WrittenShrinks
  <2>2. Planned(j)' = Planned(j) /\ Sized(j)' = Sized(j)
    BY <1>4, TracksKept
  <2> QED
    BY <1>1, <1>2, <1>4, <2>1, <2>2 DEF Held
<1>5. CASE Rests(j)
  BY <1>2, <1>4, <1>5 DEF Rests, SamePlan, SameTracks
<1>6. CASE Gets(j)
  <2>1. disk' = disk /\ left' = left /\ SameTracks(j) /\ reservations'[j] = 0
    BY <1>6 DEF Gets, Reserve, Granted, SameTracks, fileVars, RunInv, Shares
  <2> QED
    BY <1>2, <1>4, <2>1 DEF OwnShrinks, Own
<1>7. CASE Leaves(j)
  <2>1. CASE DOMAIN disk'[j] \ left'[j] = {}
    <3>1. Written(j)' = 0
      <4>1. Written(j)' = Total(disk'[j], DOMAIN disk'[j] \ left'[j])
        BY WrittenNext
      <4> QED
        BY <2>1, <4>1, FS_EmptySet, TotalStep
    <3>2. Held(j)' = LeftBytes(j)'
      BY <1>2, <1>7, <3>1 DEF Held, Leaves
    <3> QED
      BY <1>1, <1>2, <3>2 DEF Held
  <2>2. CASE SameTracks(j) /\ OwnShrinks(j)
    BY <1>2, <1>4, <1>7, <2>2 DEF Leaves
  <2> QED
    BY <1>7, <2>1, <2>2 DEF Leaves
<1> QED
  BY <1>0, <1>3, <1>5, <1>6, <1>7, StepKinds

-----------------------------------------------------------------------------
(* Sums over the jobs.                                                     *)

LEMMA SumMono ==
    ASSUME NEW f, NEW g, DOMAIN f = Jobs, DOMAIN g = Jobs,
           \A k \in Jobs : f[k] \in Nat /\ g[k] \in Nat /\ f[k] <= g[k]
    PROVE  Sum(f) \in Nat /\ Sum(g) \in Nat /\ Sum(f) <= Sum(g)
<1>1. IsFiniteSet(Jobs)
  BY RunAssumption
<1>2. Sum(f) = Total(f, Jobs) /\ Sum(f) \in Nat
  BY SumStep
<1>3. Sum(g) = Total(g, Jobs) /\ Sum(g) \in Nat
  BY SumStep
<1>4. Total(f, Jobs) <= Total(g, Jobs)
  BY <1>1, TotalMono
<1> QED
  BY <1>2, <1>3, <1>4

LEMMA SumPlus ==
    ASSUME NEW f, NEW g, NEW h, DOMAIN f = Jobs, DOMAIN g = Jobs, DOMAIN h = Jobs,
           \A k \in Jobs : f[k] \in Nat /\ g[k] \in Nat /\ h[k] = f[k] + g[k]
    PROVE  Sum(f) \in Nat /\ Sum(g) \in Nat /\ Sum(h) = Sum(f) + Sum(g)
<1>1. IsFiniteSet(Jobs) /\ \A k \in Jobs : h[k] \in Nat
  BY RunAssumption
<1>2. Sum(f) = Total(f, Jobs) /\ Sum(f) \in Nat
  BY SumStep
<1>3. Sum(g) = Total(g, Jobs) /\ Sum(g) \in Nat
  BY SumStep
<1>4. Sum(h) = Total(h, Jobs)
  BY <1>1, SumStep
<1>5. Total(h, Jobs) = Total(f, Jobs) + Total(g, Jobs)
  BY <1>1, TotalPlus
<1> QED
  BY <1>2, <1>3, <1>4, <1>5

\* One term grows from zero.
LEMMA SumOneMore ==
    ASSUME NEW f, NEW g, DOMAIN f = Jobs, DOMAIN g = Jobs, NEW j \in Jobs,
           f[j] = 0, g[j] \in Nat, \A k \in Jobs \ {j} : f[k] \in Nat /\ g[k] = f[k]
    PROVE  Sum(g) = Sum(f) + g[j] /\ Sum(f) \in Nat
<1> DEFINE h == [k \in Jobs |-> IF k = j THEN g[j] ELSE 0]
           R == Jobs \ {j}
<1>1. DOMAIN h = Jobs /\ h[j] = g[j] /\ \A k \in Jobs \ {j} : h[k] = 0
  OBVIOUS
<1>2. IsFiniteSet(Jobs) /\ IsFiniteSet(R) /\ IsFiniteSet({})
  BY RunAssumption, FS_Subset, FS_EmptySet
<1> HIDE DEF h
<1>3. \A k \in Jobs : f[k] \in Nat /\ h[k] \in Nat /\ g[k] = f[k] + h[k]
  BY <1>1
<1>4. Sum(g) = Sum(f) + Sum(h) /\ Sum(f) \in Nat
  BY <1>1, <1>3, SumPlus
<1>5. Sum(h) = Total(h, Jobs)
  BY <1>1, <1>3, SumStep
<1>6. Total(h, Jobs) = h[j] + Total(h, R)
  BY <1>2, <1>3, TotalRemove
<1>7. Total(h, R) = 0
  <2> DEFINE G == {T \in SUBSET R : Total(h, T) = 0}
  <2>1. ASSUME NEW T \in SUBSET R, \A U \in (SUBSET T) \ {T} : U \in G
        PROVE  T \in G
    <3>1. IsFiniteSet(T) /\ \A k \in T : h[k] = 0 /\ h[k] \in Nat
      BY <1>1, <1>2, FS_Subset
    <3>2. CASE T = {}
      <4>1. Total(h, T) = 0
        BY <3>1, <3>2, TotalStep
      <4> QED
        BY <4>1
    <3>3. CASE T # {}
      <4>1. AnyOf(T) \in T
        BY <3>3, AnyOfIn
      <4>2. Total(h, T) = h[AnyOf(T)] + Total(h, T \ {AnyOf(T)})
        BY <3>1, <3>3, TotalStep
      <4>3. Total(h, T \ {AnyOf(T)}) = 0
        BY <2>1, <4>1
      <4> QED
        BY <3>1, <4>1, <4>2, <4>3
    <3> QED
      BY <3>2, <3>3
  <2>2. \A T \in SUBSET R : (\A U \in (SUBSET T) \ {T} : U \in G) => T \in G
    BY <2>1
  <2> HIDE DEF G, R
  <2>3. \A T \in SUBSET R : T \in G
    BY <1>2, <2>2, SetInduction
  <2> QED
    BY <2>3 DEF G
<1> QED
  BY <1>1, <1>3, <1>4, <1>5, <1>6, <1>7

\* A sum is positive because of one of its terms.
LEMMA SumPositive ==
    ASSUME NEW f, DOMAIN f = Jobs, \A k \in Jobs : f[k] \in Nat, Sum(f) > 0
    PROVE  \E k \in Jobs : f[k] > 0
<1> SUFFICES ASSUME \A k \in Jobs : f[k] = 0 PROVE FALSE
  OBVIOUS
<1>1. \A k \in Jobs : f[k] \in Nat /\ f[k] = f[k] + f[k]
  OBVIOUS
<1>2. Sum(f) \in Nat /\ Sum(f) = Sum(f) + Sum(f)
  BY <1>1, SumPlus
<1> QED
  BY <1>2

-----------------------------------------------------------------------------
(* The invariant about space is inductive.                                 *)

\* What SpaceInv says of a job's claim to the disk.
Claims == [j \in Jobs |-> Held(j)]
OnDisk == [j \in Jobs |-> Sum(disk[j])]

LEMMA GrantStep ==
    ASSUME RunInv, RunInv', PlansInv, \A k \in Jobs : SizesInv(k), \A k \in Jobs : SizesInv(k)',
           NEW j \in Jobs, Gets(j), ReservationBytes(j) \in Nat \ {0}
    PROVE  MinFree + Sum(Claims') <= DiskBytes
<1>0. DiskBytes \in Nat /\ MinFree \in Nat
  BY RunAssumption
<1>1. /\ reservations[j] = 0 /\ reservations'[j] = ReservationBytes(j)
      /\ \A k \in Jobs \ {j} : reservations'[k] = reservations[k]
      /\ Free >= MinFree + Sum(reservations) + ReservationBytes(j)
  BY ReserveBounds DEF Gets
<1>2. disk' = disk /\ DOMAIN reservations = Jobs /\ DOMAIN reservations' = Jobs
  BY DEF Gets, Reserve, fileVars, RunInv, Shares
<1>3. \A k \in Jobs : /\ LeftBytes(k)' \in Nat /\ Written(k)' \in Nat /\ reservations'[k] \in Nat
                      /\ Sum(disk'[k]) \in Nat /\ Sum(disk'[k]) = LeftBytes(k)' + Written(k)'
                      /\ Held(k)' \in Nat
  BY HeldIsNext
<1>4. \A k \in Jobs : Held(k)' <= Sum(disk'[k]) + reservations'[k]
  <2> SUFFICES ASSUME NEW k \in Jobs PROVE Held(k)' <= Sum(disk'[k]) + reservations'[k]
    OBVIOUS
  <2>1. Held(k)' \in {LeftBytes(k)' + reservations'[k], LeftBytes(k)' + Written(k)'}
    BY DEF Held
  <2> QED
    BY <1>3, <2>1
<1> DEFINE C == Claims'
           D == [k \in Jobs |-> Sum(disk[k])]
           r == reservations
           q == reservations'
           E == [k \in Jobs |-> D[k] + q[k]]
           b == ReservationBytes(j)
<1>5. /\ DOMAIN C = Jobs /\ DOMAIN D = Jobs /\ DOMAIN E = Jobs
      /\ \A k \in Jobs : C[k] \in Nat /\ D[k] \in Nat /\ q[k] \in Nat /\ C[k] <= E[k] /\ E[k] = D[k] + q[k]
  <2>1. \A k \in Jobs : C[k] = Held(k)' /\ D[k] = Sum(disk'[k]) /\ E[k] = D[k] + q[k]
    BY <1>2 DEF Claims
  <2> QED
    BY <1>3, <1>4, <2>1 DEF Claims
<1>6. Free = DiskBytes - Sum(D)
  BY DEF Free
<1>7. \A k \in Jobs : r[k] \in Nat
  BY RunAssumption DEF SizesInv
<1> HIDE DEF C, D, E
<1>8. Sum(C) \in Nat /\ Sum(C) <= Sum(E)
  <2>1. \A k \in Jobs : E[k] \in Nat
    BY <1>5
  <2> QED
    BY <1>5, <2>1, SumMono
<1>9. Sum(E) = Sum(D) + Sum(q) /\ Sum(D) \in Nat
  BY <1>2, <1>5, SumPlus
<1>10. Sum(q) = Sum(r) + b /\ Sum(r) \in Nat
  <2>1. Sum(q) = Sum(r) + q[j] /\ Sum(r) \in Nat
    <3> HIDE DEF q, r
    <3>1. /\ DOMAIN r = Jobs /\ DOMAIN q = Jobs /\ r[j] = 0 /\ q[j] \in Nat
          /\ \A k \in Jobs \ {j} : r[k] \in Nat /\ q[k] = r[k]
      BY <1>1, <1>2, <1>5, <1>7 DEF q, r
    <3> QED
      BY <3>1, SumOneMore
  <2> QED
    BY <1>1, <2>1
<1>11. Free >= MinFree + Sum(r) + b /\ b \in Nat
  BY <1>1
<1> HIDE DEF b, r, q
<1> QED
  BY <1>0, <1>6, <1>8, <1>9, <1>10, <1>11 DEF C

\* No job's claim grows and no reservation is new.
LEMMA ClaimsShrink ==
    ASSUME SpaceInv, \A k \in Jobs : SizesInv(k)',
           \A k \in Jobs : Held(k)' <= Held(k),
           \A k \in Jobs : reservations'[k] > 0 => reservations[k] > 0
    PROVE  SpaceInv'
<1>0. DiskBytes \in Nat /\ MinFree \in Nat
  BY RunAssumption
<1>1. \A k \in Jobs : Held(k) \in Nat /\ Held(k)' \in Nat
  BY HeldIs, HeldIsNext DEF SpaceInv
<1> DEFINE C == Claims
           D == Claims'
<1>2. /\ DOMAIN C = Jobs /\ DOMAIN D = Jobs
      /\ \A k \in Jobs : D[k] \in Nat /\ C[k] \in Nat /\ D[k] <= C[k]
  BY <1>1 DEF Claims
<1> HIDE DEF C, D
<1>3. Sum(D) \in Nat /\ Sum(C) \in Nat /\ Sum(D) <= Sum(C)
  BY <1>2, SumMono
<1>4. ASSUME \E k \in Jobs : reservations'[k] > 0 PROVE MinFree + Sum(D) <= DiskBytes
  <2>1. MinFree + Sum(C) <= DiskBytes
    BY <1>4 DEF SpaceInv, C, Claims
  <2> QED
    BY <1>0, <1>3, <2>1
<1> QED
  BY <1>4 DEF SpaceInv, D, Claims

LEMMA SameClaim ==
    ASSUME NEW k \in Jobs, SameJob(k)
    PROVE  Held(k)' = Held(k) /\ (SizesInv(k) => SizesInv(k)')
<1>1. SameTracks(k)
  BY DEF SameJob, SameTracks
<1>2. /\ disk'[k] = disk[k] /\ left'[k] = left[k] /\ reservations'[k] = reservations[k]
      /\ pc'[k] = pc[k]
  BY DEF SameJob
<1>3. Own(k)' = Own(k)
  BY <1>2 DEF Own
<1>4. Written(k)' = Written(k)
  BY <1>2, WrittenIs, WrittenNext DEF Own
<1>5. LeftBytes(k)' = LeftBytes(k)
  BY <1>2 DEF LeftBytes
<1>6. Held(k)' = Held(k)
  BY <1>1, <1>2, <1>4, <1>5, TracksKept DEF Held
<1>7. SizesInv(k) => SizesInv(k)'
  BY <1>1, <1>2, <1>3, TracksKept DEF SizesInv
<1> QED
  BY <1>6, <1>7

LEMMA KillSizes ==
    ASSUME RunInv, RunInv', NEW j \in Jobs, SizesInv(j), Kill
    PROVE  SizesInv(j)' /\ reservations'[j] = 0
<1>1. FilesInv(j) /\ FilesInv(j)' /\ Shares
  BY DEF RunInv
<1>2. /\ disk'[j] = Without(disk[j], unlinked[j])
      /\ left'[j] = DOMAIN disk'[j] \
            (IF outcome[j] = "done" /\ backend = "local" THEN {"output"} ELSE {})
      /\ reservations'[j] = 0
      /\ pc'[j] = IF outcome[j] = "none" THEN "idle" ELSE "ended"
      /\ outcome' = outcome /\ backend' = backend
  BY DEF Kill
<1>3. /\ DOMAIN disk'[j] = DOMAIN disk[j] \ unlinked[j]
      /\ \A f \in DOMAIN disk'[j] : disk'[j][f] = disk[j][f]
  BY <1>2 DEF Without, Restrict
<1>4. DOMAIN disk'[j] \subseteq Names /\ \A f \in DOMAIN disk'[j] : disk'[j][f] \in Nat
  BY <1>3 DEF SizesInv
<1>5. left'[j] \subseteq DOMAIN disk'[j]
  BY <1>2
<1>6. ASSUME NEW f \in Own(j)' PROVE disk'[j][f] <= Whole(j, f)'
  <2>1. f \in DOMAIN disk'[j] /\ f = "output" /\ outcome'[j] = "done" /\ backend' = "local"
    BY <1>2 DEF Own
  <2>2. disk'[j][f] = Whole(j, f)'
    BY <1>1, <2>1 DEF FilesInv, WholeInv, Complete
  <2>3. disk'[j][f] \in Nat
    BY <1>4, <2>1
  <2> QED
    BY <2>2, <2>3
<1>7. 0 \in 0..MaxBytes
  BY RunAssumption
<1>8. pc'[j] \notin Working
  BY <1>2 DEF Working, Active
<1> QED
  BY <1>2, <1>4, <1>5, <1>6, <1>7, <1>8 DEF SizesInv

LEMMA SpaceStep ==
    EstimatesHold =>
      (RunInv /\ RunInv' /\ PlansInv /\ PlansInv' /\ SpaceInv /\ [Next]_runVars => SpaceInv')
<1> SUFFICES ASSUME EstimatesHold, RunInv, RunInv', PlansInv, PlansInv', SpaceInv, [Next]_runVars
             PROVE  SpaceInv'
  OBVIOUS
<1>0. \A k \in Jobs : SizesInv(k)
  BY DEF SpaceInv
<1>1. ASSUME NEW j \in Jobs, JobStep(j) PROVE SpaceInv'
  <2>1. \A k \in Jobs \ {j} : SameJob(k)
    BY <1>1, OnlyOne DEF RunInv
  <2>2. SizesInv(j)'
    BY <1>0, <1>1, SizesStep
  <2>3. \A k \in Jobs : SizesInv(k)'
    BY <1>0, <2>1, <2>2, SameClaim
  <2>4. CASE Gets(j) /\ ReservationBytes(j) # 0
    <3>1. PlanInv(j) /\ Planned(j)
      BY <2>4 DEF PlansInv, PlanInv, Gets, Reserve, Active
    <3>2. ReservationBytes(j) \in Nat
      BY <3>1, ReservationCovers
    <3>3. MinFree + Sum(Claims') <= DiskBytes
      BY <1>0, <2>3, <2>4, <3>2, GrantStep
    <3> QED
      BY <2>3, <3>3 DEF SpaceInv, Claims
  <2>5. CASE ~(Gets(j) /\ ReservationBytes(j) # 0)
    <3>1. Held(j)' <= Held(j)
      BY <1>0, <1>1, <2>2, <2>5, HeldShrinks
    <3>2. \A k \in Jobs : Held(k)' <= Held(k)
      <4>1. \A k \in Jobs : Held(k) \in Nat
        BY <1>0, HeldIs
      <4> QED
        BY <2>1, <3>1, <4>1, SameClaim
    <3>3. reservations'[j] > 0 => reservations[j] > 0
      <4>1. CASE Works(j) \/ Rests(j)
        BY <4>1, WorksKeepPlan DEF RunInv, Rests, SamePlan
      <4>2. CASE Gets(j)
        BY <2>5, <4>2 DEF Gets, Granted, RunInv, Shares
      <4>3. CASE Leaves(j)
        BY <4>3 DEF Leaves
      <4> QED
        BY <1>0, <1>1, <4>1, <4>2, <4>3, StepKinds
    <3>4. \A k \in Jobs : reservations'[k] > 0 => reservations[k] > 0
      BY <2>1, <3>3 DEF SameJob
    <3> QED
      BY <2>3, <3>2, <3>4, ClaimsShrink
  <2> QED
    BY <2>4, <2>5
<1>2. CASE Kill
  <2>1. \A j \in Jobs : SizesInv(j)' /\ reservations'[j] = 0
    BY <1>0, <1>2, KillSizes
  <2>2. ~ \E k \in Jobs : reservations'[k] > 0
    BY <2>1
  <2> QED
    BY <2>1, <2>2 DEF SpaceInv
<1>3. CASE UNCHANGED runVars
  <2>1. \A k \in Jobs : SameJob(k)
    BY <1>3 DEF runVars, SameJob
  <2>2. \A k \in Jobs : Held(k)' = Held(k) /\ SizesInv(k)' /\ Held(k) \in Nat
    BY <1>0, <2>1, SameClaim, HeldIs
  <2>3. \A k \in Jobs : Held(k)' <= Held(k)
    BY <2>2
  <2>4. \A k \in Jobs : reservations'[k] > 0 => reservations[k] > 0
    BY <2>1 DEF SameJob
  <2> QED
    BY <2>2, <2>3, <2>4, ClaimsShrink
<1> QED
  BY <1>1, <1>2, <1>3 DEF Next, JobStep

LEMMA SpaceInit == Init => SpaceInv
<1> SUFFICES ASSUME Init PROVE SpaceInv
  OBVIOUS
<1>1. ASSUME NEW j \in Jobs PROVE SizesInv(j) /\ reservations[j] = 0
  <2>1. DOMAIN disk[j] = {} /\ left[j] = {} /\ reservations[j] = 0 /\ pc[j] = "idle"
    BY DEF Init, NoFiles
  <2>2. 0 \in 0..MaxBytes
    BY RunAssumption
  <2> QED
    BY <2>1, <2>2 DEF SizesInv, Own, Working, Active
<1>2. ~ \E k \in Jobs : reservations[k] > 0
  BY <1>1
<1> QED
  BY <1>1, <1>2 DEF SpaceInv

\* Every run stays within what it reserved, and the reservations, what is on
\* disk and the minimum fit on the disk together.
THEOREM SpaceInvariant == EstimatesHold => (Spec => []SpaceInv)
<1>1. SUFFICES ASSUME EstimatesHold PROVE Spec => []SpaceInv
  OBVIOUS
<1>2. RunInv /\ RunInv' /\ PlansInv /\ PlansInv' /\ SpaceInv /\ [Next]_runVars => SpaceInv'
  BY <1>1, SpaceStep
<1> QED
  BY <1>2, SpaceInit, RunInvariant, PlansInvariant, PTL DEF Spec

\* What a job may still write, or wrote without a reservation, is part of its claim.
LEMMA ClaimCovers ==
    ASSUME NEW j \in Jobs, SizesInv(j)
    PROVE  /\ Outstanding(j) \in Nat /\ Unaccounted(j) \in Nat
           /\ Outstanding(j) > 0 => reservations[j] > 0
           /\ Sum(disk[j]) + Outstanding(j) <= Held(j) + Unaccounted(j)
<1>1. /\ LeftBytes(j) \in Nat /\ Written(j) \in Nat /\ reservations[j] \in Nat
      /\ Sum(disk[j]) \in Nat /\ Sum(disk[j]) = LeftBytes(j) + Written(j)
      /\ Held(j) \in Nat
  BY HeldIs
<1> DEFINE s == Sum(disk[j])
           w == Written(j)
           l == LeftBytes(j)
           r == reservations[j]
<1>2. /\ Outstanding(j) = IF r > w THEN r - w ELSE 0
      /\ Unaccounted(j) = IF Planned(j) /\ ~Sized(j) /\ s > r THEN s - r ELSE 0
      /\ Held(j) = l + (IF Planned(j) /\ ~Sized(j) THEN r ELSE IF w > r THEN w ELSE r)
  BY DEF Outstanding, Unaccounted, Held
<1>3. l \in Nat /\ w \in Nat /\ r \in Nat /\ s = l + w
  BY <1>1
<1> HIDE DEF s, w, l, r
<1>4. Outstanding(j) \in Nat /\ Unaccounted(j) \in Nat /\ (Outstanding(j) > 0 => r > 0)
  BY <1>2, <1>3
<1>5. s + Outstanding(j) <= Held(j) + Unaccounted(j)
  <2>1. CASE Planned(j) /\ ~Sized(j)
    BY <1>2, <1>3, <2>1
  <2>2. CASE ~(Planned(j) /\ ~Sized(j))
    BY <1>2, <1>3, <2>2
  <2> QED
    BY <2>1, <2>2
<1> QED
  BY <1>4, <1>5 DEF s, r

LEMMA SpaceIsThere == SpaceInv => GrantedSpaceIsThere
<1> SUFFICES ASSUME SpaceInv PROVE GrantedSpaceIsThere
  OBVIOUS
<1> DEFINE O == [j \in Jobs |-> Outstanding(j)]
           U == [j \in Jobs |-> Unaccounted(j)]
           H == [j \in Jobs |-> Held(j)]
           D == [j \in Jobs |-> Sum(disk[j])]
           A == [j \in Jobs |-> D[j] + O[j]]
           B == [j \in Jobs |-> H[j] + U[j]]
<1>0. DiskBytes \in Nat /\ MinFree \in Nat
  BY RunAssumption
<1>1. \A j \in Jobs : /\ Outstanding(j) \in Nat /\ Unaccounted(j) \in Nat
                      /\ Held(j) \in Nat /\ Sum(disk[j]) \in Nat
                      /\ Outstanding(j) > 0 => reservations[j] > 0
                      /\ Sum(disk[j]) + Outstanding(j) <= Held(j) + Unaccounted(j)
  BY ClaimCovers, HeldIs DEF SpaceInv
<1>2. /\ DOMAIN O = Jobs /\ DOMAIN U = Jobs /\ DOMAIN H = Jobs /\ DOMAIN D = Jobs
      /\ DOMAIN A = Jobs /\ DOMAIN B = Jobs
      /\ \A j \in Jobs : /\ O[j] \in Nat /\ U[j] \in Nat /\ H[j] \in Nat /\ D[j] \in Nat
                         /\ A[j] \in Nat /\ B[j] \in Nat
                         /\ A[j] = D[j] + O[j] /\ B[j] = H[j] + U[j] /\ A[j] <= B[j]
                         /\ O[j] > 0 => reservations[j] > 0
  BY <1>1
<1>3. Free = DiskBytes - Sum(D)
  BY DEF Free
<1>4. (\E j \in Jobs : reservations[j] > 0) => MinFree + Sum(H) <= DiskBytes
  BY DEF SpaceInv
<1>5. SUFFICES Sum(O) > 0 => Free + Sum(U) >= MinFree + Sum(O)
  BY DEF GrantedSpaceIsThere
<1> HIDE DEF O, U, H, D, A, B
<1>6. SUFFICES ASSUME Sum(O) > 0 PROVE Free + Sum(U) >= MinFree + Sum(O)
  OBVIOUS
<1>7. \E j \in Jobs : O[j] > 0
  BY <1>2, <1>6, SumPositive
<1>8. MinFree + Sum(H) <= DiskBytes
  BY <1>2, <1>4, <1>7
<1>9. Sum(A) = Sum(D) + Sum(O) /\ Sum(D) \in Nat /\ Sum(O) \in Nat
  BY <1>2, SumPlus
<1>10. Sum(B) = Sum(H) + Sum(U) /\ Sum(H) \in Nat /\ Sum(U) \in Nat
  BY <1>2, SumPlus
<1>11. Sum(A) <= Sum(B)
  BY <1>2, SumMono
<1> QED
  BY <1>0, <1>3, <1>8, <1>9, <1>10, <1>11

\* Space that was granted is there when it is needed (monitor.go:50-75,
\* capacity.go:30-55), if tracks are no larger than their entries let expect.
THEOREM GrantedSpaceIsThereAlways == EstimatesHold => (Spec => []GrantedSpaceIsThere)
<1>1. SUFFICES ASSUME EstimatesHold PROVE Spec => []GrantedSpaceIsThere
  OBVIOUS
<1>2. Spec => []SpaceInv
  BY <1>1, SpaceInvariant
<1> QED
  BY <1>2, SpaceIsThere, PTL
=============================================================================
