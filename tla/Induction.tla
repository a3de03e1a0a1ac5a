----------------------------- MODULE Induction -----------------------------
(***************************************************************************)
(* Induction over the natural numbers, stated of sets, along a fold of     *)
(* Step over a sequence, and for a function that Step defines recursively: *)
(* the form in which a proof can instantiate them.  A module that proves   *)
(* something of one of its folds or functions takes this one with INSTANCE *)
(* and the Step of that definition.  All of it rests on the least-element  *)
(* principle of WFMin.                                                     *)
(***************************************************************************)
EXTENDS SequencesExt, WellFoundedInduction, TLAPS

CONSTANT Step(_, _)    \* what a fold does with one element, or a recursion at one index

\* A set of natural numbers that holds 0 and the successor of each of its
\* elements holds them all.
LEMMA SetInduction ==
  ASSUME NEW S \in SUBSET Nat, 0 \in S, \A n \in S : n + 1 \in S
  PROVE  S = Nat
<1>1. SUFFICES ASSUME Nat \ S # {} PROVE FALSE
  OBVIOUS
<1>2. PICK m \in Nat \ S : \A k \in Nat \ S : ~(<<k, m>> \in OpToRel(<, Nat))
  BY <1>1, NatLessThanWellFounded, WFMin
<1>3. m # 0 /\ m - 1 \in Nat
  OBVIOUS
<1>4. m - 1 \in Nat \ S
  BY <1>3
<1>5. <<m - 1, m>> \in OpToRel(<, Nat)
  BY <1>3, <1>4 DEF OpToRel
<1> QED
  BY <1>2, <1>4, <1>5

\* Up to a bound: what holds of 0 and is passed on below n holds up to n.
LEMMA BoundedInduction ==
  ASSUME NEW n \in Nat, NEW S, 0 \in S, \A k \in 0 .. n : k \in S /\ k < n => k + 1 \in S
  PROVE  0 .. n \subseteq S /\ n \in S
<1> DEFINE T == {k \in Nat : k <= n => k \in S}
<1>1. T \in SUBSET Nat /\ 0 \in T
  OBVIOUS
<1>2. \A k \in T : k + 1 \in T
  OBVIOUS
<1>3. T = Nat
  BY <1>1, <1>2, SetInduction
<1> QED
  BY <1>3

\* A set of numbers up to n has a greatest one.
LEMMA Greatest ==
  ASSUME NEW n \in Nat, NEW T \in SUBSET (1 .. n), T # {}
  PROVE  \E m \in T : \A k \in T : k <= m
<1> DEFINE S == {k \in 0 .. n : \A U \in SUBSET (1 .. k) :
                                  U # {} => \E m \in U : \A j \in U : j <= m}
<1>1. 0 \in S
  <2>1. \A U \in SUBSET (1 .. 0) : U = {}
    OBVIOUS
  <2>2. 0 \in 0 .. n
    OBVIOUS
  <2> QED
    BY <2>1, <2>2, Zenon
<1>2. ASSUME NEW k \in 0 .. n, k \in S, k < n PROVE k + 1 \in S
  <2> SUFFICES ASSUME NEW U \in SUBSET (1 .. k + 1), U # {}
               PROVE  \E m \in U : \A j \in U : j <= m
    BY <1>2
  <2>1. CASE k + 1 \in U
    BY <2>1
  <2>2. CASE k + 1 \notin U
    <3>1. U \in SUBSET (1 .. k)
      BY <2>2
    <3> QED
      BY <1>2, <3>1
  <2> QED
    BY <2>1, <2>2
<1>3. n \in S
  <2> HIDE DEF S
  <2>1. 0 .. n \subseteq S
    BY <1>1, <1>2, BoundedInduction
  <2> QED
    BY <2>1
<1> QED
  BY <1>3

LEMMA MaxIsGreatest ==
  ASSUME NEW n \in Nat, NEW T \in SUBSET (1 .. n), T # {}
  PROVE  Max(T) \in T /\ \A k \in T : k <= Max(T)
<1>1. \E m \in T : \A k \in T : k <= m
  BY Greatest
<1> QED
  BY <1>1 DEF Max

LEMMA MaxOfInterval ==
  ASSUME NEW n \in Nat, NEW k \in 1 .. n
  PROVE  Max(1 .. k) = k /\ (1 .. k) \ {k} = 1 .. (k - 1)
<1>1. 1 .. k \in SUBSET (1 .. n) /\ k \in 1 .. k
  OBVIOUS
<1>2. Max(1 .. k) \in 1 .. k /\ \A j \in 1 .. k : j <= Max(1 .. k)
  BY <1>1, MaxIsGreatest
<1> QED
  BY <1>1, <1>2

-----------------------------------------------------------------------------
\* The fold as the community modules have it: a function of the sets of indices
\* that takes the greatest index of a set last.
Fold(base, s) == FoldLeft(Step, base, s)

IsFold(it, n, base, s) ==
  \A x \in SUBSET (1 .. n) :
    it[x] = IF x = {} THEN base ELSE Step(it[x \ {Max(x)}], s[Max(x)])

LEMMA FoldExists ==
  ASSUME NEW V, NEW R, \A v \in V, r \in R : Step(v, r) \in V,
         NEW base \in V, NEW s \in Seq(R)
  PROVE  \E it \in [SUBSET (1 .. Len(s)) -> V] : IsFold(it, Len(s), base, s)
<1> DEFINE n == Len(s)
           Folds(it, k) == IsFold(it, k, base, s)
           S == {k \in 0 .. n : \E it \in [SUBSET (1 .. k) -> V] : Folds(it, k)}
<1>0. n \in Nat /\ \A k \in 1 .. n : s[k] \in R
  OBVIOUS
<1> HIDE DEF n
<1>1. 0 \in S
  <2> DEFINE it == [x \in SUBSET (1 .. 0) |-> base]
  <2>1. 1 .. 0 = {}
    OBVIOUS
  <2>2. it \in [SUBSET (1 .. 0) -> V] /\ \A x \in SUBSET (1 .. 0) : x = {} /\ it[x] = base
    BY <2>1
  <2>3. Folds(it, 0)
    BY <2>2 DEF IsFold
  <2> HIDE DEF it, Folds
  <2>4. \E f \in [SUBSET (1 .. 0) -> V] : Folds(f, 0)
    BY <2>2, <2>3
  <2>5. 0 \in 0 .. n
    BY <1>0
  <2> QED
    BY <2>4, <2>5, Zenon
<1>2. ASSUME NEW k \in 0 .. n, k \in S, k < n PROVE k + 1 \in S
  <2>1. PICK it \in [SUBSET (1 .. k) -> V] : Folds(it, k)
    BY <1>2
  <2> DEFINE new == [x \in SUBSET (1 .. k + 1) |->
                       IF k + 1 \in x THEN Step(it[x \ {k + 1}], s[k + 1]) ELSE it[x]]
  <2>2. \A x \in SUBSET (1 .. k + 1) : x \ {k + 1} \in SUBSET (1 .. k)
    OBVIOUS
  <2>3. new \in [SUBSET (1 .. k + 1) -> V]
    <3> SUFFICES ASSUME NEW x \in SUBSET (1 .. k + 1)
                 PROVE  (IF k + 1 \in x THEN Step(it[x \ {k + 1}], s[k + 1]) ELSE it[x]) \in V
      OBVIOUS
    <3>1. CASE k + 1 \in x
      <4>1. it[x \ {k + 1}] \in V /\ k + 1 \in 1 .. n
        BY <1>0, <1>2, <2>2
      <4> QED
        BY <1>0, <3>1, <4>1
    <3>2. CASE k + 1 \notin x
      <4>1. x \in SUBSET (1 .. k)
        BY <3>2
      <4> QED
        BY <3>2, <4>1
    <3> QED
      BY <3>1, <3>2
  <2>4. ASSUME NEW x \in SUBSET (1 .. k + 1)
        PROVE  new[x] = IF x = {} THEN base ELSE Step(new[x \ {Max(x)}], s[Max(x)])
    <3>1. CASE k + 1 \in x
      <4>1. x \in SUBSET (1 .. k + 1) /\ x # {} /\ k + 1 \in Nat
        BY <3>1
      <4>2. Max(x) \in 1 .. k + 1 /\ \A j \in x : j <= Max(x)
        BY <4>1, MaxIsGreatest
      <4>3. Max(x) = k + 1
        BY <3>1, <4>2
      <4>4. new[x \ {k + 1}] = it[x \ {k + 1}]
        BY <2>2
      <4> QED
        BY <3>1, <4>3, <4>4
    <3>2. CASE k + 1 \notin x
      <4>1. x \in SUBSET (1 .. k) /\ new[x] = it[x]
        BY <3>2
      <4>2. x \ {Max(x)} \in SUBSET (1 .. k + 1) /\ k + 1 \notin x \ {Max(x)}
        BY <3>2
      <4>3. new[x \ {Max(x)}] = it[x \ {Max(x)}]
        BY <4>2
      <4>4. it[x] = IF x = {} THEN base ELSE Step(it[x \ {Max(x)}], s[Max(x)])
        BY <2>1, <4>1 DEF IsFold
      <4> QED
        BY <4>1, <4>3, <4>4
    <3> QED
      BY <3>1, <3>2
  <2>5. Folds(new, k + 1)
    <3> HIDE DEF new
    <3> QED
      BY <2>4 DEF IsFold
  <2> HIDE DEF new, Folds
  <2>6. \E f \in [SUBSET (1 .. k + 1) -> V] : Folds(f, k + 1)
    BY <2>3, <2>5
  <2>7. k + 1 \in 0 .. n
    BY <1>0, <1>2
  <2> QED
    BY <2>6, <2>7, Zenon
<1>3. n \in S
  <2> HIDE DEF S
  <2>1. 0 .. n \subseteq S
    BY <1>0, <1>1, <1>2, BoundedInduction
  <2> QED
    BY <1>0, <2>1
<1> QED
  BY <1>3 DEF n

\* `h` is the values the fold takes on the way, one for each prefix.
IsPath(h, base, s) ==
  /\ h[0] = base /\ h[Len(s)] = Fold(base, s)
  /\ \A k \in 1 .. Len(s) : h[k] = Step(h[k - 1], s[k])

LEMMA FoldPath ==
  ASSUME NEW V, NEW R, \A v \in V, r \in R : Step(v, r) \in V,
         NEW base \in V, NEW s \in Seq(R)
  PROVE  \E h \in [0 .. Len(s) -> V] : IsPath(h, base, s)
<1> DEFINE n == Len(s)
           Eq(F) == F = [x \in SUBSET DOMAIN s |->
                           IF x = {} THEN base ELSE Step(F[x \ {Max(x)}], s[Max(x)])]
           F == CHOOSE F : Eq(F)
           h == [k \in 0 .. n |-> F[1 .. k]]
           S == {k \in 0 .. n : F[1 .. k] \in V}
<1>1. n \in Nat /\ DOMAIN s = 1 .. n /\ \A k \in 1 .. n : s[k] \in R
  OBVIOUS
<1>2. Fold(base, s) = F[DOMAIN s]
  BY Zenon DEF Fold, FoldLeft, MapThenFoldSet
<1>3. Eq(F)
  <2>1. PICK it \in [SUBSET (1 .. n) -> V] : IsFold(it, n, base, s)
    BY FoldExists
  <2>2. Eq(it)
    BY <1>1, <2>1 DEF IsFold
  <2> HIDE DEF Eq
  <2> QED
    BY <2>2
<1> HIDE DEF n, F
<1>4. F[{}] = base
  BY <1>3
<1>5. ASSUME NEW k \in 1 .. n PROVE F[1 .. k] = Step(F[1 .. (k - 1)], s[k])
  <2>1. 1 .. k \subseteq 1 .. n /\ k \in 1 .. k
    BY <1>1
  <2>2. 1 .. k \in SUBSET DOMAIN s /\ 1 .. k # {}
    BY <1>1, <2>1
  <2>3. Max(1 .. k) = k /\ (1 .. k) \ {k} = 1 .. (k - 1)
    BY <1>1, MaxOfInterval
  <2> QED
    BY <1>3, <2>2, <2>3
<1> HIDE DEF Eq
<1>6. 1 .. 0 = {}
  OBVIOUS
<1>7. 0 \in S
  BY <1>1, <1>4, <1>6
<1>8. ASSUME NEW k \in 0 .. n, k \in S, k < n PROVE k + 1 \in S
  <2>1. k + 1 \in 1 .. n /\ k + 1 \in 0 .. n /\ (k + 1) - 1 = k
    BY <1>1, <1>8
  <2>2. F[1 .. k + 1] = Step(F[1 .. k], s[k + 1])
    BY <1>5, <2>1
  <2> QED
    BY <1>1, <1>8, <2>1, <2>2
<1>9. 0 .. n \subseteq S
  <2> HIDE DEF S
  <2> QED
    BY <1>1, <1>7, <1>8, BoundedInduction
<1>10. h \in [0 .. n -> V]
  BY <1>9
<1>11. h[0] = base /\ h[n] = Fold(base, s)
  BY <1>1, <1>2, <1>4, <1>6
<1>12. ASSUME NEW k \in 1 .. n PROVE h[k] = Step(h[k - 1], s[k])
  <2>1. k \in 0 .. n /\ k - 1 \in 0 .. n
    BY <1>1
  <2> QED
    BY <1>5, <2>1
<1> HIDE DEF h
<1>13. IsPath(h, base, s)
  BY <1>11, <1>12 DEF IsPath, n
<1> QED
  BY <1>10, <1>13 DEF n

\* What each prefix of a sequence passes on to the next holds of the whole fold:
\* I[k] is what may have become of the first k elements.
LEMMA FoldInvariant ==
  ASSUME NEW V, NEW R, \A v \in V, r \in R : Step(v, r) \in V,
         NEW base \in V, NEW s \in Seq(R), NEW I, base \in I[0],
         \A k \in 1 .. Len(s) : \A v \in V \cap I[k - 1] : Step(v, s[k]) \in I[k]
  PROVE  Fold(base, s) \in V \cap I[Len(s)]
<1> DEFINE n == Len(s)
<1>1. n \in Nat
  OBVIOUS
<1>2. PICK h \in [0 .. n -> V] : IsPath(h, base, s)
  BY FoldPath
<1> HIDE DEF n
<1> DEFINE S == {k \in 0 .. n : h[k] \in I[k]}
<1>3. 0 \in S
  BY <1>1, <1>2 DEF IsPath
<1>4. ASSUME NEW k \in 0 .. n, k \in S, k < n PROVE k + 1 \in S
  <2>1. k + 1 \in 1 .. n /\ k + 1 \in 0 .. n /\ (k + 1) - 1 = k /\ h[k] \in V \cap I[k]
    BY <1>1, <1>4
  <2>2. h[k + 1] = Step(h[k], s[k + 1])
    BY <1>2, <2>1 DEF IsPath, n
  <2>3. Step(h[k], s[k + 1]) \in I[k + 1]
    BY <2>1 DEF n
  <2> QED
    BY <2>1, <2>2, <2>3
<1>5. n \in S
  <2> HIDE DEF S
  <2> QED
    BY <1>1, <1>3, <1>4, BoundedInduction
<1> QED
  BY <1>1, <1>2, <1>5 DEF IsPath, n

\* A fold over no elements, and over one more.
LEMMA FoldEmpty == ASSUME NEW base PROVE Fold(base, <<>>) = base
<1>1. <<>> \in Seq({}) /\ Len(<<>>) = 0
  OBVIOUS
<1>2. base \in {base} /\ \A v \in {base}, r \in {} : Step(v, r) \in {base}
  OBVIOUS
<1>3. PICK h \in [0 .. Len(<<>>) -> {base}] : IsPath(h, base, <<>>)
  BY <1>1, <1>2, FoldPath
<1> QED
  BY <1>1, <1>3 DEF IsPath

Appended(t, s, e) == t = Append(s, e)
Closed(V, R)      == \A v \in V, r \in R : Step(v, r) \in V

LEMMA FoldAppend ==
  ASSUME NEW V, NEW R, Closed(V, R),
         NEW base \in V, NEW s \in Seq(R), NEW e \in R, NEW t, Appended(t, s, e)
  PROVE  Fold(base, s) \in V /\ Fold(base, t) = Step(Fold(base, s), e)
<1> DEFINE n == Len(s)
<1>1. n \in Nat /\ t \in Seq(R) /\ Len(t) = n + 1 /\ t[n + 1] = e
      /\ \A k \in 1 .. n : t[k] = s[k]
  BY DEF Appended
<1> \A v \in V, r \in R : Step(v, r) \in V
  BY DEF Closed
<1>2. PICK h \in [0 .. n -> V] : IsPath(h, base, s)
  BY FoldPath
<1>3. PICK g \in [0 .. Len(t) -> V] : IsPath(g, base, t)
  BY <1>1, FoldPath
<1> HIDE DEF n
<1> DEFINE S == {k \in 0 .. n : g[k] = h[k]}
<1>4. 0 \in S
  BY <1>1, <1>2, <1>3 DEF IsPath
<1>5. ASSUME NEW k \in 0 .. n, k \in S, k < n PROVE k + 1 \in S
  <2>1. k + 1 \in 1 .. n /\ k + 1 \in 1 .. n + 1 /\ k + 1 \in 0 .. n /\ (k + 1) - 1 = k
    BY <1>1, <1>5
  <2>2. t[k + 1] = s[k + 1] /\ k + 1 \in 1 .. Len(t)
    BY <1>1, <2>1
  <2>3. h[k + 1] = Step(h[k], s[k + 1]) /\ g[k + 1] = Step(g[k], s[k + 1])
    BY <1>2, <1>3, <2>1, <2>2 DEF IsPath, n
  <2> QED
    BY <1>5, <2>1, <2>3
<1>6. n \in S
  <2> HIDE DEF S
  <2> QED
    BY <1>1, <1>4, <1>5, BoundedInduction
<1>7. h[n] = Fold(base, s) /\ h[n] \in V
  BY <1>1, <1>2 DEF IsPath, n
<1>8. g[n + 1] = Fold(base, t) /\ g[n + 1] = Step(g[n], e)
  <2>1. n + 1 \in 1 .. Len(t) /\ (n + 1) - 1 = n
    BY <1>1
  <2> QED
    BY <1>1, <1>3, <2>1 DEF IsPath
<1> QED
  BY <1>6, <1>7, <1>8

-----------------------------------------------------------------------------
\* A function on the natural numbers can be defined by what it is at 0 and how
\* Step takes each of its values to the next.
IsRecursive(p, base) == p[0] = base /\ \A n \in Nat : p[n + 1] = Step(p[n], n)

LEMMA RecursionExists ==
  ASSUME NEW V, NEW base \in V, \A v \in V, n \in Nat : Step(v, n) \in V
  PROVE  \E p \in [Nat -> V] : IsRecursive(p, base)
<1> DEFINE Part(h, n) == /\ h \in [0 .. n -> V] /\ h[0] = base
                         /\ \A k \in 1 .. n : h[k] = Step(h[k - 1], k - 1)
           S == {n \in Nat : \E h \in [0 .. n -> V] : Part(h, n)}
           part(n) == CHOOSE h : Part(h, n)
           p == [n \in Nat |-> part(n)[n]]
<1>1. 0 \in S
  <2>1. [k \in 0 .. 0 |-> base] \in [0 .. 0 -> V] /\ Part([k \in 0 .. 0 |-> base], 0)
    OBVIOUS
  <2> HIDE DEF Part
  <2> QED
    BY <2>1
<1>2. ASSUME NEW n \in S PROVE n + 1 \in S
  <2>1. n \in Nat /\ \E h \in [0 .. n -> V] : Part(h, n)
    OBVIOUS
  <2>2. PICK h \in [0 .. n -> V] : Part(h, n)
    BY <2>1
  <2> DEFINE g == [k \in 0 .. n + 1 |-> IF k <= n THEN h[k] ELSE Step(h[n], n)]
  <2>3. g \in [0 .. n + 1 -> V]
    BY <2>1, <2>2
  <2>4. ASSUME NEW k \in 1 .. n + 1 PROVE g[k] = Step(g[k - 1], k - 1)
    <3>1. k \in 0 .. n + 1 /\ k - 1 \in 0 .. n /\ k - 1 \in 0 .. n + 1
      BY <2>1
    <3>2. CASE k <= n
      <4>1. k \in 1 .. n
        BY <3>1, <3>2
      <4> QED
        BY <2>1, <2>2, <3>1, <3>2, <4>1
    <3>3. CASE k > n
      <4>1. k - 1 = n
        BY <2>1, <3>1, <3>3
      <4> QED
        BY <2>1, <3>1, <3>3, <4>1
    <3> QED
      BY <2>1, <3>1, <3>2, <3>3
  <2>5. g[0] = base
    BY <2>1, <2>2
  <2>6. Part(g, n + 1)
    <3> HIDE DEF g
    <3> QED
      BY <2>3, <2>4, <2>5
  <2> HIDE DEF Part, g
  <2>7. \E f \in [0 .. n + 1 -> V] : Part(f, n + 1)
    BY <2>3, <2>6
  <2>8. n + 1 \in Nat
    BY <2>1
  <2> QED
    BY <2>7, <2>8, Zenon
<1>3. S = Nat
  <2> HIDE DEF S
  <2>1. S \in SUBSET Nat
    BY DEF S
  <2> QED
    BY <1>1, <1>2, <2>1, SetInduction
<1>4. \A n \in Nat : Part(part(n), n)
  <2> HIDE DEF Part
  <2> QED
    BY <1>3, Zenon
<1> HIDE DEF S, part
\* The part up to n + 1 extends the part up to n.
<1>5. ASSUME NEW n \in Nat PROVE part(n + 1)[n] = part(n)[n]
  <2> DEFINE h == part(n)
             g == part(n + 1)
             T == {k \in 0 .. n : g[k] = h[k]}
  <2>1. Part(h, n) /\ Part(g, n + 1)
    BY <1>4
  <2> HIDE DEF h, g
  <2>2. 0 \in T
    BY <2>1
  <2>3. ASSUME NEW k \in 0 .. n, k \in T, k < n PROVE k + 1 \in T
    <3>1. k + 1 \in 1 .. n /\ k + 1 \in 1 .. n + 1 /\ (k + 1) - 1 = k
      BY <2>3
    <3>2. g[k + 1] = Step(g[k], k) /\ h[k + 1] = Step(h[k], k)
      BY <2>1, <3>1
    <3> QED
      BY <2>3, <3>1, <3>2
  <2>4. n \in T
    <3> HIDE DEF T
    <3> QED
      BY <2>2, <2>3, BoundedInduction
  <2> QED
    BY <2>4 DEF h, g
<1>6. p \in [Nat -> V]
  <2>1. \A n \in Nat : part(n)[n] \in V
    BY <1>4
  <2> QED
    BY <2>1
<1>7. p[0] = base
  BY <1>4
<1>8. ASSUME NEW n \in Nat PROVE p[n + 1] = Step(p[n], n)
  <2>1. n + 1 \in Nat /\ n + 1 \in 1 .. n + 1 /\ (n + 1) - 1 = n
    OBVIOUS
  <2>2. part(n + 1)[n + 1] = Step(part(n + 1)[n], n)
    BY <1>4, <2>1
  <2> QED
    BY <1>5, <2>1, <2>2
<1> HIDE DEF p
<1>9. IsRecursive(p, base)
  BY <1>7, <1>8 DEF IsRecursive
<1> QED
  BY <1>6, <1>9
=============================================================================
