------------------------------ MODULE Induction ------------------------------
(***************************************************************************)
(* Induction and recursion as statements about sets and functions, for     *)
(* proofs about folds: the induction theorems of the library range over    *)
(* operators, which the provers do not instantiate.  A predicate P is      *)
(* proved by induction through the set of numbers that satisfy it, and a   *)
(* step of a recursion is a function on a set that holds every             *)
(* intermediate result.                                                    *)
(***************************************************************************)
EXTENDS Integers, Sequences, FiniteSets, SequencesExt, WellFoundedInduction,
        SequenceTheorems, FiniteSetTheorems, FunctionTheorems, Sorting, TLAPS

CONSTANT Op(_, _, _)     \* what a fold does: a context, what it has so far, an element

\* A set of numbers that is not empty has a least element.
LEMMA LeastNumber ==
    ASSUME NEW T \in SUBSET Nat, T # {}
    PROVE  \E m \in T : \A k \in T : m <= k
  <1>1. \A R, S : IsWellFoundedOn(R, S) =>
          \A U : U \subseteq S /\ U # {} => \E x \in U : \A y \in U : ~(<<y, x>> \in R)
    BY WFMin
  <1>2. IsWellFoundedOn(OpToRel(<, Nat), Nat)
    BY NatLessThanWellFounded
  <1>3. \E x \in T : \A y \in T : ~(<<y, x>> \in OpToRel(<, Nat))
    BY <1>1, <1>2
  <1>4. \A x, y \in Nat : y < x => <<y, x>> \in OpToRel(<, Nat)
    BY DEF OpToRel
  <1>5. \E x \in T : \A y \in T : ~(y < x)
    BY <1>3, <1>4, Zenon
  <1> QED
    BY <1>5

\* Induction up to a bound.
LEMMA UpTo ==
    ASSUME NEW m \in Nat, NEW S, 0 \in S,
           \A n \in 1..m : n - 1 \in S => n \in S
    PROVE  0..m \subseteq S
  <1> SUFFICES ASSUME (0..m) \ S # {} PROVE FALSE
    OBVIOUS
  <1>0. (0..m) \ S \in SUBSET Nat
    OBVIOUS
  <1>1. PICK k \in (0..m) \ S : \A j \in (0..m) \ S : k <= j
    BY <1>0, LeastNumber
  <1>2. k \in 1..m /\ k - 1 \in 0..m
    BY <1>1
  <1>3. k - 1 \in S
    BY <1>1, <1>2
  <1> QED
    BY <1>1, <1>2, <1>3

\* Induction from a bound downwards.
LEMMA DownFrom ==
    ASSUME NEW m \in Nat, NEW S, m \in S,
           \A n \in 1..m : n \in S => n - 1 \in S
    PROVE  0..m \subseteq S
  <1> DEFINE T == {k \in 0..m : m - k \in S}
  <1>1. 0 \in T /\ \A n \in 1..m : n - 1 \in T => n \in T
    <2>1. m - 0 = m /\ 0 \in 0..m
      OBVIOUS
    <2>2. ASSUME NEW n \in 1..m, n - 1 \in T PROVE n \in T
      <3>1. m - (n - 1) \in S /\ m - (n - 1) \in 1..m /\ m - (n - 1) - 1 = m - n
        BY <2>2
      <3> QED BY <3>1
    <2> QED BY <2>1, <2>2
  <1>2. 0..m \subseteq T
    <2> HIDE DEF T
    <2> QED BY <1>1, UpTo
  <1>3. ASSUME NEW k \in 0..m PROVE k \in S
    <2>1. m - k \in T /\ m - (m - k) = k
      BY <1>2
    <2> QED BY <2>1
  <1> QED
    BY <1>3

\* The greatest element of a set of numbers with a bound.
LEMMA MaxOf ==
    ASSUME NEW m \in Nat, NEW s \in SUBSET (1..m), s # {}
    PROVE  Max(s) \in s /\ \A x \in s : x <= Max(s)
  <1> DEFINE T == {k \in Nat : m - k \in s}
  <1>1. T # {}
    <2>1. PICK x \in s : TRUE
      OBVIOUS
    <2>2. m - x \in Nat /\ m - (m - x) = x
      OBVIOUS
    <2> QED BY <2>1, <2>2
  <1>2. PICK k \in T : \A j \in T : k <= j
    <2> HIDE DEF T
    <2>1. T \in SUBSET Nat
      BY DEF T
    <2> QED BY <1>1, <2>1, LeastNumber
  <1>3. \A x \in s : m - k >= x
    <2>1. ASSUME NEW x \in s PROVE m - x \in T
      <3>1. m - x \in Nat /\ m - (m - x) = x
        OBVIOUS
      <3> QED BY <3>1
    <2>2. ASSUME NEW x \in s PROVE m - k >= x
      <3>1. k <= m - x /\ k \in Nat /\ x \in Nat
        BY <1>2, <2>1
      <3> QED BY <3>1
    <2> QED BY <2>2
  <1>4. \E y \in s : \A x \in s : y >= x
    BY <1>2, <1>3
  <1> QED
    BY <1>4 DEF Max

\* The steps of a recursion over 0..m with values in S.  (The provers find an instance of
\* the lemmas below by this definition, unexpanded.)
IsStep(step, m, S) == step \in [1..m -> [S -> S]]
IsFamily(ss, m, C) == ss \in [1..m -> Seq(C)]

\* A recursion over 0..m whose step stays in a set has a solution.
LEMMA Recursion ==
    ASSUME NEW S, NEW base \in S, NEW m \in Nat, NEW step, IsStep(step, m, S)
    PROVE  \E f \in [0..m -> S] :
             f[0] = base /\ \A n \in 1..m : f[n] = step[n][f[n - 1]]
  <1> DEFINE Solves(f, k) == /\ f \in [0..k -> S] /\ f[0] = base
                             /\ \A n \in 1..k : f[n] = step[n][f[n - 1]]
             T == {k \in 0..m : \E f : Solves(f, k)}
  <1>1. 0 \in T
    <2>1. Solves([n \in 0..0 |-> base], 0)
      OBVIOUS
    <2> HIDE DEF Solves
    <2> QED BY <2>1
  <1>2. ASSUME NEW k \in 1..m, k - 1 \in T PROVE k \in T
    <2>1. PICK f : Solves(f, k - 1)
      BY <1>2
    <2> DEFINE g == [n \in 0..k |-> IF n = k THEN step[k][f[k - 1]] ELSE f[n]]
    <2>2. f[k - 1] \in S
      BY <2>1
    <2>3. g \in [0..k -> S]
      BY <2>1, <2>2 DEF IsStep
    <2>4. \A n \in 1..k : g[n] = step[n][g[n - 1]]
      BY <2>1
    <2>5. g[0] = base
      BY <2>1
    <2>6. Solves(g, k)
      BY <2>3, <2>4, <2>5
    <2> HIDE DEF Solves, g
    <2> QED BY <2>6
  <1>3. m \in T
    <2> HIDE DEF T
    <2>1. 0..m \subseteq T
      BY <1>1, <1>2, UpTo
    <2> QED BY <2>1
  <1> QED
    BY <1>3

\* The greatest element of a whole interval, which the fold of a sequence takes off.
LEMMA MaxOfInterval ==
    ASSUME NEW k \in Nat \ {0}
    PROVE  Max(1..k) = k /\ (1..k) \ {k} = 1..(k - 1) /\ 1..k # {}
  <1>1. 1..k # {} /\ k \in 1..k /\ (1..k) \ {k} = 1..(k - 1) /\ 1..k \in SUBSET (1..k)
    OBVIOUS
  <1>2. Max(1..k) \in 1..k /\ k <= Max(1..k)
    BY <1>1, MaxOf
  <1> QED
    BY <1>1, <1>2

FoldOf(ctx, base, seq) == FoldLeft(LAMBDA a, x : Op(ctx, a, x), base, seq)

\* The intermediate results of a fold over the first m elements.
Unrolled(f, ctx, base, seq, m) ==
    f[0] = base /\ \A k \in 1..m : f[k] = Op(ctx, f[k - 1], seq[k])

\* A fold from the left is the last of its intermediate results, whatever it does and
\* whatever context it does it in.
LEMMA FoldUnrolled ==
    ASSUME NEW ctx, NEW base, NEW seq, NEW m \in Nat, DOMAIN seq = 1..m
    PROVE  \E f : Unrolled(f, ctx, base, seq, m) /\ FoldOf(ctx, base, seq) = f[m]
  <1> DEFINE Is(f, k) == f = [s \in SUBSET (1..k) |->
                           IF s = {} THEN base
                           ELSE LET x == Max(s) IN Op(ctx, f[s \ {x}], seq[x])]
             T == {k \in 0..m : \E f : Is(f, k)}
             fold == CHOOSE f : Is(f, m)
  <1>1. 0 \in T
    <2>1. Is([s \in SUBSET (1..0) |-> base], 0)
      OBVIOUS
    <2> HIDE DEF Is
    <2> QED BY <2>1
  <1>2. ASSUME NEW k \in 1..m, k - 1 \in T PROVE k \in T
    <2>1. PICK f : Is(f, k - 1)
      BY <1>2
    <2> DEFINE g == [s \in SUBSET (1..k) |->
                      IF k \in s THEN Op(ctx, f[s \ {k}], seq[k]) ELSE f[s]]
    <2>2. DOMAIN f = SUBSET (1..(k - 1)) /\
          \A s \in SUBSET (1..(k - 1)) : f[s] = IF s = {} THEN base ELSE Op(ctx, f[s \ {Max(s)}], seq[Max(s)])
      BY <2>1
    <2>3. ASSUME NEW s \in SUBSET (1..k)
          PROVE  g[s] = IF s = {} THEN base ELSE Op(ctx, g[s \ {Max(s)}], seq[Max(s)])
      <3>0. k \in Nat
        OBVIOUS
      <3>1. s # {} => Max(s) \in s /\ \A x \in s : x <= Max(s)
        BY <3>0, MaxOf
      <3>2. CASE k \in s
        <4>1. Max(s) = k
          <5>1. Max(s) \in 1..k /\ k <= Max(s)
            BY <3>1, <3>2
          <5> QED BY <5>1
        <4>2. g[s \ {k}] = f[s \ {k}] /\ g[s] = Op(ctx, f[s \ {k}], seq[k])
          BY <3>2
        <4> QED BY <3>2, <4>1, <4>2
      <3>3. CASE k \notin s
        <4>1. s \in SUBSET (1..(k - 1)) /\ g[s] = f[s]
          <5>1. \A x \in s : x \in 1..(k - 1)
            BY <3>3
          <5> QED BY <3>3, <5>1
        <4>2. s # {} => g[s \ {Max(s)}] = f[s \ {Max(s)}]
          BY <3>3
        <4> HIDE DEF g
        <4> QED BY <2>2, <4>1, <4>2
      <3> QED BY <3>2, <3>3
    <2>4. Is(g, k)
      <3>1. g = [s \in SUBSET (1..k) |-> g[s]]
        OBVIOUS
      <3> HIDE DEF g
      <3> QED BY <2>3, <3>1
    <2> HIDE DEF Is, g
    <2> QED BY <2>4
  <1>3. Is(fold, m)
    <2>1. m \in T
      <3> HIDE DEF T
      <3>1. 0..m \subseteq T
        BY <1>1, <1>2, UpTo
      <3> QED BY <3>1
    <2> HIDE DEF Is
    <2> QED BY <2>1
  <1>4. \A s \in SUBSET (1..m) :
          fold[s] = IF s = {} THEN base ELSE Op(ctx, fold[s \ {Max(s)}], seq[Max(s)])
    <2> HIDE DEF fold
    <2> QED BY <1>3
  <1>5. FoldOf(ctx, base, seq) = fold[1..m]
    BY Zenon DEF FoldOf, FoldLeft, MapThenFoldSet
  <1> DEFINE f == [k \in 0..m |-> fold[1..k]]
  <1>6. f[0] = base /\ f[m] = fold[1..m]
    <2> HIDE DEF fold
    <2>1. 1..0 = {} /\ {} \in SUBSET (1..m) /\ 0 \in 0..m /\ m \in 0..m
      OBVIOUS
    <2>2. fold[{}] = base
      BY <1>4, <2>1
    <2>3. f[0] = fold[1..0] /\ f[m] = fold[1..m]
      BY <2>1
    <2> QED BY <2>1, <2>2, <2>3
  <1>7. ASSUME NEW k \in 1..m PROVE f[k] = Op(ctx, f[k - 1], seq[k])
    <2>1. k \in Nat \ {0}
      OBVIOUS
    <2> DEFINE all == 1..k
    <2>2. Max(all) = k /\ all \ {k} = 1..(k - 1) /\ all # {}
      BY <2>1, MaxOfInterval
    <2>3. all \in SUBSET (1..m) /\ k - 1 \in 0..m
      OBVIOUS
    <2>4. f[k] = fold[all] /\ f[k - 1] = fold[1..(k - 1)]
      BY <2>3
    <2> HIDE DEF fold, all, f
    <2> QED BY <1>4, <2>2, <2>3, <2>4
  <1> HIDE DEF f, fold
  <1>8. Unrolled(f, ctx, base, seq, m)
    BY <1>6, <1>7 DEF Unrolled
  <1> QED
    BY <1>5, <1>6, <1>8

\* The concatenations of the first elements of a family of sequences.
ArePrefixes(P, ss, m, C) ==
    /\ P \in [0..m -> Seq(C)]
    /\ P[0] = <<>> /\ \A k \in 1..m : P[k] = P[k - 1] \o ss[k]

LEMMA Concatenations ==
    ASSUME NEW C, NEW m \in Nat, NEW ss, IsFamily(ss, m, C)
    PROVE  \E P : ArePrefixes(P, ss, m, C)
  <1> DEFINE S == Seq(C)
             empty == <<>>
             step == [k \in 1..m |-> [a \in S |-> a \o ss[k]]]
  <1>1. empty \in S
    OBVIOUS
  <1>2. IsStep(step, m, S)
    <2>1. \A k \in 1..m, a \in S : a \o ss[k] \in S
      BY DEF IsFamily
    <2> HIDE DEF S
    <2> QED BY <2>1 DEF IsStep
  <1>3. \E P \in [0..m -> S] : P[0] = empty /\ \A k \in 1..m : P[k] = step[k][P[k - 1]]
    <2> HIDE DEF S, empty, step
    <2> QED BY <1>1, <1>2, Recursion
  <1>4. PICK P \in [0..m -> S] : P[0] = empty /\ \A k \in 1..m : P[k] = step[k][P[k - 1]]
    BY <1>3
  <1>5. ASSUME NEW k \in 1..m PROVE P[k] = P[k - 1] \o ss[k]
    <2> HIDE DEF S
    <2>1. P[k - 1] \in S
      BY <1>4
    <2> QED BY <1>4, <2>1
  <1> QED
    BY <1>4, <1>5 DEF ArePrefixes

\* A flattened sequence is the last of its prefixes, each one longer by one element.
LEMMA FlattenPrefixes ==
    ASSUME NEW C, NEW ss \in Seq(Seq(C))
    PROVE  \E P : ArePrefixes(P, ss, Len(ss), C) /\ FlattenSeq(ss) = P[Len(ss)]
  <1> DEFINE m == Len(ss)
  <1>1. m \in Nat /\ IsFamily(ss, m, C) /\ \A k \in 1..m : ss[k] \in Seq(C)
    BY DEF IsFamily
  <1>2. PICK P : ArePrefixes(P, ss, m, C)
    BY <1>1, Concatenations
  <1>3. P \in [0..m -> Seq(C)] /\ P[0] = <<>>
    BY <1>2 DEF ArePrefixes
  <1>4. \A k \in 1..m : P[k] = P[k - 1] \o ss[k]
    BY <1>2 DEF ArePrefixes
  <1>5. FlattenSeq(ss) = P[m]
    <2>1. CASE m = 0
      <3>1. ss = <<>>
        BY <2>1
      <3> QED BY <1>3, <2>1, <3>1 DEF FlattenSeq
    <2>2. CASE m # 0
      <3> DEFINE Is(f) == f = [i \in 1..m |-> IF i = 1 THEN ss[i] ELSE f[i - 1] \o ss[i]]
                 flatten == CHOOSE f : Is(f)
                 T == {k \in 0..m : k = 0 \/ flatten[k] = P[k]}
      <3>1. Is([i \in 1..m |-> P[i]])
        <4>1. \A i \in 1..m : P[i] = IF i = 1 THEN ss[i] ELSE [j \in 1..m |-> P[j]][i - 1] \o ss[i]
          <5>1. m \in Nat /\ 1 \in 1..m /\ 1 - 1 = 0
            BY <1>1, <2>2
          <5>2. P[1] = ss[1]
            <6>1. P[1] = <<>> \o ss[1] /\ ss[1] \in Seq(C)
              BY <1>1, <1>3, <1>4, <5>1
            <6> QED BY <6>1
          <5>3. \A i \in 1..m : i # 1 => i - 1 \in 1..m
            BY <1>1
          <5> QED BY <1>4, <2>2, <5>2, <5>3
        <4> HIDE DEF m
        <4> QED BY <4>1
      <3>2. Is(flatten)
        <4> HIDE DEF Is
        <4> QED BY <3>1
      <3>3. FlattenSeq(ss) = flatten[m]
        BY <2>2 DEF FlattenSeq
      <3>4. \A i \in 1..m : flatten[i] = IF i = 1 THEN ss[i] ELSE flatten[i - 1] \o ss[i]
        <4> HIDE DEF flatten, m
        <4> QED BY <3>2
      <3>5. 0 \in T /\ \A k \in 1..m : k - 1 \in T => k \in T
        <4>1. 0 \in T
          BY <1>1
        <4>2. ASSUME NEW k \in 1..m, k - 1 \in T PROVE k \in T
          <5>1. CASE k = 1
            <6>1. P[1] = P[1 - 1] \o ss[1] /\ ss[1] \in Seq(C)
              BY <1>1, <1>4, <5>1
            <6>2. flatten[1] = ss[1] /\ P[1 - 1] = <<>>
              <7>1. 1 \in 1..m /\ 1 - 1 = 0
                BY <1>1, <5>1
              <7> HIDE DEF flatten, m
              <7> QED BY <1>3, <3>4, <7>1
            <6> HIDE DEF flatten
            <6> QED BY <5>1, <6>1, <6>2
          <5>2. CASE k # 1
            <6>1. flatten[k] = flatten[k - 1] \o ss[k] /\ P[k] = P[k - 1] \o ss[k]
              BY <1>4, <3>4, <5>2
            <6>2. flatten[k - 1] = P[k - 1]
              BY <4>2, <5>2
            <6>3. flatten[k] = P[k] /\ k \in 0..m
              <7> HIDE DEF flatten, m, T
              <7> QED BY <1>1, <6>1, <6>2
            <6> HIDE DEF flatten, m
            <6> QED BY <6>3
          <5> QED BY <5>1, <5>2
        <4> QED BY <4>1, <4>2
      <3>6. m \in T
        <4> HIDE DEF T, m
        <4>1. 0..m \subseteq T
          BY <1>1, <3>5, UpTo
        <4> QED BY <1>1, <4>1
      <3> HIDE DEF flatten
      <3> QED BY <2>2, <3>3, <3>6
    <2> QED BY <2>1, <2>2
  <1> QED
    BY <1>2, <1>5

\* A flattened sequence of sequences is a sequence of their elements.
LEMMA FlattenType ==
    ASSUME NEW C, NEW ss \in Seq(Seq(C))
    PROVE  FlattenSeq(ss) \in Seq(C)
  <1>1. PICK P : ArePrefixes(P, ss, Len(ss), C) /\ FlattenSeq(ss) = P[Len(ss)]
    BY FlattenPrefixes
  <1>2. Len(ss) \in 0..Len(ss)
    OBVIOUS
  <1> QED
    BY <1>1, <1>2 DEF ArePrefixes

\* Flattening the cells of a text, each one for itself, gives the text.
LEMMA FlattenSingletons ==
    ASSUME NEW C, NEW text \in Seq(C)
    PROVE  FlattenSeq([i \in DOMAIN text |-> <<text[i]>>]) = text
  <1> DEFINE ss == [i \in DOMAIN text |-> <<text[i]>>]
             n == Len(text)
  <1>1. ss \in Seq(Seq(C)) /\ Len(ss) = n /\ n \in Nat /\ DOMAIN text = 1..n
    <2>1. \A i \in 1..n : <<text[i]>> \in Seq(C)
      OBVIOUS
    <2>2. ss \in [1..n -> Seq(C)] /\ n \in Nat
      BY <2>1
    <2> QED BY <2>2
  <1>2. PICK P : ArePrefixes(P, ss, n, C) /\ FlattenSeq(ss) = P[n]
    <2> HIDE DEF ss
    <2> QED BY <1>1, FlattenPrefixes
  <1> DEFINE T == {k \in 0..n : P[k] = SubSeq(text, 1, k)}
  <1>3. 0 \in T
    BY <1>1, <1>2 DEF ArePrefixes
  <1>4. ASSUME NEW k \in 1..n, k - 1 \in T PROVE k \in T
    <2>1. P[k] = P[k - 1] \o <<text[k]>>
      <3>1. P[k] = P[k - 1] \o ss[k]
        BY <1>2 DEF ArePrefixes
      <3> QED BY <1>1, <3>1
    <2>2. P[k] = SubSeq(text, 1, k - 1) \o <<text[k]>>
      BY <1>4, <2>1
    <2>3. SubSeq(text, 1, k - 1) \o <<text[k]>> = SubSeq(text, 1, k)
      OBVIOUS
    <2> QED BY <2>2, <2>3
  <1>5. n \in T
    <2> HIDE DEF T, n
    <2>1. 0..n \subseteq T
      BY <1>1, <1>3, <1>4, UpTo
    <2> QED BY <1>1, <2>1
  <1>6. SubSeq(text, 1, n) = text
    OBVIOUS
  <1> QED
    BY <1>2, <1>5, <1>6

\* What is in one of the sequences is in the flattened one.
LEMMA FlattenElements ==
    ASSUME NEW C, NEW ss \in Seq(Seq(C)), NEW i \in DOMAIN ss, NEW j \in DOMAIN ss[i]
    PROVE  \E q \in DOMAIN FlattenSeq(ss) : FlattenSeq(ss)[q] = ss[i][j]
  <1> DEFINE m == Len(ss)
             cell == ss[i][j]
             Has(s) == \E q \in DOMAIN s : s[q] = cell
  <1>1. PICK P : ArePrefixes(P, ss, m, C) /\ FlattenSeq(ss) = P[m]
    BY FlattenPrefixes
  <1>2. m \in Nat /\ i \in 1..m /\ \A k \in 1..m : ss[k] \in Seq(C)
    OBVIOUS
  <1> DEFINE T == {k \in 0..m : k < i \/ Has(P[k])}
  <1>3. 0 \in T
    BY <1>2
  <1>4. ASSUME NEW k \in 1..m, k - 1 \in T PROVE k \in T
    <2> DEFINE before == P[k - 1]
               last == ss[k]
    <2>1. before \in Seq(C) /\ last \in Seq(C) /\ P[k] = before \o last
      <3>1. k - 1 \in 0..m
        BY <1>2
      <3> QED BY <1>1, <1>2, <3>1 DEF ArePrefixes
    <2>2. \A q \in DOMAIN before : q \in DOMAIN P[k] /\ P[k][q] = before[q]
      <3> HIDE DEF before, last
      <3> QED BY <2>1
    <2>3. \A q \in DOMAIN last : Len(before) + q \in DOMAIN P[k] /\ P[k][Len(before) + q] = last[q]
      <3> HIDE DEF before, last
      <3> QED BY <2>1
    <2>4. CASE k < i
      BY <2>4
    <2>5. CASE k = i
      <3>1. Has(last) /\ k \in 0..m
        BY <2>5
      <3> HIDE DEF before, last, cell
      <3> QED BY <2>3, <3>1
    <2>6. CASE k > i
      <3>1. Has(before) /\ k \in 0..m
        BY <1>2, <1>4, <2>6
      <3> HIDE DEF before, last, cell
      <3> QED BY <2>2, <3>1
    <2> QED BY <1>2, <2>4, <2>5, <2>6
  <1>5. m \in T
    <2> HIDE DEF T, m
    <2>1. 0..m \subseteq T
      BY <1>2, <1>3, <1>4, UpTo
    <2> QED BY <1>2, <2>1
  <1> QED
    BY <1>1, <1>2, <1>5

----------------------------------------------------------------------------
(* Replacing elements of a sequence by sequences.                          *)

\* Facts about sequences, for all of them.
Associate(s, t, u) == (s \o t) \o u = s \o (t \o u)
LEMMA Associates ==
    ASSUME NEW C, NEW s \in Seq(C), NEW t \in Seq(C), NEW u \in Seq(C)
    PROVE  Associate(s, t, u)
  BY DEF Associate

LEMMA Joining ==
    \A C : \A s, t, u \in Seq(C) : 
      /\ s \o t \in Seq(C) /\ (s \o t) \o u = s \o (t \o u)
      /\ SubSeq(s \o t, 1, Len(s)) = s /\ SubSeq(s \o t, Len(s) + 1, Len(s \o t)) = t
      /\ \A q \in 1..Len(s) : SubSeq(s \o t, 1, q - 1) = SubSeq(s, 1, q - 1)
  <1> TAKE C
  <1> TAKE s, t, u \in Seq(C)
  <1>1. s \o t \in Seq(C) /\ (s \o t) \o u = s \o (t \o u)
    OBVIOUS
  <1>2. SubSeq(s \o t, 1, Len(s)) = s
    OBVIOUS
  <1>3. SubSeq(s \o t, Len(s) + 1, Len(s \o t)) = t
    OBVIOUS
  <1>4. \A q \in 1..Len(s) : SubSeq(s \o t, 1, q - 1) = SubSeq(s, 1, q - 1)
    OBVIOUS
  <1> QED
    BY <1>1, <1>2, <1>3, <1>4

LEMMA Initial ==
    ASSUME NEW C, NEW text \in Seq(C), NEW q \in 1..Len(text)
    PROVE  /\ SubSeq(text, 1, q - 1) \in Seq(C) /\ SubSeq(text, 1, q) \in Seq(C)
           /\ Len(SubSeq(text, 1, q)) = q /\ <<text[q]>> \in Seq(C)
           /\ SubSeq(text, 1, q) = SubSeq(text, 1, q - 1) \o <<text[q]>>
           /\ SubSeq(SubSeq(text, 1, q), 1, q - 1) = SubSeq(text, 1, q - 1)
  OBVIOUS

\* Whether what follows the first q elements is done: there is a rest that completes both.
Done(val, q, text, P, C) ==
    \E rest \in Seq(C) : /\ val = SubSeq(text, 1, q) \o rest
                         /\ P[Len(text)] = P[q] \o rest

LEMMA Prefix ==
    ASSUME NEW C, NEW n \in Nat, NEW V, NEW P, ArePrefixes(P, V, n, C), NEW q \in 1..n
    PROVE  P[q - 1] \in Seq(C) /\ P[q] = P[q - 1] \o V[q]
  <1>1. q - 1 \in 0..n
    OBVIOUS
  <1> QED
    BY <1>1 DEF ArePrefixes

\* An element that is kept or replaced may be counted as done.
LEMMA DoneStep ==
    ASSUME NEW C, NEW text \in Seq(C), NEW V, NEW P, ArePrefixes(P, V, Len(text), C),
           NEW q \in 1..Len(text), V[q] \in Seq(C), NEW val, Done(val, q, text, P, C)
    PROVE  /\ V[q] = <<text[q]>> => Done(val, q - 1, text, P, C)
           /\ Done(SubSeq(val, 1, q - 1) \o V[q] \o SubSeq(val, q + 1, Len(val)),
                   q - 1, text, P, C)
  <1> DEFINE n == Len(text)
             upto == SubSeq(text, 1, q)
             before == SubSeq(text, 1, q - 1)
             pre == P[q - 1]
             mid == V[q]
  <1>1. PICK rest \in Seq(C) : val = upto \o rest /\ P[n] = P[q] \o rest
    BY DEF Done
  <1>2. pre \in Seq(C) /\ P[q] = pre \o mid /\ mid \in Seq(C)
    <2>1. q - 1 \in 0..n
      OBVIOUS
    <2> QED BY <2>1 DEF ArePrefixes
  <1>3. /\ before \in Seq(C) /\ upto \in Seq(C) /\ Len(upto) = q /\ SubSeq(upto, 1, q - 1) = before
        /\ V[q] = <<text[q]>> => upto = before \o mid
    BY Initial
  <1> HIDE DEF upto, before, pre, mid
  <1>4. SubSeq(val, 1, q - 1) = before
    <2>1. q \in 1..Len(upto)
      BY <1>3
    <2> QED BY <1>1, <1>3, <2>1, Joining
  <1>5. SubSeq(val, q + 1, Len(val)) = rest
    <2>1. \A s, t \in Seq(C) : SubSeq(s \o t, Len(s) + 1, Len(s \o t)) = t
      BY Joining
    <2> QED BY <1>1, <1>3, <2>1
  <1>6. /\ (before \o mid) \o rest = before \o (mid \o rest) /\ mid \o rest \in Seq(C)
        /\ (pre \o mid) \o rest = pre \o (mid \o rest)
    <2>1. before \in Seq(C) /\ mid \in Seq(C)
      BY <1>2, <1>3
    <2>2. Associate(before, mid, rest) /\ Associate(pre, mid, rest)
      BY <1>2, <2>1, Associates
    <2>3. (before \o mid) \o rest = before \o (mid \o rest)
      BY <2>2 DEF Associate
    <2>4. (pre \o mid) \o rest = pre \o (mid \o rest)
      BY <2>2 DEF Associate
    <2>5. mid \o rest \in Seq(C)
      BY <2>1, Joining, Zenon
    <2> QED BY <2>3, <2>4, <2>5
  <1>7. P[n] = pre \o (mid \o rest)
    <2> HIDE DEF n
    <2> QED BY <1>1, <1>2, <1>6
  <1>8. SubSeq(val, 1, q - 1) \o mid \o SubSeq(val, q + 1, Len(val)) = before \o (mid \o rest)
    BY <1>4, <1>5, <1>6
  <1>9. V[q] = <<text[q]>> => val = before \o (mid \o rest)
    BY <1>1, <1>3, <1>6
  <1> QED
    BY <1>6, <1>7, <1>8, <1>9 DEF Done, before, pre, mid

\* Elements that stay as they are may all be counted as done.
LEMMA DoneSkipAll ==
    ASSUME NEW C, NEW text \in Seq(C), NEW V, NEW P, ArePrefixes(P, V, Len(text), C),
           NEW b \in 0..Len(text), NEW a \in 0..b,
           \A q \in (a + 1)..b : V[q] = <<text[q]>>, NEW val, Done(val, b, text, P, C)
    PROVE  Done(val, a, text, P, C)
  <1> DEFINE D == {q \in 0..b : q < a \/ Done(val, q, text, P, C)}
  <1>1. b \in D /\ b \in Nat
    OBVIOUS
  <1>2. ASSUME NEW q \in 1..b, q \in D PROVE q - 1 \in D
    <2>1. CASE q <= a
      BY <2>1
    <2>2. CASE ~(q <= a)
      <3>1. q \in (a + 1)..b /\ q \in 1..Len(text) /\ Done(val, q, text, P, C)
        BY <1>2, <2>2
      <3>2. V[q] \in Seq(C) /\ V[q] = <<text[q]>>
        BY <3>1, Initial
      <3>3. Done(val, q - 1, text, P, C)
        BY <3>1, <3>2, DoneStep
      <3> QED BY <3>3
    <2> QED BY <2>1, <2>2
  <1>3. a \in D
    <2> HIDE DEF D
    <2> QED BY <1>1, <1>2, DownFrom
  <1> QED
    BY <1>3

\* Replacing elements from the right, at the positions they have in the text as it was
\* written, gives the concatenation of what every element stands for.
Replaces(acc, m, pos, V) ==
    \A k \in 1..m : LET val == acc[k - 1] IN
      acc[k] = SubSeq(val, 1, pos[k] - 1) \o V[pos[k]] \o SubSeq(val, pos[k] + 1, Len(val))

IsDescending(pos, m, R) ==
    /\ pos \in [1..m -> R]
    /\ \A i, j \in 1..m : i < j => pos[i] > pos[j]
    /\ \A q \in R : \E i \in 1..m : pos[i] = q

LEMMA ReplacedFromTheRight ==
    ASSUME NEW C, NEW text \in Seq(C), NEW R \in SUBSET (1..Len(text)),
           NEW V \in [1..Len(text) -> Seq(C)],
           \A q \in (1..Len(text)) \ R : V[q] = <<text[q]>>,
           NEW P, ArePrefixes(P, V, Len(text), C),
           NEW m \in Nat, NEW pos, IsDescending(pos, m, R),
           NEW acc, acc[0] = text, Replaces(acc, m, pos, V)
    PROVE  acc[m] = P[Len(text)]
  <1> DEFINE n == Len(text)
             b == [k \in 0..m |-> IF k = 0 THEN n ELSE pos[k] - 1]
             T == {k \in 0..m : Done(acc[k], b[k], text, P, C)}
  <1>0. /\ n \in Nat /\ pos \in [1..m -> R] /\ \A k \in 1..m : pos[k] \in R /\ pos[k] \in 1..n
        /\ \A i, j \in 1..m : i < j => pos[i] > pos[j]
        /\ \A q \in R : \E i \in 1..m : pos[i] = q
    <2>1. /\ pos \in [1..m -> R]
          /\ \A i, j \in 1..m : i < j => pos[i] > pos[j]
          /\ \A q \in R : \E i \in 1..m : pos[i] = q
      BY DEF IsDescending
    <2>2. \A k \in 1..m : pos[k] \in R
      BY <2>1
    <2>3. n \in Nat
      OBVIOUS
    <2> QED BY <2>1, <2>2, <2>3
  <1>1. /\ b[0] = n /\ b \in [0..m -> 0..n]
        /\ \A k \in 1..m : b[k] = pos[k] - 1 /\ b[k] \in 0..n
    <2>1. \A k \in 1..m : k # 0 /\ k \in 0..m /\ pos[k] - 1 \in 0..n
      BY <1>0
    <2>2. \A k \in 1..m : b[k] = pos[k] - 1
      BY <2>1
    <2>3. b[0] = n /\ n \in 0..n
      BY <1>0
    <2>4. \A k \in 0..m : b[k] \in 0..n
      BY <2>1, <2>2, <2>3
    <2>5. b = [k \in 0..m |-> b[k]]
      OBVIOUS
    <2> HIDE DEF b
    <2> QED BY <2>1, <2>2, <2>3, <2>4, <2>5
  <1> HIDE DEF b
  <1>2. Done(text, n, text, P, C)
    <2>1. text = SubSeq(text, 1, n) \o <<>>
      OBVIOUS
    <2>2. n \in 0..n
      BY <1>0
    <2>3. P[n] = P[n] \o <<>> /\ <<>> \in Seq(C)
      BY <2>2 DEF ArePrefixes
    <2> QED BY <2>1, <2>3 DEF Done
  <1>3. ASSUME NEW k \in 1..m, k - 1 \in T PROVE k \in T
    <2>1. /\ pos[k] \in 1..n /\ pos[k] \in R /\ b[k - 1] \in 0..n /\ k - 1 \in 0..m
          /\ Done(acc[k - 1], b[k - 1], text, P, C)
      BY <1>0, <1>1, <1>3
    <2>2. pos[k] \in 0..b[k - 1]
      <3>1. CASE k = 1
        BY <1>1, <2>1, <3>1
      <3>2. CASE k # 1
        <4>1. k - 1 \in 1..m /\ k - 1 < k
          BY <3>2
        <4>2. pos[k - 1] > pos[k] /\ b[k - 1] = pos[k - 1] - 1 /\ pos[k - 1] \in 1..n
          BY <1>0, <1>1, <4>1
        <4> QED BY <2>1, <4>2
      <3> QED BY <3>1, <3>2
    <2>3. ASSUME NEW q \in (pos[k] + 1)..b[k - 1] PROVE q \in (1..n) \ R
      <3>1. q \in 1..n
        BY <2>1
      <3>2. ASSUME q \in R PROVE FALSE
        <4>1. PICK i \in 1..m : pos[i] = q
          BY <1>0, <3>2
        <4>2. i < k
          <5>1. i # k /\ ~(k < i)
            BY <1>0, <2>1, <2>3, <4>1
          <5> QED BY <5>1
        <4>3. CASE i = k - 1
          <5>1. b[k - 1] = q - 1
            BY <1>1, <4>1, <4>3
          <5> QED BY <2>1, <3>1, <5>1
        <4>4. CASE i # k - 1
          <5>1. k - 1 \in 1..m /\ i < k - 1
            BY <4>2, <4>4
          <5>2. q > pos[k - 1] /\ b[k - 1] = pos[k - 1] - 1 /\ pos[k - 1] \in 1..n
            BY <1>0, <1>1, <4>1, <5>1
          <5> QED BY <2>1, <3>1, <5>2
        <4> QED BY <4>3, <4>4
      <3> QED BY <3>1, <3>2
    <2>4. \A q \in (pos[k] + 1)..b[k - 1] : V[q] = <<text[q]>>
      BY <2>3
    <2> DEFINE old == acc[k - 1]
               new == SubSeq(old, 1, pos[k] - 1) \o V[pos[k]] \o SubSeq(old, pos[k] + 1, Len(old))
    <2>5. Done(old, pos[k], text, P, C)
      <3>1. Done(old, b[k - 1], text, P, C)
        BY <2>1
      <3>2. b[k - 1] \in 0..Len(text)
        BY <2>1
      <3> DEFINE hi == b[k - 1]
                 lo == pos[k]
      <3>3. /\ hi \in 0..Len(text) /\ lo \in 0..hi /\ Done(old, hi, text, P, C)
            /\ \A q \in (lo + 1)..hi : V[q] = <<text[q]>>
        BY <2>2, <2>4, <3>1, <3>2
      <3> HIDE DEF old, n, hi, lo
      <3>4. Done(old, lo, text, P, C)
        BY <3>3, DoneSkipAll
      <3> QED BY <3>4 DEF lo
    <2>6. Done(new, pos[k] - 1, text, P, C)
      <3>1. V[pos[k]] \in Seq(C)
        BY <2>1
      <3> HIDE DEF old
      <3> QED BY <2>1, <2>5, <3>1, DoneStep
    <2>7. acc[k] = new
      BY DEF Replaces
    <2> HIDE DEF new
    <2> QED BY <1>1, <2>6, <2>7
  <1>4. m \in T
    <2>1. 0 \in T
      BY <1>1, <1>2
    <2> HIDE DEF T
    <2>2. 0..m \subseteq T
      BY <1>3, <2>1, UpTo
    <2> QED BY <2>2
  <1>5. b[m] \in 0..n /\ Done(acc[m], b[m], text, P, C)
    BY <1>1, <1>4
  <1>6. ASSUME NEW q \in 1..b[m] PROVE q \in (1..n) \ R
    <2>1. q \in 1..n
      BY <1>5
    <2>2. ASSUME q \in R PROVE FALSE
      <3>1. PICK i \in 1..m : pos[i] = q
        BY <1>0, <2>2
      <3>2. m \in 1..m /\ b[m] = pos[m] - 1 /\ pos[m] \in 1..n
        BY <1>0, <1>1, <3>1
      <3>3. i = m \/ pos[i] > pos[m]
        BY <1>0, <3>2
      <3> QED BY <2>1, <3>1, <3>2, <3>3
    <2> QED BY <2>1, <2>2
  <1>7. Done(acc[m], 0, text, P, C)
    <2>1. 0 \in 0..b[m] /\ \A q \in (0 + 1)..b[m] : V[q] = <<text[q]>>
      BY <1>5, <1>6
    <2> QED BY <1>5, <2>1, DoneSkipAll
  <1>8. PICK rest \in Seq(C) : acc[m] = SubSeq(text, 1, 0) \o rest /\ P[n] = P[0] \o rest
    BY <1>7 DEF Done
  <1>9. SubSeq(text, 1, 0) = <<>> /\ P[0] = <<>> /\ <<>> \o rest = rest
    BY DEF ArePrefixes
  <1> QED
    BY <1>8, <1>9

----------------------------------------------------------------------------
(* Sorting.                                                                *)

IsOrder(R, S) ==
    /\ \A x \in S : <<x, x>> \notin R
    /\ \A x, y \in S : x # y => <<x, y>> \in R \/ <<y, x>> \in R
    /\ \A x, y, z \in S : <<x, y>> \in R /\ <<y, z>> \in R => <<x, z>> \in R

IsLast(m, R, S) == m \in S /\ \A x \in S \ {m} : <<x, m>> \in R

Enumerates(s, R, S) ==
    /\ s \in [1..Cardinality(S) -> S]
    /\ \A i, j \in 1..Cardinality(S) : i < j => <<s[i], s[j]>> \in R

\* A finite set that is not empty has a last element, and it can be sorted.
LEMMA Sortable ==
    ASSUME NEW S, IsFiniteSet(S), NEW R, IsOrder(R, S)
    PROVE  \E s : Enumerates(s, R, S)
  <1> DEFINE N == Cardinality(S)
             Small(k) == {U \in SUBSET S : IsFiniteSet(U) /\ Cardinality(U) = k}
             T == {k \in 0..N : \A U \in Small(k) :
                     /\ U # {} => \E m : IsLast(m, R, U)
                     /\ \E s : Enumerates(s, R, U)}
  <1>0. N \in Nat
    BY FS_CardinalityType
  <1>1. 0 \in T
    <2>1. ASSUME NEW U \in Small(0) PROVE U = {}
      BY FS_EmptySet
    <2>2. Enumerates([i \in 1..0 |-> 0], R, {})
      BY FS_EmptySet DEF Enumerates
    <2>3. \A U \in Small(0) : U = {} /\ \E s : Enumerates(s, R, U)
      BY <2>1, <2>2
    <2> HIDE DEF Small, N
    <2> QED BY <1>0, <2>3
  <1>2. ASSUME NEW k \in 1..N, k - 1 \in T PROVE k \in T
    <2> SUFFICES ASSUME NEW U \in Small(k)
                 PROVE  (\E m : IsLast(m, R, U)) /\ \E s : Enumerates(s, R, U)
      <3> HIDE DEF Small, N
      <3> QED BY <1>0
    <2>1. /\ U \in SUBSET S /\ IsFiniteSet(U) /\ Cardinality(U) = k /\ U # {} /\ k \in Nat
          /\ \A x \in U : U \ {x} \in Small(k - 1)
      <3>1. U \in SUBSET S /\ IsFiniteSet(U) /\ Cardinality(U) = k /\ k \in Nat /\ k # 0
        BY <1>0
      <3>2. U # {}
        BY <3>1, FS_EmptySet
      <3>3. \A x \in U : U \ {x} \in SUBSET S /\ IsFiniteSet(U \ {x}) /\ Cardinality(U \ {x}) = k - 1
        BY <3>1, FS_RemoveElement
      <3> QED BY <3>1, <3>2, <3>3
    <2>2. \E m : IsLast(m, R, U)
      <3>1. PICK x \in U : TRUE
        BY <2>1
      <3>2. CASE U \ {x} = {}
        BY <3>1, <3>2 DEF IsLast
      <3>3. CASE U \ {x} # {}
        <4>1. PICK m : IsLast(m, R, U \ {x})
          BY <1>2, <2>1, <3>3
        <4>2. m \in S /\ x \in S /\ m # x /\ m \in U
          BY <2>1, <4>1 DEF IsLast
        <4>3. CASE <<x, m>> \in R
          <5>1. IsLast(m, R, U)
            BY <4>1, <4>2, <4>3 DEF IsLast
          <5> QED BY <5>1
        <4>4. CASE <<m, x>> \in R
          <5>1. IsLast(x, R, U)
            <6>1. ASSUME NEW y \in U \ {x} PROVE <<y, x>> \in R
              <7>1. y \in S /\ (y = m \/ <<y, m>> \in R)
                BY <2>1, <4>1 DEF IsLast
              <7> QED BY <4>2, <4>4, <7>1 DEF IsOrder
            <6> QED BY <3>1, <6>1 DEF IsLast
          <5> QED BY <5>1
        <4> QED BY <4>2, <4>3, <4>4 DEF IsOrder
      <3> QED BY <3>2, <3>3
    <2>3. PICK m : IsLast(m, R, U)
      BY <2>2
    <2>4. m \in U /\ \A x \in U \ {m} : <<x, m>> \in R
      BY <2>3 DEF IsLast
    <2>5. PICK s : Enumerates(s, R, U \ {m})
      BY <1>2, <2>1, <2>4
    <2>6. /\ Cardinality(U \ {m}) = k - 1
          /\ s \in [1..(k - 1) -> U \ {m}]
          /\ \A i, j \in 1..(k - 1) : i < j => <<s[i], s[j]>> \in R
      BY <2>1, <2>4, <2>5 DEF Enumerates
    <2> DEFINE t == [i \in 1..k |-> IF i = k THEN m ELSE s[i]]
    <2>7. t \in [1..k -> U]
      <3>1. \A i \in 1..k : i # k => i \in 1..(k - 1)
        BY <2>1
      <3> QED BY <2>4, <2>6, <3>1
    <2>8. ASSUME NEW i \in 1..k, NEW j \in 1..k, i < j PROVE <<t[i], t[j]>> \in R
      <3>1. i \in 1..(k - 1) /\ t[i] = s[i] /\ s[i] \in U \ {m}
        BY <2>1, <2>6, <2>8
      <3>2. CASE j = k
        BY <2>4, <3>1, <3>2
      <3>3. CASE j # k
        <4>1. j \in 1..(k - 1) /\ t[j] = s[j]
          BY <2>1, <3>3
        <4> QED BY <2>6, <2>8, <3>1, <4>1
      <3> QED BY <3>2, <3>3
    <2>9. Enumerates(t, R, U)
      <3> HIDE DEF t
      <3> QED BY <2>1, <2>7, <2>8 DEF Enumerates
    <2> HIDE DEF t
    <2> QED BY <2>2, <2>9
  <1>3. N \in T
    <2> HIDE DEF T, N
    <2>1. 0..N \subseteq T
      BY <1>0, <1>1, <1>2, UpTo
    <2> QED BY <1>0, <2>1
  <1> QED
    BY <1>3

\* An enumeration in order is without repetition and leaves nothing out.
LEMMA Enumeration ==
    ASSUME NEW S, IsFiniteSet(S), NEW R, IsOrder(R, S), NEW s, Enumerates(s, R, S)
    PROVE  /\ s \in [1..Cardinality(S) -> S]
           /\ Cardinality(S) \in Nat
           /\ \A i, j \in 1..Cardinality(S) : s[i] = s[j] => i = j
           /\ \A x \in S : \E i \in 1..Cardinality(S) : s[i] = x
  <1> DEFINE N == Cardinality(S)
  <1>0. N \in Nat /\ IsFiniteSet(1..N) /\ Cardinality(1..N) = N
    <2>1. N \in Nat
      BY FS_CardinalityType
    <2> HIDE DEF N
    <2> QED BY <2>1, FS_Interval
  <1>1. s \in [1..N -> S]
    BY DEF Enumerates
  <1>2. ASSUME NEW i \in 1..N, NEW j \in 1..N, s[i] = s[j] PROVE i = j
    <2>1. s[i] \in S /\ s[j] \in S
      BY <1>1
    <2>2. ~(i < j) /\ ~(j < i)
      BY <1>2, <2>1 DEF Enumerates, IsOrder
    <2> QED BY <1>0, <2>2
  <1>3. s \in Injection(1..N, S)
    <2> HIDE DEF N
    <2> QED BY <1>1, <1>2, Fun_IsInj
  <1>4. s \in Surjection(1..N, S)
    BY <1>0, <1>3, FS_Injection
  <1>5. \A x \in S : \E i \in 1..N : s[i] = x
    BY <1>4 DEF Surjection
  <1> QED
    BY <1>0, <1>1, <1>2, <1>5

\* Numbers in their order.
LEMMA FromTheLeft ==
  ASSUME NEW S \in SUBSET Nat, IsFiniteSet(S)
  PROVE  LET s == Sorted(S, <) IN
         /\ Cardinality(S) \in Nat /\ s \in [1..Cardinality(S) -> S]
         /\ \A i, j \in 1..Cardinality(S) : i < j => s[i] < s[j]
         /\ \A x \in S : \E i \in 1..Cardinality(S) : s[i] = x
  <1> DEFINE below == {w \in S \X S : w[1] < w[2]}
             s == Sorted(S, <)
  <1>1. IsOrder(below, S)
    BY DEF IsOrder
  <1>2. \A t : Enumerates(t, below, S) <=>
          t \in [1..Cardinality(S) -> S] /\ \A i, j \in 1..Cardinality(S) : i < j => t[i] < t[j]
    <2>1. \A t \in [1..Cardinality(S) -> S] : \A i, j \in 1..Cardinality(S) :
            <<t[i], t[j]>> \in below <=> t[i] < t[j]
      OBVIOUS
    <2> HIDE DEF below
    <2> QED BY <2>1 DEF Enumerates
  <1> HIDE DEF below
  <1>3. \E t : Enumerates(t, below, S)
    BY <1>1, Sortable
  <1>4. \E t \in [1..Cardinality(S) -> S] : \A i, j \in 1..Cardinality(S) : i < j => t[i] < t[j]
    BY <1>2, <1>3
  <1>5. /\ s \in [1..Cardinality(S) -> S]
        /\ \A i, j \in 1..Cardinality(S) : i < j => s[i] < s[j]
    BY <1>4, Zenon DEF Sorted
  <1> HIDE DEF s
  <1>6. Enumerates(s, below, S)
    BY <1>2, <1>5
  <1>7. Cardinality(S) \in Nat /\ \A x \in S : \E i \in 1..Cardinality(S) : s[i] = x
    BY <1>1, <1>6, Enumeration
  <1> QED BY <1>5, <1>7 DEF s

----------------------------------------------------------------------------
\* A recursion in which the value at an element depends on the values at elements of less
\* depth, and no depth exceeds a bound, has a solution.
IsSolution(f, ctx, S) == f = [v \in S |-> Op(ctx, f, v)]
LooksBelow(ctx, S, depth) ==
    \A v \in S : \A f, g : (\A w \in S : depth[w] < depth[v] => f[w] = g[w])
                             => Op(ctx, f, v) = Op(ctx, g, v)

LEMMA CourseOfValues ==
    ASSUME NEW S, NEW m \in Nat, NEW depth \in [S -> 0..m], NEW ctx, LooksBelow(ctx, S, depth)
    PROVE  \E f : IsSolution(f, ctx, S)
  <1> DEFINE Up(k) == {v \in S : depth[v] < k}
             Is(f, k) == f = [v \in Up(k) |-> Op(ctx, f, v)]
             T == {k \in 0..(m + 1) : \E f : Is(f, k)}
  <1>1. 0 \in T
    <2>1. Up(0) = {}
      OBVIOUS
    <2> DEFINE f == [v \in {} |-> 0]
    <2>2. Is(f, 0)
      BY <2>1
    <2> HIDE DEF Is, f
    <2> QED BY <2>2
  <1>2. ASSUME NEW k \in 1..(m + 1), k - 1 \in T PROVE k \in T
    <2>1. PICK f : Is(f, k - 1)
      BY <1>2
    <2> DEFINE g == [v \in Up(k) |-> Op(ctx, f, v)]
    <2>2. \A v \in Up(k - 1) : v \in Up(k) /\ f[v] = Op(ctx, f, v) /\ g[v] = f[v]
      <3>1. \A v \in Up(k - 1) : v \in Up(k)
        OBVIOUS
      <3> HIDE DEF Up
      <3> QED BY <2>1, <3>1
    <2>3. ASSUME NEW v \in Up(k) PROVE Op(ctx, f, v) = Op(ctx, g, v)
      <3>1. ASSUME NEW w \in S, depth[w] < depth[v] PROVE f[w] = g[w]
        <4>1. w \in Up(k - 1)
          BY <3>1
        <4> HIDE DEF Up, g
        <4> QED BY <2>2, <4>1
      <3>2. v \in S
        OBVIOUS
      <3> HIDE DEF g
      <3> QED BY <3>1, <3>2 DEF LooksBelow
    <2>4. Is(g, k)
      <3>1. \A v \in Up(k) : g[v] = Op(ctx, g, v)
        <4> HIDE DEF Up
        <4>1. \A v \in Up(k) : g[v] = Op(ctx, f, v)
          OBVIOUS
        <4> HIDE DEF g
        <4> QED BY <2>3, <4>1
      <3>2. g = [v \in Up(k) |-> g[v]]
        OBVIOUS
      <3> HIDE DEF g, Up
      <3> QED BY <3>1, <3>2
    <2> HIDE DEF Is, g
    <2> QED BY <2>4
  <1>3. m + 1 \in T
    <2> HIDE DEF T
    <2>1. 0..(m + 1) \subseteq T
      BY <1>1, <1>2, UpTo
    <2> QED BY <2>1
  <1>4. Up(m + 1) = S
    OBVIOUS
  <1> HIDE DEF Up
  <1> QED
    BY <1>3, <1>4 DEF IsSolution

----------------------------------------------------------------------------
(* Concatenations of what the elements of a sequence stand for.            *)

\* Whatever grows by one of the sequences after the other ends as all of them.
LEMMA FlattenIs ==
    ASSUME NEW C, NEW ss \in Seq(Seq(C)), NEW P, ArePrefixes(P, ss, Len(ss), C)
    PROVE  FlattenSeq(ss) = P[Len(ss)]
  <1> DEFINE m == Len(ss)
  <1>1. PICK Q : ArePrefixes(Q, ss, m, C) /\ FlattenSeq(ss) = Q[m]
    BY FlattenPrefixes
  <1> DEFINE T == {k \in 0..m : P[k] = Q[k]}
  <1>2. m \in Nat /\ 0 \in T
    BY <1>1 DEF ArePrefixes
  <1>3. ASSUME NEW k \in 1..m, k - 1 \in T PROVE k \in T
    <2>1. P[k] = P[k - 1] \o ss[k]
      BY DEF ArePrefixes
    <2>2. Q[k] = Q[k - 1] \o ss[k]
      BY <1>1 DEF ArePrefixes
    <2>3. P[k - 1] = Q[k - 1] /\ k \in 0..m
      BY <1>3
    <2> HIDE DEF m
    <2> QED BY <2>1, <2>2, <2>3
  <1>4. m \in T
    <2> HIDE DEF T, m
    <2>1. 0..m \subseteq T
      BY <1>2, <1>3, UpTo
    <2> QED BY <1>2, <2>1
  <1> QED BY <1>1, <1>4

\* The concatenation of what the elements of s stand for.
Standing(L, s) == FlattenSeq([i \in DOMAIN s |-> L[s[i]]])
IsMeaning(L, D, C) == L \in [D -> Seq(C)]
Builds(P, L, s, C) ==
    /\ P \in [0..Len(s) -> Seq(C)] /\ P[0] = <<>>
    /\ \A k \in 1..Len(s) : P[k] = P[k - 1] \o L[s[k]]

LEMMA StandingFlat ==
    ASSUME NEW C, NEW D, NEW L, IsMeaning(L, D, C), NEW s \in Seq(D)
    PROVE  \E ss \in Seq(Seq(C)) : /\ Len(ss) = Len(s) /\ \A k \in 1..Len(s) : ss[k] = L[s[k]]
                                  /\ Standing(L, s) = FlattenSeq(ss)
  <1> DEFINE ss == [i \in DOMAIN s |-> L[s[i]]]
  <1>0. DOMAIN s = 1..Len(s) /\ Len(s) \in Nat /\ \A k \in 1..Len(s) : s[k] \in D
    OBVIOUS
  <1>1. \A k \in 1..Len(s) : L[s[k]] \in Seq(C)
    BY <1>0 DEF IsMeaning
  <1>2. ss \in Seq(Seq(C)) /\ Len(ss) = Len(s) /\ \A k \in 1..Len(s) : ss[k] = L[s[k]]
    BY <1>0, <1>1
  <1>3. Standing(L, s) = FlattenSeq(ss)
    BY DEF Standing
  <1> HIDE DEF ss
  <1> QED BY <1>2, <1>3

LEMMA StandingPrefixes ==
    ASSUME NEW C, NEW D, NEW L, IsMeaning(L, D, C), NEW s \in Seq(D)
    PROVE  \E P : Builds(P, L, s, C) /\ Standing(L, s) = P[Len(s)]
  <1>1. PICK ss \in Seq(Seq(C)) : /\ Len(ss) = Len(s) /\ \A k \in 1..Len(s) : ss[k] = L[s[k]]
                                  /\ Standing(L, s) = FlattenSeq(ss)
    BY StandingFlat
  <1>2. PICK P : ArePrefixes(P, ss, Len(ss), C) /\ FlattenSeq(ss) = P[Len(ss)]
    BY FlattenPrefixes
  <1>3. Builds(P, L, s, C)
    BY <1>1, <1>2 DEF ArePrefixes, Builds
  <1> QED BY <1>1, <1>2, <1>3

LEMMA StandingIs ==
    ASSUME NEW C, NEW D, NEW L, IsMeaning(L, D, C), NEW s \in Seq(D), NEW P, Builds(P, L, s, C)
    PROVE  Standing(L, s) = P[Len(s)] /\ Standing(L, s) \in Seq(C)
  <1>1. PICK ss \in Seq(Seq(C)) : /\ Len(ss) = Len(s) /\ \A k \in 1..Len(s) : ss[k] = L[s[k]]
                                  /\ Standing(L, s) = FlattenSeq(ss)
    BY StandingFlat
  <1>2. ArePrefixes(P, ss, Len(ss), C)
    BY <1>1 DEF ArePrefixes, Builds
  <1>3. FlattenSeq(ss) = P[Len(ss)]
    BY <1>2, FlattenIs
  <1>4. Len(s) \in 0..Len(s)
    OBVIOUS
  <1> QED BY <1>1, <1>3, <1>4 DEF Builds

LEMMA StandingFew ==
    ASSUME NEW C, NEW D, NEW L, IsMeaning(L, D, C)
    PROVE  /\ Standing(L, <<>>) = <<>>
           /\ \A x \in D : Standing(L, <<x>>) = L[x]
  <1>1. Standing(L, <<>>) = <<>>
    <2> DEFINE s == <<>>
    <2>0. s \in Seq(D)
      OBVIOUS
    <2>1. Len(s) = 0
      OBVIOUS
    <2> HIDE DEF s
    <2>2. PICK P : Builds(P, L, s, C) /\ Standing(L, s) = P[Len(s)]
      BY <2>0, StandingPrefixes, Zenon
    <2> QED BY <2>1, <2>2 DEF Builds, s
  <1>2. ASSUME NEW x \in D PROVE Standing(L, <<x>>) = L[x]
    <2> DEFINE s == <<x>>
    <2>0. s \in Seq(D)
      OBVIOUS
    <2>1. Len(s) = 1 /\ s[1] = x
      OBVIOUS
    <2> HIDE DEF s
    <2>2. PICK P : Builds(P, L, s, C) /\ Standing(L, s) = P[Len(s)]
      BY <2>0, StandingPrefixes, Zenon
    <2>3. P[1] = P[1 - 1] \o L[x] /\ P[0] = <<>>
      BY <2>1, <2>2 DEF Builds
    <2>4. L[x] \in Seq(C) /\ <<>> \o L[x] = L[x] /\ 1 - 1 = 0
      BY DEF IsMeaning
    <2> QED BY <2>1, <2>2, <2>3, <2>4 DEF s
  <1> QED BY <1>1, <1>2

LEMMA StandingJoin ==
    ASSUME NEW C, NEW D, NEW L, IsMeaning(L, D, C), NEW s \in Seq(D), NEW t \in Seq(D)
    PROVE  /\ Standing(L, s \o t) = Standing(L, s) \o Standing(L, t)
           /\ Standing(L, s) \in Seq(C)
  <1> DEFINE a == Len(s)
             b == Len(t)
             st == s \o t
  <1>1. /\ a \in Nat /\ b \in Nat /\ st \in Seq(D) /\ Len(st) = a + b
        /\ \A k \in 1..a : st[k] = s[k]
        /\ \A k \in 1..b : st[a + k] = t[k] /\ t[k] \in D
    OBVIOUS
  <1>2. PICK P : Builds(P, L, s, C) /\ Standing(L, s) = P[a]
    BY StandingPrefixes
  <1>3. PICK Q : Builds(Q, L, t, C) /\ Standing(L, t) = Q[b]
    BY StandingPrefixes
  <1> DEFINE R == [k \in 0..(a + b) |-> IF k <= a THEN P[k] ELSE P[a] \o Q[k - a]]
  <1>4. /\ P \in [0..a -> Seq(C)] /\ P[0] = <<>>
        /\ \A k \in 1..a : P[k] = P[k - 1] \o L[s[k]]
    BY <1>2 DEF Builds
  <1>5. /\ Q \in [0..b -> Seq(C)] /\ Q[0] = <<>>
        /\ \A k \in 1..b : Q[k] = Q[k - 1] \o L[t[k]]
    BY <1>3 DEF Builds
  <1> HIDE DEF a, b, st
  <1>6. P[a] \in Seq(C) /\ P[a] \o Q[0] = P[a] /\ \A k \in 0..b : Q[k] \in Seq(C)
    <2>1. P[a] \in Seq(C)
      BY <1>1, <1>4
    <2>2. P[a] \o <<>> = P[a]
      BY <2>1
    <2> QED BY <1>5, <2>1, <2>2
  <1>7. /\ \A k \in 0..a : R[k] = P[k]
        /\ \A j \in 0..b : R[a + j] = P[a] \o Q[j]
    <2>1. ASSUME NEW k \in 0..a PROVE R[k] = P[k]
      <3>1. k \in 0..(a + b) /\ k <= a
        BY <1>1
      <3> QED BY <3>1
    <2>2. ASSUME NEW j \in 0..b PROVE R[a + j] = P[a] \o Q[j]
      <3>1. a + j \in 0..(a + b) /\ a + j - a = j
        BY <1>1
      <3>2. CASE j = 0
        <4>1. a + j = a /\ a \in 0..(a + b)
          BY <1>1, <3>2
        <4>2. R[a] = P[a]
          BY <1>1, <4>1
        <4> HIDE DEF R
        <4> QED BY <1>6, <3>2, <4>1, <4>2
      <3>3. CASE j # 0
        <4> DEFINE k == a + j
        <4>1. k \in 0..(a + b) /\ ~(k <= a) /\ k - a = j
          BY <1>1, <3>3
        <4> HIDE DEF k
        <4>2. R[k] = P[a] \o Q[j]
          BY <4>1
        <4> QED BY <4>2 DEF k
      <3> QED BY <3>2, <3>3
    <2> HIDE DEF R
    <2> QED BY <2>1, <2>2
  <1>8. R \in [0..(a + b) -> Seq(C)]
    <2>1. ASSUME NEW k \in 0..(a + b) PROVE (IF k <= a THEN P[k] ELSE P[a] \o Q[k - a]) \in Seq(C)
      <3>1. CASE k <= a
        BY <1>1, <1>4, <3>1
      <3>2. CASE ~(k <= a)
        <4>1. k - a \in 0..b
          BY <1>1, <3>2
        <4>2. Q[k - a] \in Seq(C)
          BY <1>6, <4>1
        <4>3. P[a] \o Q[k - a] \in Seq(C)
          BY <1>6, <4>2, Joining
        <4> QED BY <3>2, <4>3
      <3> QED BY <3>1, <3>2
    <2> QED BY <2>1
  <1> HIDE DEF R
  <1>9. ASSUME NEW k \in 1..(a + b) PROVE R[k] = R[k - 1] \o L[st[k]]
    <2>1. CASE k <= a
      <3>1. k \in 1..a /\ k - 1 \in 0..a /\ k \in 0..a
        BY <1>1, <2>1
      <3>2. R[k] = P[k] /\ R[k - 1] = P[k - 1] /\ st[k] = s[k]
        BY <1>1, <1>7, <3>1
      <3> QED BY <1>4, <3>1, <3>2
    <2>2. CASE ~(k <= a)
      <3>1. PICK j \in 1..b : a + j = k
        <4>1. k - a \in 1..b /\ a + (k - a) = k
          BY <1>1, <2>2
        <4> QED BY <4>1
      <3>2. j \in 0..b /\ j - 1 \in 0..b /\ a + (j - 1) = k - 1
        BY <1>1, <3>1
      <3>3. R[k] = P[a] \o Q[j] /\ R[k - 1] = P[a] \o Q[j - 1] /\ st[k] = t[j] /\ t[j] \in D
        BY <1>1, <1>7, <3>1, <3>2
      <3>4. Q[j] = Q[j - 1] \o L[t[j]] /\ Q[j - 1] \in Seq(C) /\ L[t[j]] \in Seq(C)
        BY <1>5, <1>6, <3>2, <3>3 DEF IsMeaning
      <3>5. (P[a] \o Q[j - 1]) \o L[t[j]] = P[a] \o (Q[j - 1] \o L[t[j]])
        <4> DEFINE p == P[a]
                   q == Q[j - 1]
                   r == L[t[j]]
        <4>1. p \in Seq(C) /\ q \in Seq(C) /\ r \in Seq(C)
          BY <1>6, <3>4
        <4> HIDE DEF p, q, r
        <4>2. Associate(p, q, r)
          BY <4>1, Associates
        <4> QED BY <4>2 DEF Associate, p, q, r
      <3> QED BY <3>3, <3>4, <3>5
    <2> QED BY <2>1, <2>2
  <1>10. Builds(R, L, st, C)
    <2>1. R[0] = <<>>
      <3>1. 0 \in 0..a
        BY <1>1
      <3> QED BY <1>4, <1>7, <3>1
    <2> QED BY <1>1, <1>8, <1>9, <2>1 DEF Builds
  <1>11. Standing(L, st) = R[a + b]
    <2>1. st \in Seq(D)
      BY <1>1
    <2>2. Standing(L, st) = R[Len(st)]
      BY <1>10, <2>1, StandingIs
    <2> QED BY <1>1, <2>2
  <1>12. R[a + b] = P[a] \o Q[b]
    <2>1. b \in 0..b
      BY <1>1
    <2> QED BY <1>7, <2>1
  <1> QED BY <1>2, <1>3, <1>6, <1>11, <1>12 DEF st

LEMMA StandingAppend ==
    ASSUME NEW C, NEW D, NEW L, IsMeaning(L, D, C), NEW s \in Seq(D), NEW x \in D
    PROVE  Standing(L, Append(s, x)) = Standing(L, s) \o L[x]
  <1> DEFINE t == <<x>>
  <1>1. Append(s, x) = s \o t /\ t \in Seq(D)
    OBVIOUS
  <1>2. Standing(L, t) = L[x]
    BY StandingFew
  <1> HIDE DEF t
  <1>3. Standing(L, s \o t) = Standing(L, s) \o Standing(L, t)
    BY <1>1, StandingJoin
  <1> QED BY <1>1, <1>2, <1>3

\* What a concatenation stands for is the concatenation of what its parts stand for.
LEMMA StandingFlatten ==
    ASSUME NEW C, NEW D, NEW L, IsMeaning(L, D, C), NEW ss \in Seq(Seq(D))
    PROVE  Standing(L, FlattenSeq(ss)) = FlattenSeq([i \in DOMAIN ss |-> Standing(L, ss[i])])
  <1> DEFINE m == Len(ss)
             vs == [i \in DOMAIN ss |-> Standing(L, ss[i])]
  <1>1. \A s \in Seq(D) : Standing(L, s) \in Seq(C)
    BY StandingJoin
  <1>2. /\ m \in Nat /\ vs \in Seq(Seq(C)) /\ Len(vs) = m
        /\ \A k \in 1..m : vs[k] = Standing(L, ss[k]) /\ ss[k] \in Seq(D)
    <2>1. m \in Nat /\ DOMAIN ss = 1..m /\ \A k \in 1..m : ss[k] \in Seq(D)
      OBVIOUS
    <2> QED BY <1>1, <2>1
  <1>3. PICK P : ArePrefixes(P, ss, m, D) /\ FlattenSeq(ss) = P[m]
    BY FlattenPrefixes
  <1>4. P \in [0..m -> Seq(D)] /\ P[0] = <<>> /\ \A k \in 1..m : P[k] = P[k - 1] \o ss[k]
    BY <1>3 DEF ArePrefixes
  <1> DEFINE H == [k \in 0..m |-> Standing(L, P[k])]
  <1> HIDE DEF m
  <1>5. \A k \in 0..m : P[k] \in Seq(D) /\ H[k] = Standing(L, P[k])
    BY <1>4
  <1>6. H \in [0..m -> Seq(C)]
    BY <1>1, <1>5
  <1> HIDE DEF H, vs
  <1>7. H[0] = <<>>
    <2>1. 0 \in 0..m
      BY <1>2
    <2> QED BY <1>4, <1>5, <2>1, StandingFew
  <1>8. ASSUME NEW k \in 1..m PROVE H[k] = H[k - 1] \o vs[k]
    <2>1. k - 1 \in 0..m /\ k \in 0..m
      BY <1>2
    <2>2. P[k - 1] \in Seq(D) /\ ss[k] \in Seq(D) /\ P[k] = P[k - 1] \o ss[k]
      BY <1>2, <1>4, <1>5, <2>1
    <2>3. Standing(L, P[k - 1] \o ss[k]) = Standing(L, P[k - 1]) \o Standing(L, ss[k])
      <3> DEFINE p == P[k - 1]
                 q == ss[k]
      <3>1. p \in Seq(D) /\ q \in Seq(D)
        BY <2>2
      <3> HIDE DEF p, q
      <3>2. Standing(L, p \o q) = Standing(L, p) \o Standing(L, q)
        BY <3>1, StandingJoin
      <3> QED BY <3>2 DEF p, q
    <2> QED BY <1>2, <1>5, <2>1, <2>2, <2>3
  <1>9. ArePrefixes(H, vs, Len(vs), C)
    BY <1>2, <1>6, <1>7, <1>8 DEF ArePrefixes
  <1>10. FlattenSeq(vs) = H[m]
    BY <1>2, <1>9, FlattenIs
  <1>11. m \in 0..m
    BY <1>2
  <1> QED BY <1>3, <1>5, <1>10, <1>11 DEF vs
=============================================================================
