----------------------------- MODULE ListLemmas -----------------------------
(***************************************************************************)
(* Facts about sequences, enumerations and stable sorts that the proofs    *)
(* about several modules rest on.                                          *)
(***************************************************************************)
EXTENDS Lists, FiniteSetTheorems, SequenceTheorems, WellFoundedInduction, TLAPS

\* A function on 1..n is a sequence of length n.
LEMMA FunctionIsSeq ==
    ASSUME NEW S, NEW n \in Nat, NEW f \in [1 .. n -> S]
    PROVE  f \in Seq(S) /\ Len(f) = n /\ DOMAIN f = 1 .. n
  BY SeqDef, LenProperties

\* What is left of a sequence without its head.
LEMMA PopProperties ==
    ASSUME NEW S, NEW s \in Seq(S), s # <<>>
    PROVE  /\ Len(s) \in Nat /\ Len(s) > 0 /\ DOMAIN s = 1 .. Len(s) /\ 1 \in DOMAIN s
           /\ Head(s) = s[1] /\ Head(s) \in S
           /\ Tail(s) \in Seq(S) /\ Len(Tail(s)) = Len(s) - 1
           /\ DOMAIN Tail(s) = 1 .. Len(s) - 1
           /\ Tail(s) = <<>> <=> Len(s) = 1
           /\ \A i \in 1 .. Len(s) - 1 : Tail(s)[i] = s[i + 1]
  <1>1. /\ Len(s) \in Nat /\ Len(s) > 0 /\ DOMAIN s = 1 .. Len(s) /\ 1 \in DOMAIN s
    BY EmptySeq, LenProperties
  <1>2. /\ Head(s) \in S /\ Tail(s) \in Seq(S) /\ Len(Tail(s)) = Len(s) - 1
        /\ \A i \in 1 .. Len(s) - 1 : Tail(s)[i] = s[i + 1]
    BY HeadTailProperties
  <1>3. DOMAIN Tail(s) = 1 .. Len(s) - 1 /\ (Tail(s) = <<>> <=> Len(s) = 1)
    <2>1. DOMAIN Tail(s) = 1 .. Len(Tail(s))
      BY <1>2, LenProperties
    <2>2. Tail(s) # <<>> => Len(Tail(s)) \in Nat \ {0}
      BY <1>2, EmptySeq
    <2>3. Tail(s) = <<>> => Len(Tail(s)) = 0
      BY EmptySeq
    <2>4. QED BY <1>1, <1>2, <2>1, <2>2, <2>3
  <1>4. Head(s) = s[1]
    OBVIOUS
  <1>5. QED BY <1>1, <1>2, <1>3, <1>4

\* A sequence with one element more at its end.
LEMMA PushProperties ==
    ASSUME NEW S, NEW s \in Seq(S), NEW x \in S
    PROVE  LET t == Append(s, x) IN
           /\ Len(s) \in Nat /\ DOMAIN s = 1 .. Len(s)
           /\ t \in Seq(S) /\ t # <<>> /\ Len(t) = Len(s) + 1 /\ DOMAIN t = 1 .. Len(s) + 1
           /\ \A i \in 1 .. Len(s) : t[i] = s[i]
           /\ t[Len(s) + 1] = x
  <1> DEFINE t == Append(s, x)
  <1>1. /\ t \in Seq(S) /\ t # <<>> /\ Len(t) = Len(s) + 1
        /\ \A i \in 1 .. Len(s) : t[i] = s[i]
        /\ t[Len(s) + 1] = x
    BY AppendProperties
  <1>2. QED BY <1>1, LenProperties

\* list_remove: the elements behind the removed one move up by one.
LEMMA RemoveAtProperties ==
    ASSUME NEW S, NEW s \in Seq(S), NEW i \in DOMAIN s
    PROVE  /\ RemoveAt(s, i) \in Seq(S)
           /\ Len(RemoveAt(s, i)) = Len(s) - 1
           /\ \A j \in 1 .. Len(s) - 1 :
                 RemoveAt(s, i)[j] = IF j < i THEN s[j] ELSE s[j + 1]
  <1>1. /\ Len(s) \in Nat /\ i \in 1 .. Len(s)
        /\ \A j \in 1 .. Len(s) : s[j] \in S
    BY LenProperties, ElementOfSeq
  <1> DEFINE a == SubSeq(s, 1, i - 1)
             b == SubSeq(s, i + 1, Len(s))
  <1>2. /\ a \in Seq(S) /\ Len(a) = i - 1
        /\ \A j \in 1 .. i - 1 : a[j] = s[j]
    <2>1. /\ a \in Seq(S) /\ Len(a) = (IF 1 <= i - 1 THEN i - 1 - 1 + 1 ELSE 0)
          /\ \A j \in 1 .. i - 1 - 1 + 1 : a[j] = s[1 + j - 1]
      BY <1>1, SubSeqProperties
    <2>2. QED BY <1>1, <2>1
  <1>3. /\ b \in Seq(S) /\ Len(b) = Len(s) - i
        /\ \A j \in 1 .. Len(s) - i : b[j] = s[i + j]
    <2>1. /\ b \in Seq(S)
          /\ Len(b) = (IF i + 1 <= Len(s) THEN Len(s) - (i + 1) + 1 ELSE 0)
          /\ \A j \in 1 .. Len(s) - (i + 1) + 1 : b[j] = s[i + 1 + j - 1]
      BY <1>1, SubSeqProperties
    <2>2. QED BY <1>1, <2>1
  <1>4. /\ a \o b \in Seq(S)
        /\ Len(a \o b) = Len(a) + Len(b)
        /\ \A j \in 1 .. Len(a) + Len(b) :
              (a \o b)[j] = IF j <= Len(a) THEN a[j] ELSE b[j - Len(a)]
    BY <1>2, <1>3, ConcatProperties
  <1>5. RemoveAt(s, i) = a \o b
    BY DEF RemoveAt
  <1> HIDE DEF a, b
  <1>6. Len(a) + Len(b) = Len(s) - 1
    BY <1>1, <1>2, <1>3
  <1>7. ASSUME NEW j \in 1 .. Len(s) - 1
        PROVE  (a \o b)[j] = IF j < i THEN s[j] ELSE s[j + 1]
    <2>1. CASE j < i
      BY <1>1, <1>2, <1>4, <1>6, <2>1
    <2>2. CASE ~(j < i)
      <3>1. j - Len(a) \in 1 .. Len(s) - i /\ i + (j - Len(a)) = j + 1 /\ ~(j <= Len(a))
        BY <1>1, <1>2, <2>2
      <3>2. QED BY <1>3, <1>4, <1>6, <2>2, <3>1
    <2>3. QED BY <2>1, <2>2
  <1>8. QED BY <1>4, <1>5, <1>6, <1>7

\* The elements of rest are those of s but the i-th, each from a position of its own.
IsRemoval(rest, s, i) ==
    \E from \in [DOMAIN rest -> DOMAIN s \ {i}] :
       /\ \A j \in DOMAIN rest : rest[j] = s[from[j]]
       /\ \A j, k \in DOMAIN rest : from[j] = from[k] => j = k
       /\ \A k \in DOMAIN s \ {i} : \E j \in DOMAIN rest : from[j] = k

\* list_remove takes one element away and no other.
LEMMA RemovedPositions ==
    ASSUME NEW S, NEW s \in Seq(S), NEW i \in DOMAIN s
    PROVE  RemoveAt(s, i) \in Seq(S) /\ IsRemoval(RemoveAt(s, i), s, i)
  <1> DEFINE rest == RemoveAt(s, i)
             from == [j \in 1 .. Len(s) - 1 |-> IF j < i THEN j ELSE j + 1]
  <1>1. Len(s) \in Nat /\ DOMAIN s = 1 .. Len(s) /\ i \in 1 .. Len(s)
    BY LenProperties
  <1>2. /\ rest \in Seq(S) /\ Len(rest) = Len(s) - 1
        /\ \A j \in 1 .. Len(s) - 1 : rest[j] = IF j < i THEN s[j] ELSE s[j + 1]
    BY RemoveAtProperties
  <1>3. DOMAIN rest = 1 .. Len(s) - 1
    BY <1>2, LenProperties
  <1> HIDE DEF rest
  <1>4. from \in [DOMAIN rest -> DOMAIN s \ {i}]
    BY <1>1, <1>3
  <1>5. \A j \in DOMAIN rest : rest[j] = s[from[j]]
    BY <1>1, <1>2, <1>3
  <1>6. \A j, k \in DOMAIN rest : from[j] = from[k] => j = k
    BY <1>1, <1>3
  <1>7. ASSUME NEW k \in DOMAIN s \ {i} PROVE \E j \in DOMAIN rest : from[j] = k
    <2>1. CASE k < i
      <3>1. k \in DOMAIN rest /\ from[k] = k
        BY <1>1, <1>3, <2>1
      <3>2. QED BY <3>1
    <2>2. CASE ~(k < i)
      <3>1. k - 1 \in DOMAIN rest /\ from[k - 1] = k
        BY <1>1, <1>3, <2>2
      <3>2. QED BY <3>1
    <2>3. QED BY <2>1, <2>2
  <1> HIDE DEF from
  <1>8. IsRemoval(rest, s, i)
    BY <1>4, <1>5, <1>6, <1>7 DEF IsRemoval
  <1>9. QED BY <1>2, <1>8 DEF rest

\* An enumeration visits every position of the set, once.
LEMMA EnumerationProperties ==
    ASSUME NEW n \in Nat, NEW S \in SUBSET (1 .. n), NEW e \in Enumerations(S)
    PROVE  /\ IsFiniteSet(S) /\ Cardinality(S) \in Nat
           /\ e \in Seq(S) /\ Len(e) = Cardinality(S)
           /\ DOMAIN e = 1 .. Cardinality(S)
           /\ \A j, k \in DOMAIN e : e[j] = e[k] => j = k
           /\ \A i \in S : \E k \in DOMAIN e : e[k] = i
  <1>1. IsFiniteSet(S) /\ Cardinality(S) \in Nat
    <2>1. IsFiniteSet(1 .. n)
      BY FS_Interval
    <2>2. IsFiniteSet(S)
      BY <2>1, FS_Subset
    <2>3. QED BY <2>2, FS_CardinalityType
  <1>2. e \in [1 .. Cardinality(S) -> S]
    BY DEF Enumerations
  <1>3. e \in Seq(S) /\ Len(e) = Cardinality(S) /\ DOMAIN e = 1 .. Cardinality(S)
    BY <1>1, <1>2, FunctionIsSeq
  <1>4. \A j, k \in DOMAIN e : e[j] = e[k] => j = k
    <2> SUFFICES ASSUME NEW j \in DOMAIN e, NEW k \in DOMAIN e, e[j] = e[k], j # k
                 PROVE  FALSE
      OBVIOUS
    <2>1. j \in Nat /\ k \in Nat /\ e[j] \in Nat /\ e[k] \in Nat
      <3>1. j \in 1 .. Cardinality(S) /\ k \in 1 .. Cardinality(S)
        BY <1>3
      <3>2. e[j] \in S /\ e[k] \in S
        BY <1>2, <3>1
      <3>3. \A i \in S : i \in Nat
        OBVIOUS
      <3>4. \A i \in 1 .. Cardinality(S) : i \in Nat
        BY <1>1
      <3>5. QED BY <3>1, <3>2, <3>3, <3>4
    <2>2. \A a, b \in DOMAIN e : a < b => e[a] < e[b]
      BY DEF Enumerations
    <2>3. j < k \/ k < j
      BY <2>1
    <2>4. QED BY <2>1, <2>2, <2>3
  <1>5. \A i \in S : \E k \in DOMAIN e : e[k] = i
    <2>1. e \in Injection(1 .. Cardinality(S), S)
      BY <1>2, <1>3, <1>4 DEF Injection, IsInjective
    <2>2. Cardinality(1 .. Cardinality(S)) = Cardinality(S)
      <3>1. Cardinality(1 .. Cardinality(S))
              = (IF 1 > Cardinality(S) THEN 0 ELSE Cardinality(S) - 1 + 1)
        BY <1>1, FS_Interval
      <3>2. QED BY <1>1, <3>1
    <2>3. e \in Surjection(1 .. Cardinality(S), S)
      BY <1>1, <2>1, <2>2, FS_Injection
    <2>4. QED BY <1>3, <2>3 DEF Surjection
  <1>6. QED BY <1>1, <1>3, <1>4, <1>5

\* A set of natural numbers that is not empty has a least element.
LEMMA LeastExists ==
    ASSUME NEW T \in SUBSET Nat, T # {}
    PROVE  \E x \in T : \A y \in T : x <= y
  <1> DEFINE less == { pair \in Nat \X Nat : pair[1] < pair[2] }
  <1>1. IsWellFoundedOn(less, Nat)
    BY NatLessThanWellFounded DEF OpToRel
  <1> HIDE DEF less
  <1>2. PICK x \in T : \A y \in T : ~(<<y, x>> \in less)
    BY <1>1, WFMin
  <1>3. \A y \in T : x <= y
    <2> SUFFICES ASSUME NEW y \in T, y < x PROVE FALSE
      OBVIOUS
    <2>1. <<y, x>> \in Nat \X Nat
      OBVIOUS
    <2>2. <<y, x>> \in less
      BY <2>1 DEF less
    <2>3. QED BY <1>2, <2>2
  <1>4. QED BY <1>3

\* A set of numbers up to n that is not empty has a greatest element.
LEMMA GreatestExists ==
    ASSUME NEW n \in Nat, NEW T \in SUBSET (1 .. n), T # {}
    PROVE  \E x \in T : \A y \in T : x >= y
  <1> DEFINE S == { n - x : x \in T }
  <1>1. S \in SUBSET Nat /\ S # {}
    <2>1. \A x \in T : x \in Nat /\ n - x \in Nat
      OBVIOUS
    <2>2. QED BY <2>1
  <1>2. PICK s \in S : \A r \in S : s <= r
    BY <1>1, LeastExists
  <1>3. PICK x \in T : s = n - x
    BY <1>2
  <1>4. ASSUME NEW y \in T PROVE x >= y
    <2>1. n - y \in S
      OBVIOUS
    <2>2. n - x <= n - y /\ x \in Nat /\ y \in Nat
      BY <1>2, <1>3, <2>1
    <2>3. QED BY <2>2
  <1>5. QED BY <1>3, <1>4

\* A sequence is a strict prefix of itself with something behind it.
LEMMA LongerLog ==
    ASSUME NEW S, NEW a \in Seq(S), NEW b \in Seq(S), Len(b) > 0,
           NEW c, c = a \o b
    PROVE  IsStrictPrefix(a, c)
  <1>1. /\ Len(a) \in Nat /\ Len(b) \in Nat /\ c \in Seq(S) /\ Len(c) = Len(a) + Len(b)
        /\ \A i \in 1 .. Len(a) + Len(b) :
              c[i] = IF i <= Len(a) THEN a[i] ELSE b[i - Len(a)]
    BY LenProperties, ConcatProperties
  <1>2. a # c /\ Len(a) <= Len(c)
    BY <1>1
  <1>3. ASSUME NEW s \in Seq(S), Len(s) >= Len(a), \A i \in 1 .. Len(a) : s[i] = a[i]
        PROVE  SubSeq(s, 1, Len(a)) = a
    <2>1. /\ Len(s) \in Nat
          /\ \A i \in 1 .. Len(a) : i \in 1 .. Len(s)
      BY <1>1, <1>3, LenProperties
    <2>2. /\ SubSeq(s, 1, Len(a)) \in Seq(S)
          /\ Len(SubSeq(s, 1, Len(a))) = (IF 1 <= Len(a) THEN Len(a) - 1 + 1 ELSE 0)
          /\ \A i \in 1 .. Len(a) - 1 + 1 : SubSeq(s, 1, Len(a))[i] = s[1 + i - 1]
      BY <1>1, <1>3, <2>1, SubSeqProperties
    <2>3. Len(SubSeq(s, 1, Len(a))) = Len(a)
      BY <1>1, <2>2
    <2>4. \A i \in 1 .. Len(a) : SubSeq(s, 1, Len(a))[i] = a[i]
      <3> SUFFICES ASSUME NEW i \in 1 .. Len(a)
                   PROVE  SubSeq(s, 1, Len(a))[i] = a[i]
        OBVIOUS
      <3>1. i \in 1 .. Len(a) - 1 + 1 /\ 1 + i - 1 = i
        BY <1>1
      <3>2. SubSeq(s, 1, Len(a))[i] = s[1 + i - 1]
        BY <2>2, <3>1
      <3>3. QED BY <1>3, <3>1, <3>2
    <2>5. QED BY <2>2, <2>3, <2>4, SeqEqual
  <1>4. SubSeq(c, 1, Len(a)) = a
    <2>1. Len(c) >= Len(a) /\ \A i \in 1 .. Len(a) : c[i] = a[i]
      BY <1>1
    <2>2. QED BY <1>1, <1>3, <2>1
  <1>5. SubSeq(a, 1, Len(a)) = a
    BY <1>1, <1>3
  <1>6. QED BY <1>2, <1>4, <1>5 DEF IsStrictPrefix, IsPrefix

\* A set of natural numbers that is not empty has its minimum.
LEMMA MinIsLeast ==
    ASSUME NEW T \in SUBSET Nat, T # {}
    PROVE  Min(T) \in T /\ \A y \in T : Min(T) <= y
  <1>1. PICK x \in T : \A y \in T : x <= y
    BY LeastExists
  <1>2. QED BY <1>1 DEF Min

\* Induction on the numbers up to n, for a set of them instead of a predicate.
LEMMA InductionUpTo ==
    ASSUME NEW n \in Nat, NEW P,
           0 \in P, \A k \in 1 .. n : k - 1 \in P => k \in P
    PROVE  \A k \in 0 .. n : k \in P
  <1> DEFINE T == { k \in 0 .. n : k \notin P }
  <1> SUFFICES ASSUME T # {} PROVE FALSE
    OBVIOUS
  <1>1. T \in SUBSET Nat
    OBVIOUS
  <1>2. PICK x \in T : \A y \in T : x <= y
    BY <1>1, LeastExists
  <1>3. x \in 1 .. n
    <2>1. x \in 0 .. n /\ x # 0
      OBVIOUS
    <2>2. QED BY <2>1
  <1>4. x - 1 \in P
    <2>1. x - 1 \in 0 .. n /\ ~(x <= x - 1)
      BY <1>3
    <2>2. QED BY <1>2, <2>1
  <1>5. QED BY <1>3, <1>4

\* What a function by recursion up to n, with values in S, follows: what step
\* makes of the function is its value.
Steps(n, S) == [0 .. n -> [[0 .. n -> S] -> S]]

Obeys(f, step, n) == \A k \in 0 .. n : f[k] = step[k][f]

\* Each value of step depends only on the values of its function below.
LooksBack(step, n, S) ==
    \A k \in 0 .. n : \A f, g \in [0 .. n -> S] :
        (\A j \in 0 .. k - 1 : f[j] = g[j]) => step[k][f] = step[k][g]

\* There is a function that is defined by recursion on smaller numbers.
LEMMA RecursionExists ==
    ASSUME NEW n \in Nat, NEW S, S # {},
           NEW step \in Steps(n, S), LooksBack(step, n, S)
    PROVE  \E f \in [0 .. n -> S] : Obeys(f, step, n)
  <1> DEFINE P == { m \in 0 .. n : \E f \in [0 .. n -> S] : \A k \in 0 .. m : f[k] = step[k][f] }
             next(f, m) == [f EXCEPT ![m] = step[m][f]]
  <1> USE DEF Steps
  <1>1. ASSUME NEW m \in 0 .. n, NEW f \in [0 .. n -> S], \A k \in 0 .. m - 1 : f[k] = step[k][f]
        PROVE  m \in P
    <2>1. next(f, m) \in [0 .. n -> S] /\ \A k \in 0 .. n : next(f, m)[k] = IF k = m THEN step[m][f] ELSE f[k]
      OBVIOUS
    <2> DEFINE g == next(f, m)
    <2>2. g \in [0 .. n -> S] /\ \A k \in 0 .. n : g[k] = IF k = m THEN step[m][f] ELSE f[k]
      BY <2>1
    <2> HIDE DEF g
    <2>3. ASSUME NEW k \in 0 .. m PROVE g[k] = step[k][g]
      <3>1. k \in 0 .. n /\ \A j \in 0 .. k - 1 : j \in 0 .. n /\ j # m
        OBVIOUS
      <3>2. \A j \in 0 .. k - 1 : f[j] = g[j]
        BY <2>2, <3>1
      <3>3. step[k][f] = step[k][g]
        BY <2>2, <3>1, <3>2 DEF LooksBack
      <3>4. g[k] = step[k][f]
        <4>1. k # m => k \in 0 .. m - 1
          OBVIOUS
        <4>2. QED BY <1>1, <2>2, <3>1, <4>1
      <3>5. QED BY <3>3, <3>4
    <2>4. QED BY <2>2, <2>3
  <1>2. 0 \in P
    <2>1. PICK f \in [0 .. n -> S] : 0 \in 0 .. n
      <3>1. PICK a \in S : TRUE
        OBVIOUS
      <3>2. [k \in 0 .. n |-> a] \in [0 .. n -> S] /\ 0 \in 0 .. n
        OBVIOUS
      <3>3. QED BY <3>2
    <2>2. \A k \in 0 .. 0 - 1 : FALSE
      OBVIOUS
    <2> HIDE DEF P
    <2>3. QED BY <1>1, <2>1, <2>2
  <1>3. ASSUME NEW m \in 1 .. n, m - 1 \in P PROVE m \in P
    <2>1. PICK f \in [0 .. n -> S] : \A k \in 0 .. m - 1 : f[k] = step[k][f]
      BY <1>3
    <2> HIDE DEF P
    <2>2. QED BY <1>1, <2>1
  <1>4. n \in P
    <2> HIDE DEF P
    <2>1. \A k \in 0 .. n : k \in P
      BY <1>2, <1>3, InductionUpTo
    <2>2. QED BY <2>1
  <1>5. QED BY <1>4 DEF Obeys

\* Each value of step depends only on the values of its function above.
LooksAhead(step, n, S) ==
    \A k \in 0 .. n : \A f, g \in [0 .. n -> S] :
        (\A j \in k + 1 .. n : f[j] = g[j]) => step[k][f] = step[k][g]

\* There is a function that is defined by recursion on greater numbers.
LEMMA RecursionFromAboveExists ==
    ASSUME NEW n \in Nat, NEW S, S # {},
           NEW step \in Steps(n, S), LooksAhead(step, n, S)
    PROVE  \E f \in [0 .. n -> S] : Obeys(f, step, n)
  <1> DEFINE F == [0 .. n -> S]
             Turned(f) == [k \in 0 .. n |-> f[n - k]]
             back == [k \in 0 .. n |-> [f \in F |-> step[n - k][Turned(f)]]]
  <1>1. \A f \in F : Turned(f) \in F /\ \A k \in 0 .. n : n - k \in 0 .. n /\ Turned(f)[k] = f[n - k]
    OBVIOUS
  <1> HIDE DEF Turned
  <1>2. back \in Steps(n, S) /\ \A k \in 0 .. n : \A f \in F : back[k][f] = step[n - k][Turned(f)]
    BY <1>1 DEF Steps
  <1> HIDE DEF back
  <1>3. LooksBack(back, n, S)
    <2> SUFFICES ASSUME NEW k \in 0 .. n, NEW f \in F, NEW g \in F,
                        \A j \in 0 .. k - 1 : f[j] = g[j]
                 PROVE  back[k][f] = back[k][g]
      BY DEF LooksBack
    <2>1. ASSUME NEW j \in n - k + 1 .. n PROVE Turned(f)[j] = Turned(g)[j]
      <3>1. j \in 0 .. n /\ n - j \in 0 .. k - 1
        OBVIOUS
      <3>2. QED BY <1>1, <3>1
    <2>2. n - k \in 0 .. n /\ Turned(f) \in F /\ Turned(g) \in F
      BY <1>1
    <2>3. step[n - k][Turned(f)] = step[n - k][Turned(g)]
      BY <2>1, <2>2 DEF LooksAhead
    <2>4. QED BY <1>2, <2>3
  <1>4. PICK f \in [0 .. n -> S] : Obeys(f, back, n)
    BY <1>2, <1>3, RecursionExists
  <1>5. ASSUME NEW k \in 0 .. n PROVE Turned(f)[k] = step[k][Turned(f)]
    <2>1. n - k \in 0 .. n /\ n - (n - k) = k
      OBVIOUS
    <2>2. Turned(f)[k] = f[n - k]
      BY <1>1
    <2>3. f[n - k] = back[n - k][f]
      BY <1>4, <2>1 DEF Obeys
    <2>4. back[n - k][f] = step[n - (n - k)][Turned(f)]
      BY <1>2, <2>1
    <2>5. QED BY <2>1, <2>2, <2>3, <2>4
  <1>6. QED BY <1>1, <1>5 DEF Obeys

-----------------------------------------------------------------------------
(* Stable sorts.  Here b is the list that is sorted, s what has been taken of it *)
(* in the order of the ranks, and p what is left of it.                          *)

\* The elements of s are those of b at the positions o, in the order of a stable
\* sort, and those of p are those at the positions r, in their own.
IsSplit(b, rank, s, p, o, r) ==
    /\ o \in [1 .. Len(s) -> DOMAIN b] /\ r \in [1 .. Len(p) -> DOMAIN b]
    /\ \A k \in 1 .. Len(s) : s[k] = b[o[k]]
    /\ \A k \in 1 .. Len(p) : p[k] = b[r[k]]
    /\ \A j, k \in 1 .. Len(s) : j < k => Before(b, rank, o[j], o[k])
    /\ \A j, k \in 1 .. Len(p) : j < k => r[j] < r[k]

\* No element is lost, and those that are sorted come before those that are not.
Taking(b, rank, s, p) ==
    \E o, r :
       /\ IsSplit(b, rank, s, p, o, r) /\ Len(s) + Len(p) = Len(b)
       /\ \A j \in 1 .. Len(s), k \in 1 .. Len(p) : Before(b, rank, o[j], r[k])

\* The same when the i-th element of p has been copied to s.
Dropping(b, rank, s, p, i) ==
    \E o, r :
       /\ IsSplit(b, rank, s, p, o, r) /\ Len(s) + Len(p) = Len(b) + 1
       /\ i \in 1 .. Len(p)
       /\ \A j \in 1 .. Len(s), k \in 1 .. Len(p) : k # i => Before(b, rank, o[j], r[k])

\* The list is sorted, and p is a first part of it.
Giving(b, rank, s, p) ==
    /\ s \in Sorts(b, rank) /\ Len(s) = Len(b) /\ Len(p) <= Len(s)
    /\ \A k \in 1 .. Len(p) : p[k] = s[k]

\* The first of the least elements of p.
IsFirstLeastOf(p, rank, i) ==
    /\ i \in 1 .. Len(p)
    /\ \A j \in 1 .. Len(p) : rank[p[i]] <= rank[p[j]]
    /\ \A j \in 1 .. i - 1 : rank[p[i]] < rank[p[j]]

\* At first nothing is sorted.
LEMMA TakingStarts ==
    ASSUME NEW S, NEW rank \in [S -> Nat], NEW b \in Seq(S)
    PROVE  Taking(b, rank, <<>>, b)
  <1> DEFINE o == [k \in 1 .. 0 |-> k]
             r == [k \in 1 .. Len(b) |-> k]
  <1>1. Len(b) \in Nat /\ DOMAIN b = 1 .. Len(b) /\ Len(<<>>) = 0
    BY LenProperties, EmptySeq
  <1>2. IsSplit(b, rank, <<>>, b, o, r)
    <2>1. o \in [1 .. 0 -> DOMAIN b] /\ r \in [1 .. Len(b) -> DOMAIN b]
      BY <1>1
    <2>2. \A k \in 1 .. 0 : FALSE
      OBVIOUS
    <2>3. \A k \in 1 .. Len(b) : r[k] = k
      OBVIOUS
    <2> HIDE DEF o, r
    <2>4. QED BY <1>1, <2>1, <2>2, <2>3 DEF IsSplit
  <1> HIDE DEF o, r
  <1>3. QED BY <1>1, <1>2 DEF Taking

\* The first of the least elements comes behind all that are sorted, and before
\* all the others.
LEMMA TakingOne ==
    ASSUME NEW S, NEW rank \in [S -> Nat], NEW b \in Seq(S), NEW s \in Seq(S), NEW p \in Seq(S),
           Taking(b, rank, s, p), NEW i, IsFirstLeastOf(p, rank, i)
    PROVE  Dropping(b, rank, Append(s, p[i]), p, i)
  <1>1. PICK o, r :
           /\ IsSplit(b, rank, s, p, o, r) /\ Len(s) + Len(p) = Len(b)
           /\ \A j \in 1 .. Len(s), k \in 1 .. Len(p) : Before(b, rank, o[j], r[k])
    BY DEF Taking
  <1> DEFINE n == Len(s)
             t == Append(s, p[i])
             q == [k \in 1 .. n + 1 |-> IF k = n + 1 THEN r[i] ELSE o[k]]
  <1>2. /\ n \in Nat /\ Len(p) \in Nat /\ Len(b) \in Nat /\ DOMAIN b = 1 .. Len(b)
        /\ i \in 1 .. Len(p) /\ p[i] \in S
    BY LenProperties, ElementOfSeq DEF IsFirstLeastOf
  <1>3. Len(t) = n + 1 /\ (\A k \in 1 .. n : t[k] = s[k]) /\ t[n + 1] = p[i]
    BY <1>2, PushProperties
  <1>4. /\ o \in [1 .. n -> DOMAIN b] /\ r \in [1 .. Len(p) -> DOMAIN b]
        /\ \A k \in 1 .. n : s[k] = b[o[k]]
        /\ \A k \in 1 .. Len(p) : p[k] = b[r[k]]
        /\ \A j, k \in 1 .. n : j < k => Before(b, rank, o[j], o[k])
        /\ \A j, k \in 1 .. Len(p) : j < k => r[j] < r[k]
        /\ n + Len(p) = Len(b)
        /\ \A j \in 1 .. n, k \in 1 .. Len(p) : Before(b, rank, o[j], r[k])
    BY <1>1 DEF IsSplit
  <1> HIDE DEF n, t
  <1>5. \A k \in 1 .. n + 1 : k = n + 1 \/ (k \in 1 .. n /\ k # n + 1)
    BY <1>2
  <1>6. q \in [1 .. n + 1 -> DOMAIN b] /\ q[n + 1] = r[i] /\ \A k \in 1 .. n : q[k] = o[k]
    <2>1. n + 1 \in 1 .. n + 1 /\ \A k \in 1 .. n : k \in 1 .. n + 1 /\ k # n + 1
      BY <1>2
    <2>2. \A k \in 1 .. n + 1 : (IF k = n + 1 THEN r[i] ELSE o[k]) \in DOMAIN b
      BY <1>2, <1>4, <1>5
    <2>3. QED BY <2>1, <2>2
  <1> HIDE DEF q
  <1>7. ASSUME NEW k \in 1 .. Len(p), k # i PROVE Before(b, rank, r[i], r[k])
    <2>1. p[i] = b[r[i]] /\ p[k] = b[r[k]] /\ rank[p[i]] <= rank[p[k]]
      BY <1>2, <1>4 DEF IsFirstLeastOf
    <2>2. rank[p[i]] \in Nat /\ rank[p[k]] \in Nat
      <3>1. p[k] \in S
        BY ElementOfSeq
      <3>2. QED BY <1>2, <3>1
    <2>3. CASE k < i
      <3>1. k \in 1 .. i - 1
        BY <1>2, <2>3
      <3>2. rank[p[i]] < rank[p[k]]
        BY <3>1 DEF IsFirstLeastOf
      <3>3. QED BY <2>1, <3>2 DEF Before
    <2>4. CASE i < k
      <3>1. r[i] < r[k]
        BY <1>2, <1>4, <2>4
      <3>2. rank[p[i]] < rank[p[k]] \/ rank[p[i]] = rank[p[k]]
        BY <2>1, <2>2
      <3>3. QED BY <2>1, <3>1, <3>2 DEF Before
    <2>5. k < i \/ i < k
      BY <1>2, <1>7
    <2>6. QED BY <2>3, <2>4, <2>5
  <1>8. \A k \in 1 .. n + 1 : t[k] = b[q[k]]
    BY <1>2, <1>3, <1>4, <1>5, <1>6
  <1>9. ASSUME NEW j \in 1 .. n + 1, NEW k \in 1 .. n + 1, j < k
        PROVE  Before(b, rank, q[j], q[k])
    <2>1. j \in 1 .. n
      BY <1>2, <1>9
    <2>2. QED BY <1>2, <1>4, <1>5, <1>6, <1>9, <2>1
  <1>10. IsSplit(b, rank, t, p, q, r)
    BY <1>3, <1>4, <1>6, <1>8, <1>9 DEF IsSplit
  <1>11. Len(t) + Len(p) = Len(b) + 1
    <2>1. Len(t) = n + 1 /\ n + Len(p) = Len(b)
      BY <1>3, <1>4
    <2>2. n \in Nat /\ Len(p) \in Nat /\ Len(b) \in Nat
      BY <1>2
    <2>3. QED BY <2>1, <2>2
  <1>12. \A j \in 1 .. Len(t), k \in 1 .. Len(p) : k # i => Before(b, rank, q[j], r[k])
    BY <1>3, <1>4, <1>5, <1>6, <1>7
  <1>13. Dropping(b, rank, t, p, i)
    BY <1>2, <1>10, <1>11, <1>12 DEF Dropping
  <1>14. QED BY <1>13 DEF t

\* Without the element that is sorted, those that are not come behind.
LEMMA DroppingOne ==
    ASSUME NEW S, NEW rank \in [S -> Nat], NEW b \in Seq(S), NEW s \in Seq(S), NEW p \in Seq(S),
           NEW i, Dropping(b, rank, s, p, i)
    PROVE  Taking(b, rank, s, RemoveAt(p, i))
  <1>1. PICK o, r :
           /\ IsSplit(b, rank, s, p, o, r) /\ Len(s) + Len(p) = Len(b) + 1
           /\ i \in 1 .. Len(p)
           /\ \A j \in 1 .. Len(s), k \in 1 .. Len(p) : k # i => Before(b, rank, o[j], r[k])
    BY DEF Dropping
  <1> DEFINE n == Len(p)
             t == RemoveAt(p, i)
             at(j) == IF j < i THEN j ELSE j + 1
             q == [k \in 1 .. n - 1 |-> r[at(k)]]
  <1>2. n \in Nat /\ Len(s) \in Nat /\ Len(b) \in Nat /\ DOMAIN p = 1 .. n /\ i \in 1 .. n
    BY <1>1, LenProperties
  <1>3. Len(t) = n - 1 /\ \A k \in 1 .. n - 1 : t[k] = IF k < i THEN p[k] ELSE p[k + 1]
    BY <1>2, RemoveAtProperties
  <1>4. /\ \A k \in 1 .. n - 1 : at(k) \in 1 .. n /\ at(k) # i /\ t[k] = p[at(k)]
        /\ \A j, k \in 1 .. n - 1 : j < k => at(j) < at(k)
    BY <1>2, <1>3
  <1>5. /\ o \in [1 .. Len(s) -> DOMAIN b] /\ r \in [1 .. n -> DOMAIN b]
        /\ \A k \in 1 .. Len(s) : s[k] = b[o[k]]
        /\ \A k \in 1 .. n : p[k] = b[r[k]]
        /\ \A j, k \in 1 .. Len(s) : j < k => Before(b, rank, o[j], o[k])
        /\ \A j, k \in 1 .. n : j < k => r[j] < r[k]
        /\ Len(s) + n = Len(b) + 1
        /\ \A j \in 1 .. Len(s), k \in 1 .. n : k # i => Before(b, rank, o[j], r[k])
    BY <1>1 DEF IsSplit
  <1> HIDE DEF n, t, at
  <1>6. q \in [1 .. n - 1 -> DOMAIN b] /\ \A k \in 1 .. n - 1 : q[k] = r[at(k)]
    BY <1>4, <1>5
  <1> HIDE DEF q
  <1>7. IsSplit(b, rank, s, t, o, q)
    <2>1. ASSUME NEW k \in 1 .. n - 1 PROVE t[k] = b[q[k]]
      <3>1. at(k) \in 1 .. n /\ t[k] = p[at(k)] /\ q[k] = r[at(k)]
        BY <1>4, <1>6
      <3>2. p[at(k)] = b[r[at(k)]]
        BY <1>5, <3>1
      <3>3. QED BY <3>1, <3>2
    <2>2. \A j, k \in 1 .. n - 1 : j < k => q[j] < q[k]
      BY <1>4, <1>5, <1>6
    <2>3. QED BY <1>3, <1>5, <1>6, <2>1, <2>2 DEF IsSplit
  <1>8. Len(s) + Len(t) = Len(b)
    BY <1>2, <1>3, <1>5
  <1>9. \A j \in 1 .. Len(s), k \in 1 .. Len(t) : Before(b, rank, o[j], q[k])
    BY <1>3, <1>4, <1>5, <1>6
  <1>10. Taking(b, rank, s, t)
    BY <1>7, <1>8, <1>9 DEF Taking
  <1>11. QED BY <1>10 DEF t

\* When every element is sorted, they are what a stable sort makes of them.
LEMMA TakingEnds ==
    ASSUME NEW S, NEW rank \in [S -> Nat], NEW b \in Seq(S), NEW s \in Seq(S), NEW p \in Seq(S),
           Taking(b, rank, s, p), Len(p) = 0
    PROVE  Giving(b, rank, s, p)
  <1>1. PICK o, r : IsSplit(b, rank, s, p, o, r) /\ Len(s) + Len(p) = Len(b)
    BY DEF Taking
  <1>2. Len(s) \in Nat /\ DOMAIN b = 1 .. Len(b) /\ DOMAIN s = 1 .. Len(s) /\ Len(s) = Len(b)
    BY <1>1, LenProperties
  <1>3. o \in [DOMAIN b -> DOMAIN b] /\ \A j, k \in DOMAIN b : j < k => Before(b, rank, o[j], o[k])
    BY <1>1, <1>2 DEF IsSplit
  <1>4. s = [k \in DOMAIN b |-> b[o[k]]]
    <2>1. s = [k \in 1 .. Len(s) |-> s[k]]
      BY LenProperties
    <2>2. \A k \in 1 .. Len(s) : s[k] = b[o[k]]
      BY <1>1 DEF IsSplit
    <2>3. QED BY <1>2, <2>1, <2>2
  <1>5. s \in Sorts(b, rank)
    BY <1>3, <1>4 DEF Sorts
  <1>6. \A k \in 1 .. Len(p) : FALSE
    OBVIOUS
  <1>7. QED BY <1>2, <1>5, <1>6 DEF Giving

\* Some element of a list is the first of the least.
LEMMA FirstLeastExists ==
    ASSUME NEW S, NEW rank \in [S -> Nat], NEW p \in Seq(S), Len(p) # 0
    PROVE  \E i : IsFirstLeastOf(p, rank, i)
  <1> DEFINE ranks == { rank[p[j]] : j \in 1 .. Len(p) }
  <1>1. Len(p) \in Nat /\ \A j \in 1 .. Len(p) : rank[p[j]] \in Nat
    <2>1. \A j \in 1 .. Len(p) : p[j] \in S
      BY ElementOfSeq
    <2>2. QED BY <2>1, LenProperties
  <1>2. ranks \in SUBSET Nat /\ ranks # {}
    <2>1. 1 \in 1 .. Len(p)
      BY <1>1
    <2>2. QED BY <1>1, <2>1
  <1>3. PICK m \in ranks : \A x \in ranks : m <= x
    BY <1>2, LeastExists
  <1> DEFINE least == { j \in 1 .. Len(p) : rank[p[j]] = m }
  <1>4. least \in SUBSET Nat /\ least # {}
    BY <1>3
  <1>5. PICK i \in least : \A j \in least : i <= j
    BY <1>4, LeastExists
  <1>6. i \in 1 .. Len(p) /\ rank[p[i]] = m
    OBVIOUS
  <1>7. \A j \in 1 .. Len(p) : m <= rank[p[j]]
    BY <1>3
  <1>8. ASSUME NEW j \in 1 .. i - 1 PROVE m < rank[p[j]]
    <2>1. j \in 1 .. Len(p) /\ ~(i <= j)
      BY <1>1, <1>6
    <2>2. rank[p[j]] # m
      BY <1>5, <2>1
    <2>3. m <= rank[p[j]] /\ rank[p[j]] \in Nat /\ m \in Nat
      BY <1>1, <1>6, <1>7, <2>1
    <2>4. QED BY <2>2, <2>3
  <1> HIDE DEF ranks, least
  <1>9. QED BY <1>6, <1>7, <1>8 DEF IsFirstLeastOf

\* Every list has a stable sort.
LEMMA SortExists ==
    ASSUME NEW S, NEW rank \in [S -> Nat], NEW b \in Seq(S)
    PROVE  Sorts(b, rank) # {}
  <1> DEFINE z == Len(b)
             Left(n) == \E s, p \in Seq(S) : Taking(b, rank, s, p) /\ Len(p) = z - n
             P == { n \in 0 .. z : Left(n) }
  <1>1. z \in Nat
    BY LenProperties
  <1>2. 0 \in P
    <2>1. <<>> \in Seq(S) /\ Taking(b, rank, <<>>, b)
      BY EmptySeq, TakingStarts
    <2>2. Len(b) = z - 0
      BY <1>1
    <2> HIDE DEF z
    <2>3. Left(0)
      BY <2>1, <2>2
    <2>4. QED BY <1>1, <2>3
  <1>3. ASSUME NEW n \in 1 .. z, n - 1 \in P PROVE n \in P
    <2>1. PICK s, p \in Seq(S) : Taking(b, rank, s, p) /\ Len(p) = z - (n - 1)
      BY <1>3
    <2>2. Len(p) # 0 /\ Len(p) - 1 = z - n
      BY <1>1, <2>1
    <2>3. PICK i : IsFirstLeastOf(p, rank, i)
      BY <2>2, FirstLeastExists
    <2>4. i \in DOMAIN p /\ p[i] \in S
      BY <2>3, LenProperties, ElementOfSeq DEF IsFirstLeastOf
    <2>5. Append(s, p[i]) \in Seq(S)
      BY <2>4, AppendProperties
    <2>6. Dropping(b, rank, Append(s, p[i]), p, i)
      BY <2>1, <2>3, TakingOne
    <2>7. Taking(b, rank, Append(s, p[i]), RemoveAt(p, i))
      BY <2>5, <2>6, DroppingOne
    <2>8. RemoveAt(p, i) \in Seq(S) /\ Len(RemoveAt(p, i)) = Len(p) - 1
      BY <2>4, RemoveAtProperties
    <2>9. Left(n)
      BY <2>2, <2>5, <2>7, <2>8
    <2>10. QED BY <2>9
  <1>4. z \in P
    <2> HIDE DEF P
    <2>1. \A n \in 0 .. z : n \in P
      BY <1>1, <1>2, <1>3, InductionUpTo
    <2>2. QED BY <1>1, <2>1
  <1>5. PICK s, p \in Seq(S) : Taking(b, rank, s, p) /\ Len(p) = z - z
    BY <1>4
  <1>6. Giving(b, rank, s, p)
    <2>1. Len(p) = 0
      BY <1>1, <1>5
    <2>2. Taking(b, rank, s, p)
      BY <1>5
    <2>3. QED BY <2>1, <2>2, TakingEnds
  <1>7. QED BY <1>6 DEF Giving

\* One position is before another or the other before it, and not both.
LEMMA BeforeIsOrder ==
    ASSUME NEW S, NEW rank \in [S -> Nat], NEW b \in Seq(S), NEW i \in DOMAIN b, NEW j \in DOMAIN b
    PROVE  ~(Before(b, rank, i, j) /\ Before(b, rank, j, i))
  <1>1. i \in Nat /\ j \in Nat /\ b[i] \in S /\ b[j] \in S
    BY LenProperties, ElementOfSeq
  <1>2. rank[b[i]] \in Nat /\ rank[b[j]] \in Nat
    BY <1>1
  <1>3. QED BY <1>1, <1>2 DEF Before

\* The positions of a list in the order of a stable sort.
IsOrder(b, rank, o) ==
    /\ o \in [DOMAIN b -> DOMAIN b]
    /\ \A j, k \in DOMAIN b : j < k => Before(b, rank, o[j], o[k])

HasAll(b, o) == \A i \in DOMAIN b : \E k \in DOMAIN b : o[k] = i

\* Every position of a list has its place in a sort of it.
LEMMA OrderIsOnto ==
    ASSUME NEW S, NEW rank \in [S -> Nat], NEW b \in Seq(S), NEW o, IsOrder(b, rank, o)
    PROVE  HasAll(b, o)
  <1>o. /\ o \in [DOMAIN b -> DOMAIN b]
        /\ \A j, k \in DOMAIN b : j < k => Before(b, rank, o[j], o[k])
    BY DEF IsOrder
  <1>1. DOMAIN b = 1 .. Len(b) /\ Len(b) \in Nat /\ IsFiniteSet(DOMAIN b)
    BY LenProperties, FS_Interval
  <1>2. ASSUME NEW j \in DOMAIN b, NEW k \in DOMAIN b, o[j] = o[k] PROVE j = k
    <2>1. ~Before(b, rank, o[j], o[k]) /\ ~Before(b, rank, o[k], o[j])
      BY <1>2, <1>o, BeforeIsOrder
    <2>2. ~(j < k) /\ ~(k < j)
      BY <1>o, <2>1
    <2>3. QED BY <1>1, <2>2
  <1>3. o \in Injection(DOMAIN b, DOMAIN b)
    BY <1>2, <1>o DEF Injection, IsInjective
  <1>4. o \in Surjection(DOMAIN b, DOMAIN b)
    BY <1>1, <1>3, FS_Injection
  <1>5. QED BY <1>4 DEF Surjection, HasAll

\* Two stable sorts of a list are the same.
LEMMA SortIsUnique ==
    ASSUME NEW S, NEW rank \in [S -> Nat], NEW b \in Seq(S),
           NEW s \in Sorts(b, rank), NEW t \in Sorts(b, rank)
    PROVE  s = t
  <1>o. PICK o \in [DOMAIN b -> DOMAIN b] :
           s = [k \in DOMAIN b |-> b[o[k]]] /\ IsOrder(b, rank, o)
    BY DEF Sorts, IsOrder
  <1>q. PICK q \in [DOMAIN b -> DOMAIN b] :
           t = [k \in DOMAIN b |-> b[q[k]]] /\ IsOrder(b, rank, q)
    BY DEF Sorts, IsOrder
  <1>a. HasAll(b, o)
    BY <1>o, OrderIsOnto
  <1>c. HasAll(b, q)
    BY <1>q, OrderIsOnto
  <1> DEFINE D == DOMAIN b
  <1>1. /\ o \in [D -> D] /\ s = [k \in D |-> b[o[k]]]
        /\ \A j, k \in D : j < k => Before(b, rank, o[j], o[k])
    BY <1>o DEF IsOrder
  <1>2. /\ q \in [D -> D] /\ t = [k \in D |-> b[q[k]]]
        /\ \A j, k \in D : j < k => Before(b, rank, q[j], q[k])
    BY <1>q DEF IsOrder
  <1>3. D \in SUBSET Nat
    BY LenProperties
  <1>4. \A i \in D : (\E k \in D : o[k] = i) /\ (\E k \in D : q[k] = i)
    BY <1>a, <1>c DEF HasAll
  <1>b. \A i, j \in D : ~(Before(b, rank, i, j) /\ Before(b, rank, j, i))
    BY BeforeIsOrder
  <1> HIDE DEF D
  <1> DEFINE T == { k \in D : o[k] # q[k] }
  <1>5. T = {}
    <2> SUFFICES ASSUME T # {} PROVE FALSE
      OBVIOUS
    <2>1. PICK x \in T : \A y \in T : x <= y
      BY <1>3, LeastExists
    <2>2. x \in D /\ o[x] # q[x] /\ o[x] \in D /\ q[x] \in D
      BY <1>1, <1>2
    <2>3. PICK j \in D : q[j] = o[x]
      BY <1>4, <2>2
    <2>4. PICK m \in D : o[m] = q[x]
      BY <1>4, <2>2
    <2>5. x \in Nat /\ j \in Nat /\ m \in Nat
      BY <1>3, <2>2, <2>3, <2>4
    <2>6. x < j
      <3>1. ASSUME j < x PROVE FALSE
        <4>1. o[j] = q[j]
          BY <2>1, <2>3, <2>5, <3>1
        <4>2. Before(b, rank, o[j], o[x])
          BY <1>1, <2>2, <2>3, <3>1
        <4>3. o[j] = o[x]
          BY <2>3, <4>1
        <4>4. QED BY <1>b, <2>2, <4>2, <4>3
      <3>2. j # x
        BY <2>2, <2>3
      <3>3. QED BY <2>5, <3>1, <3>2
    <2>7. x < m
      <3>1. ASSUME m < x PROVE FALSE
        <4>1. o[m] = q[m]
          BY <2>1, <2>4, <2>5, <3>1
        <4>2. Before(b, rank, q[m], q[x])
          BY <1>2, <2>2, <2>4, <3>1
        <4>3. q[m] = q[x]
          BY <2>4, <4>1
        <4>4. QED BY <1>b, <2>2, <4>2, <4>3
      <3>2. m # x
        BY <2>2, <2>4
      <3>3. QED BY <2>5, <3>1, <3>2
    <2>8. Before(b, rank, o[x], q[x])
      BY <1>1, <2>2, <2>4, <2>7
    <2>9. Before(b, rank, q[x], o[x])
      BY <1>2, <2>2, <2>3, <2>6
    <2>10. QED BY <1>b, <2>2, <2>8, <2>9
  <1>6. \A k \in D : b[o[k]] = b[q[k]]
    BY <1>5
  <1>7. QED BY <1>1, <1>2, <1>6

\* A stable sort by rank makes one list of a list, and no other: Sorts stands for
\* a function.
THEOREM SortIsDetermined ==
    ASSUME NEW S, NEW rank \in [S -> Nat], NEW b \in Seq(S)
    PROVE  \E s : Sorts(b, rank) = {s}
  <1>1. PICK s : s \in Sorts(b, rank)
    BY SortExists
  <1>2. \A t \in Sorts(b, rank) : s = t
    BY <1>1, SortIsUnique
  <1>3. QED BY <1>1, <1>2
=============================================================================
