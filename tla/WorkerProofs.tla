---------------------------- MODULE WorkerProofs ----------------------------
(***************************************************************************)
(* Proofs about what a worker does with the files of a request: Merge, of  *)
(* any directive lists, level by level; and the two modules in which the   *)
(* workers of a server share files: DirCache, for any number of workers,   *)
(* files, inodes and contents, any sizes, and edits and restarts at any    *)
(* moment; and BotChallenge, for any number of workers and clients, any    *)
(* addresses and any clock.                                                *)
(***************************************************************************)
EXTENDS DirCache, BotChallenge, Merge, FiniteSetTheorems, SequenceTheorems,
        WellFoundedInduction, TLAPS

(***************************************************************************)
(* The merge of the levels.  Its loops are recursive functions: what they  *)
(* yield is shown from their values, of which there is no first that is    *)
(* wrong (UpTo).                                                           *)
(***************************************************************************)

(***************************************************************************)
(* Induction, for sets: a set of indexes that is not empty has a first     *)
(* element.                                                                *)
(***************************************************************************)
LEMMA FirstFailure ==
  ASSUME NEW S \in SUBSET Nat, S # {}
  PROVE  \E i \in S : \A j \in Nat : j < i => j \notin S
  <1>1. PICK i \in S : \A j \in S : ~ (<<j, i>> \in OpToRel(<, Nat))
    BY NatLessThanWellFounded, WFMin
  <1>2. \A j \in S : ~ (j < i)
    BY <1>1 DEF OpToRel
  <1> QED
    BY <1>2

\* From base, each value from the one before.
From(base, step, n, f) ==
  f = [i \in 0 .. n |-> IF i = 0 THEN base ELSE step[<<f[i - 1], i>>]]

\* There is a function whose values follow from one another.
LEMMA Recursively ==
  ASSUME NEW n \in Nat, NEW S, NEW base \in S, NEW step \in [S \X (1 .. n) -> S]
  PROVE  \E f \in [0 .. n -> S] : From(base, step, n, f)
  <1> DEFINE Good(m) == \E f \in [0 .. m -> S] : From(base, step, m, f)
             Bad == {m \in 0 .. n : ~ Good(m)}
  <1>1. ASSUME Bad # {} PROVE FALSE
    <2>0. Bad \in SUBSET Nat
      OBVIOUS
    <2>1. PICK m \in Bad : \A k \in Nat : k < m => k \notin Bad
      <3> HIDE DEF Bad
      <3> QED
        BY <1>1, <2>0, FirstFailure
    <2>2. CASE m = 0
      <3> DEFINE f == [i \in 0 .. 0 |-> base]
      <3>1. f \in [0 .. 0 -> S]
        OBVIOUS
      <3>2. From(base, step, 0, f)
        BY DEF From
      <3> QED
        BY <2>1, <2>2, <3>1, <3>2
    <2>3. CASE m > 0
      <3>1. m - 1 \in Nat /\ m - 1 < m /\ m - 1 \in 0 .. n /\ m \in 1 .. n
        BY <2>3
      <3>2. PICK f \in [0 .. m - 1 -> S] : From(base, step, m - 1, f)
        BY <2>1, <3>1
      <3>3. \A i \in 0 .. m - 1 : f[i] = IF i = 0 THEN base ELSE step[<<f[i - 1], i>>]
        BY <3>2 DEF From
      <3>4. step[<<f[m - 1], m>>] \in S
        BY <3>1
      <3> DEFINE g == [i \in 0 .. m |-> IF i < m THEN f[i] ELSE step[<<f[m - 1], m>>]]
      <3>5. g \in [0 .. m -> S]
        BY <2>3, <3>1, <3>4
      <3>6. ASSUME NEW i \in 0 .. m
            PROVE  g[i] = IF i = 0 THEN base ELSE step[<<g[i - 1], i>>]
        <4>1. CASE i = m
          <5>1. g[m - 1] = f[m - 1]
            BY <2>3, <3>1
          <5>2. g[i] = step[<<f[m - 1], m>>]
            BY <4>1, <2>3, <3>1
          <5> HIDE DEF g
          <5> QED
            BY <2>3, <4>1, <5>1, <5>2
        <4>2. CASE i # m
          <5>1. i \in 0 .. m - 1 /\ (i = 0 \/ i - 1 \in 0 .. m - 1)
            BY <3>1, <4>2
          <5>2. g[i] = f[i] /\ (i = 0 \/ g[i - 1] = f[i - 1])
            BY <3>1, <5>1
          <5> HIDE DEF g
          <5> QED
            BY <3>3, <5>1, <5>2
        <4> QED
          BY <4>1, <4>2
      <3>7. From(base, step, m, g)
        <4>1. g = [i \in 0 .. m |-> g[i]]
          OBVIOUS
        <4> HIDE DEF g
        <4> QED
          BY <3>6, <4>1 DEF From
      <3> QED
        BY <2>1, <3>5, <3>7
    <2> QED
      BY <2>1, <2>2, <2>3
  <1> QED
    BY <1>1

\* What holds of 0, and passes from each index to the next, holds of the last.
LEMMA UpTo ==
  ASSUME NEW n \in Nat, NEW Good, 0 \in Good,
         \A i \in 1 .. n : i - 1 \in Good => i \in Good
  PROVE  n \in Good
  <1> DEFINE Bad == {i \in 0 .. n : i \notin Good}
  <1>1. ASSUME Bad # {} PROVE FALSE
    <2>0. Bad \in SUBSET Nat
      OBVIOUS
    <2>1. PICK i \in Bad : \A k \in Nat : k < i => k \notin Bad
      <3> HIDE DEF Bad
      <3> QED
        BY <1>1, <2>0, FirstFailure
    <2>2. i \in 1 .. n /\ i - 1 \in 0 .. n /\ i - 1 \in Nat /\ i - 1 < i
      OBVIOUS
    <2>3. i - 1 \in Good
      BY <2>1, <2>2
    <2> QED
      BY <2>2, <2>3
  <1> QED
    BY <1>1

(***************************************************************************)
(* One directive.                                                          *)
(***************************************************************************)
Alone(list) == \A i, j \in DOMAIN list : i # j => ~ MatchForOverride(list[i], list[j])

\* Overriding one another is symmetric.
LEMMA MatchSymmetric ==
  \A a, b : MatchForOverride(a, b) => MatchForOverride(b, a)
  BY DEF MatchForOverride

\* What overrides the same overrides each other: a list without doubles has at most one match.
LEMMA MatchTransitive ==
  \A a, b, c : MatchForOverride(a, b) /\ MatchForOverride(b, c) => MatchForOverride(a, c)
  <1>1. NamedTypes \cap {"Allow", "Deny"} = {}
    BY DEF NamedTypes
  <1> QED
    BY <1>1 DEF MatchForOverride

\* What a list holds is what it held, but for what d matches, and d.
Replaced(list, d, to) ==
  \A e : (\E i \in DOMAIN to : to[i] = e)
          <=> (e = d \/ \E i \in DOMAIN list : list[i] = e /\ ~ MatchForOverride(e, d))

\* A directive takes the place of the only one that it matches, or the end.
LEMMA MergeOneReplaces ==
  ASSUME NEW D, NEW list \in Seq(D), NEW d \in D, Alone(list)
  PROVE  /\ MergeOne(list, d) \in Seq(D) /\ MergeOne(list, d) # <<>>
         /\ Alone(MergeOne(list, d))
         /\ Replaced(list, d, MergeOne(list, d))
  <1> DEFINE n == Len(list)
             at == {i \in 1 .. Len(list) : MatchForOverride(list[i], d)}
             to == MergeOne(list, d)
  <1>0. n \in Nat /\ DOMAIN list = 1 .. n /\ \A i \in 1 .. n : list[i] \in D
    BY LenProperties, ElementOfSeq
  <1>1. to = IF at = {} THEN Append(list, d) ELSE [list EXCEPT ![Min(at)] = d]
    BY DEF MergeOne
  <1>2. CASE at = {}
    <2>1. to = Append(list, d)
      BY <1>1, <1>2
    <2>2. \A i \in 1 .. n : ~ MatchForOverride(list[i], d)
      BY <1>2
    <2> HIDE DEF at, to
    <2>3. /\ to \in Seq(D) /\ DOMAIN to = 1 .. n + 1 /\ Len(to) = n + 1
          /\ to[n + 1] = d /\ \A i \in 1 .. n : to[i] = list[i]
      BY <2>1, AppendProperties
    <2>4. to # <<>>
      BY <1>0, <2>3
    <2>5. ASSUME NEW i \in 1 .. n + 1, NEW j \in 1 .. n + 1, i # j
          PROVE  ~ MatchForOverride(to[i], to[j])
      <3> HIDE DEF n
      <3>1. CASE i \in 1 .. n /\ j \in 1 .. n
        BY <1>0, <2>3, <2>5, <3>1 DEF Alone
      <3>2. CASE i = n + 1
        <4>1. j \in 1 .. n
          BY <1>0, <2>5, <3>2
        <4> QED
          BY <2>2, <2>3, <3>2, <4>1, MatchSymmetric
      <3>3. CASE j = n + 1
        <4>1. i \in 1 .. n
          BY <1>0, <2>5, <3>3
        <4> QED
          BY <2>2, <2>3, <3>3, <4>1
      <3> QED
        BY <1>0, <3>1, <3>2, <3>3
    <2>6. Alone(to)
      BY <2>3, <2>5 DEF Alone
    <2>7. n + 1 \in 1 .. n + 1 /\ \A i \in 1 .. n + 1 : i = n + 1 \/ i \in 1 .. n
      BY <1>0
    <2>8. Replaced(list, d, to)
      <3> HIDE DEF n
      <3>1. \A i \in 1 .. n + 1 :
              to[i] = d \/ (i \in 1 .. n /\ to[i] = list[i] /\ ~ MatchForOverride(to[i], d))
        BY <2>2, <2>3, <2>7
      <3>2. \A i \in 1 .. n : i \in 1 .. n + 1 /\ to[i] = list[i]
        BY <1>0, <2>3
      <3> QED
        BY <1>0, <2>3, <2>7, <3>1, <3>2, Zenon DEF Replaced
    <2> QED
      BY <2>3, <2>4, <2>6, <2>8 DEF to
  <1>3. CASE at # {}
    <2>1. PICK k \in at : TRUE
      BY <1>3
    <2>2. k \in 1 .. n /\ MatchForOverride(list[k], d)
      BY <2>1
    <2>3. ASSUME NEW i \in 1 .. n, i # k PROVE ~ MatchForOverride(list[i], d)
      BY <1>0, <2>2, <2>3, MatchSymmetric, MatchTransitive DEF Alone
    <2>4. at = {k}
      BY <2>2, <2>3
    <2>5. Min(at) = k
      BY <2>2, <2>4 DEF Min
    <2>6. to = [list EXCEPT ![k] = d]
      BY <1>1, <1>3, <2>5
    <2> HIDE DEF at, to
    <2>7. /\ to \in Seq(D) /\ DOMAIN to = 1 .. n /\ to[k] = d
          /\ \A i \in 1 .. n : i # k => to[i] = list[i]
      BY <1>0, <2>2, <2>6, ExceptSeq
    <2>8. to # <<>>
      BY <1>0, <2>2, <2>7
    <2>9. ASSUME NEW i \in 1 .. n, NEW j \in 1 .. n, i # j
          PROVE  ~ MatchForOverride(to[i], to[j])
      <3>1. CASE i # k /\ j # k
        BY <1>0, <2>7, <2>9, <3>1 DEF Alone
      <3>2. CASE i = k
        BY <2>3, <2>7, <2>9, <3>2, MatchSymmetric
      <3>3. CASE j = k
        BY <2>3, <2>7, <2>9, <3>3
      <3> QED
        BY <3>1, <3>2, <3>3
    <2>10. Alone(to)
      BY <2>7, <2>9 DEF Alone
    <2>11. Replaced(list, d, to)
      <3> HIDE DEF n
      <3>1. \A i \in 1 .. n : to[i] = d \/ (to[i] = list[i] /\ ~ MatchForOverride(to[i], d))
        BY <2>3, <2>7
      <3>2. \A i \in 1 .. n : ~ MatchForOverride(list[i], d) => to[i] = list[i]
        BY <2>2, <2>7
      <3> QED
        BY <1>0, <2>2, <2>7, <3>1, <3>2, Zenon DEF Replaced
    <2> QED
      BY <2>7, <2>8, <2>10, <2>11 DEF to
  <1> QED
    BY <1>2, <1>3

\* A place of a list, or its end.
LEMMA MergeOneType ==
  ASSUME NEW D, NEW list \in Seq(D), NEW d \in D
  PROVE  MergeOne(list, d) \in Seq(D)
  <1> DEFINE at == {i \in 1 .. Len(list) : MatchForOverride(list[i], d)}
  <1>0. Len(list) \in Nat /\ DOMAIN list = 1 .. Len(list)
    BY LenProperties
  <1>1. MergeOne(list, d) = IF at = {} THEN Append(list, d) ELSE [list EXCEPT ![Min(at)] = d]
    BY DEF MergeOne
  <1>2. ASSUME at # {} PROVE Min(at) \in 1 .. Len(list)
    <2>1. at \in SUBSET Nat /\ at \subseteq 1 .. Len(list)
      BY <1>0
    <2> HIDE DEF at
    <2>2. PICK k \in at : \A j \in Nat : j < k => j \notin at
      BY <1>2, <2>1, FirstFailure
    <2>3. \A j \in at : k <= j
      BY <2>1, <2>2
    <2>4. Min(at) \in at
      BY <2>3 DEF Min
    <2> QED
      BY <2>1, <2>4
  <1> HIDE DEF at
  <1> QED
    BY <1>0, <1>1, <1>2, AppendProperties, ExceptSeq

(***************************************************************************)
(* The loops.                                                              *)
(***************************************************************************)
MergeUpTo(parent, child, m) ==
  m = [i \in 0 .. Len(child) |-> IF i = 0 THEN parent ELSE MergeOne(m[i - 1], child[i])]

\* The values of the loop over the child.
LEMMA MergeLoop ==
  ASSUME NEW D, NEW parent \in Seq(D), NEW child \in Seq(D), parent # <<>>
  PROVE  \E m :
           /\ m[0] = parent
           /\ \A i \in 1 .. Len(child) : m[i] = MergeOne(m[i - 1], child[i])
           /\ Merge(parent, child) = m[Len(child)]
  <1> DEFINE n == Len(child)
  <1>0. n \in Nat /\ \A i \in 1 .. n : child[i] \in D
    BY LenProperties, ElementOfSeq
  <1>1. \E m : MergeUpTo(parent, child, m)
    <2> DEFINE step == [x \in Seq(D) \X (1 .. n) |-> MergeOne(x[1], child[x[2]])]
    <2>1. step \in [Seq(D) \X (1 .. n) -> Seq(D)]
      BY <1>0, MergeOneType
    <2>2. \A u \in Seq(D), i \in 1 .. n : step[<<u, i>>] = MergeOne(u, child[i])
      OBVIOUS
    <2> HIDE DEF step, n
    <2>3. PICK m \in [0 .. n -> Seq(D)] : From(parent, step, n, m)
      BY <1>0, <2>1, Recursively
    <2>4. \A i \in 0 .. n : m[i] = IF i = 0 THEN parent ELSE step[<<m[i - 1], i>>]
      BY <2>3 DEF From
    <2>5. ASSUME NEW i \in 0 .. n
          PROVE  m[i] = IF i = 0 THEN parent ELSE MergeOne(m[i - 1], child[i])
      <3>1. CASE i = 0
        BY <2>4, <3>1
      <3>2. CASE i # 0
        <4>1. i \in 1 .. n /\ i - 1 \in 0 .. n
          BY <1>0, <3>2
        <4>2. m[i - 1] \in Seq(D)
          BY <2>3, <4>1
        <4> QED
          BY <2>2, <2>4, <3>2, <4>1, <4>2
      <3> QED
        BY <3>1, <3>2
    <2>6. m = [i \in 0 .. n |-> m[i]]
      BY <2>3
    <2>7. MergeUpTo(parent, child, m)
      BY <2>5, <2>6 DEF MergeUpTo, n
    <2> QED
      BY <2>3, <2>7
  <1>2. \E m : Merge(parent, child) = m[n] /\ MergeUpTo(parent, child, m)
    <2> DEFINE m == CHOOSE m : MergeUpTo(parent, child, m)
    <2>1. Merge(parent, child) = m[Len(child)]
      BY DEF Merge, MergeUpTo
    <2>2. MergeUpTo(parent, child, m)
      BY <1>1
    <2> QED
      BY <2>1, <2>2
  <1>3. PICK m : Merge(parent, child) = m[n] /\ MergeUpTo(parent, child, m)
    BY <1>2
  <1> HIDE DEF n
  <1>4. \A i \in 0 .. n : m[i] = IF i = 0 THEN parent ELSE MergeOne(m[i - 1], child[i])
    BY <1>3 DEF MergeUpTo, n
  <1>5. 0 \in 0 .. n /\ \A i \in 1 .. n : i \in 0 .. n /\ i # 0
    BY <1>0
  <1>6. m[0] = parent
    BY <1>4, <1>5
  <1>7. ASSUME NEW i \in 1 .. n PROVE m[i] = MergeOne(m[i - 1], child[i])
    BY <1>4, <1>5
  <1> QED
    BY <1>3, <1>6, <1>7 DEF n

LevelsUpTo(levels, m) ==
  m = [i \in 0 .. Len(levels) |-> IF i = 0 THEN <<>> ELSE Merge(m[i - 1], levels[i])]

\* Lists of directives merge into one.
LEMMA MergeType ==
  ASSUME NEW D, NEW parent \in Seq(D), NEW child \in Seq(D)
  PROVE  Merge(parent, child) \in Seq(D)
  <1> DEFINE n == Len(child)
  <1>0. n \in Nat /\ \A i \in 1 .. n : child[i] \in D
    BY LenProperties, ElementOfSeq
  <1>1. CASE parent = <<>>
    BY <1>1 DEF Merge
  <1>2. CASE parent # <<>>
    <2>1. PICK m : /\ m[0] = parent
                   /\ \A i \in 1 .. n : m[i] = MergeOne(m[i - 1], child[i])
                   /\ Merge(parent, child) = m[n]
      BY <1>2, MergeLoop
    <2> DEFINE Good == {i \in 0 .. n : m[i] \in Seq(D)}
    <2> HIDE DEF n
    <2>2. 0 \in Good
      BY <1>0, <2>1
    <2>3. ASSUME NEW i \in 1 .. n, i - 1 \in Good PROVE i \in Good
      <3>1. m[i - 1] \in Seq(D) /\ i \in 0 .. n
        BY <1>0, <2>3
      <3> QED
        BY <1>0, <2>1, <3>1, MergeOneType
    <2> HIDE DEF Good
    <2>4. n \in Good
      BY <1>0, <2>2, <2>3, UpTo
    <2> QED
      BY <2>1, <2>4 DEF Good
  <1> QED
    BY <1>1, <1>2

\* The values of the loop over the levels.
LEMMA LevelsLoop ==
  ASSUME NEW D, NEW levels \in Seq(Seq(D))
  PROVE  \E m :
           /\ m[0] = <<>>
           /\ \A i \in 1 .. Len(levels) : m[i] = Merge(m[i - 1], levels[i])
           /\ MergeLevels(levels) = m[Len(levels)]
  <1> DEFINE n == Len(levels)
  <1>0. n \in Nat /\ \A i \in 1 .. n : levels[i] \in Seq(D)
    BY LenProperties, ElementOfSeq
  <1>1. \E m : LevelsUpTo(levels, m)
    <2> DEFINE step == [x \in Seq(D) \X (1 .. n) |-> Merge(x[1], levels[x[2]])]
    <2>1. step \in [Seq(D) \X (1 .. n) -> Seq(D)]
      BY <1>0, MergeType
    <2>2. \A u \in Seq(D), i \in 1 .. n : step[<<u, i>>] = Merge(u, levels[i])
      OBVIOUS
    <2> HIDE DEF step, n
    <2>3. PICK m \in [0 .. n -> Seq(D)] : From(<<>>, step, n, m)
      <3>1. <<>> \in Seq(D)
        OBVIOUS
      <3> QED
        BY <1>0, <2>1, <3>1, Recursively
    <2>4. \A i \in 0 .. n : m[i] = IF i = 0 THEN <<>> ELSE step[<<m[i - 1], i>>]
      BY <2>3 DEF From
    <2>5. ASSUME NEW i \in 0 .. n
          PROVE  m[i] = IF i = 0 THEN <<>> ELSE Merge(m[i - 1], levels[i])
      <3>1. CASE i = 0
        BY <2>4, <3>1
      <3>2. CASE i # 0
        <4>1. i \in 1 .. n /\ i - 1 \in 0 .. n
          BY <1>0, <3>2
        <4>2. m[i - 1] \in Seq(D)
          BY <2>3, <4>1
        <4> QED
          BY <2>2, <2>4, <3>2, <4>1, <4>2
      <3> QED
        BY <3>1, <3>2
    <2>6. m = [i \in 0 .. n |-> m[i]]
      BY <2>3
    <2>7. LevelsUpTo(levels, m)
      BY <2>5, <2>6 DEF LevelsUpTo, n
    <2> QED
      BY <2>3, <2>7
  <1>2. \E m : MergeLevels(levels) = m[n] /\ LevelsUpTo(levels, m)
    <2> DEFINE m == CHOOSE m : LevelsUpTo(levels, m)
    <2>1. MergeLevels(levels) = m[Len(levels)]
      BY DEF MergeLevels, LevelsUpTo
    <2>2. LevelsUpTo(levels, m)
      BY <1>1
    <2> QED
      BY <2>1, <2>2
  <1>3. PICK m : MergeLevels(levels) = m[n] /\ LevelsUpTo(levels, m)
    BY <1>2
  <1> HIDE DEF n
  <1>4. \A i \in 0 .. n : m[i] = IF i = 0 THEN <<>> ELSE Merge(m[i - 1], levels[i])
    BY <1>3 DEF LevelsUpTo, n
  <1>5. 0 \in 0 .. n /\ \A i \in 1 .. n : i \in 0 .. n /\ i # 0
    BY <1>0
  <1>6. m[0] = <<>>
    BY <1>4, <1>5
  <1>7. ASSUME NEW i \in 1 .. n PROVE m[i] = Merge(m[i - 1], levels[i])
    BY <1>4, <1>5
  <1> QED
    BY <1>3, <1>6, <1>7 DEF n


(***************************************************************************)
(* One list after another: what stays of the parent, and of the child.     *)
(***************************************************************************)
Stays(parent, child, n, to) ==
  \A e : (\E i \in DOMAIN to : to[i] = e)
          <=> \/ \E j \in DOMAIN parent :
                   parent[j] = e /\ \A l \in 1 .. n : ~ MatchForOverride(e, child[l])
              \/ \E k \in 1 .. n :
                   child[k] = e /\ \A l \in k + 1 .. n : ~ MatchForOverride(e, child[l])

\* What stays when the child has one directive more.
LEMMA OneMore ==
  ASSUME NEW parent, NEW child, NEW n \in Nat, n # 0, NEW from, NEW to,
         Stays(parent, child, n - 1, from), Replaced(from, child[n], to)
  PROVE  Stays(parent, child, n, to)
  <1> DEFINE Had(e, m) == \E j \in DOMAIN parent :
                 parent[j] = e /\ \A l \in 1 .. m : ~ MatchForOverride(e, child[l])
             Got(e, m) == \E k \in 1 .. m :
                 child[k] = e /\ \A l \in k + 1 .. m : ~ MatchForOverride(e, child[l])
  <1>1. n \in 1 .. n /\ (n + 1 .. n) = {} /\ n - 1 \in Nat
    OBVIOUS
  <1>2. ASSUME NEW e PROVE Had(e, n) <=> (Had(e, n - 1) /\ ~ MatchForOverride(e, child[n]))
    <2>1. \A l \in 1 .. n : l = n \/ l \in 1 .. n - 1
      OBVIOUS
    <2>2. \A l \in 1 .. n - 1 : l \in 1 .. n
      OBVIOUS
    <2> QED
      BY <1>1, <2>1, <2>2
  <1>3. ASSUME NEW e
        PROVE  Got(e, n) <=> (e = child[n] \/ (Got(e, n - 1) /\ ~ MatchForOverride(e, child[n])))
    <2>1. ASSUME Got(e, n), e # child[n] PROVE Got(e, n - 1) /\ ~ MatchForOverride(e, child[n])
      <3>1. PICK k \in 1 .. n : child[k] = e /\ \A l \in k + 1 .. n : ~ MatchForOverride(e, child[l])
        BY <2>1
      <3>2. k # n /\ k \in 1 .. n - 1 /\ n \in k + 1 .. n
        BY <2>1, <3>1
      <3>3. \A l \in k + 1 .. n - 1 : l \in k + 1 .. n
        OBVIOUS
      <3> QED
        BY <3>1, <3>2, <3>3
    <2>2. ASSUME Got(e, n - 1), ~ MatchForOverride(e, child[n]) PROVE Got(e, n)
      <3>1. PICK k \in 1 .. n - 1 : child[k] = e /\ \A l \in k + 1 .. n - 1 : ~ MatchForOverride(e, child[l])
        BY <2>2
      <3>2. k \in 1 .. n /\ \A l \in k + 1 .. n : l = n \/ l \in k + 1 .. n - 1
        OBVIOUS
      <3> QED
        BY <2>2, <3>1, <3>2
    <2>3. ASSUME e = child[n] PROVE Got(e, n)
      BY <1>1, <2>3
    <2> QED
      BY <2>1, <2>2, <2>3
  <1>4. \A e : (\E i \in DOMAIN from : from[i] = e) <=> (Had(e, n - 1) \/ Got(e, n - 1))
    BY DEF Stays
  <1>5. \A e : (\E i \in DOMAIN to : to[i] = e)
               <=> (e = child[n] \/ \E i \in DOMAIN from : from[i] = e /\ ~ MatchForOverride(e, child[n]))
    BY DEF Replaced
  <1>6. ASSUME NEW e PROVE (\E i \in DOMAIN to : to[i] = e) <=> (Had(e, n) \/ Got(e, n))
    <2> HIDE DEF Had, Got
    <2> QED
      BY <1>2, <1>3, <1>4, <1>5
  <1> QED
    BY <1>6 DEF Stays

\* What stays of two lists.
LEMMA MergeStays ==
  ASSUME NEW D, NEW parent \in Seq(D), NEW child \in Seq(D), Alone(parent),
         parent # <<>> \/ Alone(child)
  PROVE  /\ Alone(Merge(parent, child))
         /\ Stays(parent, child, Len(child), Merge(parent, child))
         /\ Merge(parent, child) = <<>> => parent = <<>> /\ child = <<>>
  <1> DEFINE n == Len(child)
  <1>0. n \in Nat /\ DOMAIN child = 1 .. n /\ \A i \in 1 .. n : child[i] \in D
    BY LenProperties, ElementOfSeq
  <1>1. CASE parent = <<>>
    <2>1. Merge(parent, child) = child /\ Alone(child) /\ DOMAIN parent = {}
      BY <1>1 DEF Merge
    <2>2. ASSUME NEW k \in 1 .. n, NEW l \in k + 1 .. n PROVE ~ MatchForOverride(child[k], child[l])
      <3> HIDE DEF n
      <3>1. l \in 1 .. n /\ k # l
        BY <1>0
      <3> QED
        BY <1>0, <2>1, <3>1 DEF Alone
    <2>3. Stays(parent, child, n, child)
      <3> HIDE DEF n
      <3> QED
        BY <1>0, <2>1, <2>2, Zenon DEF Stays
    <2> QED
      BY <1>1, <2>1, <2>3
  <1>2. CASE parent # <<>>
    <2>1. PICK m : /\ m[0] = parent
                   /\ \A i \in 1 .. n : m[i] = MergeOne(m[i - 1], child[i])
                   /\ Merge(parent, child) = m[n]
      BY <1>2, MergeLoop
    <2> HIDE DEF n
    <2> DEFINE Right(i) == /\ m[i] \in Seq(D) /\ m[i] # <<>> /\ Alone(m[i])
                           /\ Stays(parent, child, i, m[i])
               Good == {i \in 0 .. n : Right(i)}
    <2>2. Right(0)
      <3>1. Stays(parent, child, 0, parent)
        <4>1. 1 .. 0 = {}
          OBVIOUS
        <4> QED
          BY <4>1, Zenon DEF Stays
      <3> QED
        BY <1>2, <2>1, <3>1
    <2>3. ASSUME NEW i \in 1 .. n, Right(i - 1) PROVE Right(i)
      <3>1. m[i] = MergeOne(m[i - 1], child[i]) /\ child[i] \in D /\ i \in Nat /\ i # 0
        BY <1>0, <2>1
      <3>2. /\ m[i] \in Seq(D) /\ m[i] # <<>> /\ Alone(m[i])
            /\ Replaced(m[i - 1], child[i], m[i])
        BY <2>3, <3>1, MergeOneReplaces
      <3>3. Stays(parent, child, i, m[i])
        BY <2>3, <3>1, <3>2, OneMore
      <3> QED
        BY <3>2, <3>3
    <2> HIDE DEF Right
    <2>4. 0 \in Good /\ \A i \in 1 .. n : i - 1 \in Good => i \in Good
      BY <1>0, <2>2, <2>3
    <2> HIDE DEF Good
    <2>5. n \in Good
      BY <1>0, <2>4, UpTo
    <2>6. Right(n)
      BY <2>5 DEF Good
    <2> QED
      BY <2>1, <2>6 DEF Right, n
  <1> QED
    BY <1>1, <1>2

(***************************************************************************)
(* The directives of the first n levels: the last of those that override   *)
(* one another stands.                                                     *)
(***************************************************************************)
LastOfIts(levels, n, i, k) ==
  \A j \in i .. n : \A l \in DOMAIN levels[j] :
    (j > i \/ l > k) => ~ MatchForOverride(levels[i][k], levels[j][l])
Stands(levels, n, d) ==
  \E i \in 1 .. n : \E k \in DOMAIN levels[i] :
    levels[i][k] = d /\ LastOfIts(levels, n, i, k)

\* What stands when there is one level more.
LEMMA OneLevelMore ==
  ASSUME NEW D, NEW levels \in Seq(Seq(D)), NEW n \in 1 .. Len(levels), NEW from, NEW to,
         \A d : (\E i \in DOMAIN from : from[i] = d) <=> Stands(levels, n - 1, d),
         Stays(from, levels[n], Len(levels[n]), to)
  PROVE  \A d : (\E i \in DOMAIN to : to[i] = d) <=> Stands(levels, n, d)
  <1> DEFINE L == Len(levels[n])
  <1>0. /\ n \in Nat /\ n - 1 \in Nat /\ n \in 1 .. n
        /\ L \in Nat /\ DOMAIN levels[n] = 1 .. L
    <2>1. levels[n] \in Seq(D)
      BY ElementOfSeq
    <2> QED
      BY <2>1, LenProperties
  <1>1. ASSUME NEW i \in 1 .. n - 1, NEW k
        PROVE  LastOfIts(levels, n, i, k)
                <=> (/\ LastOfIts(levels, n - 1, i, k)
                     /\ \A l \in 1 .. L : ~ MatchForOverride(levels[i][k], levels[n][l]))
    <2> HIDE DEF L
    <2>1. n \in i .. n /\ n > i /\ \A j \in i .. n - 1 : j \in i .. n
      BY <1>0
    <2>2. \A j \in i .. n : j = n \/ j \in i .. n - 1
      BY <1>0
    <2> QED
      BY <1>0, <2>1, <2>2 DEF LastOfIts
  <1>2. ASSUME NEW k \in 1 .. L
        PROVE  LastOfIts(levels, n, n, k)
                <=> \A l \in k + 1 .. L : ~ MatchForOverride(levels[n][k], levels[n][l])
    <2> HIDE DEF L
    <2>1. \A j \in n .. n : j = n
      BY <1>0
    <2>2. \A l \in 1 .. L : l > k <=> l \in k + 1 .. L
      BY <1>0
    <2>3. \A l \in k + 1 .. L : l \in 1 .. L
      BY <1>0
    <2>4. n \in n .. n /\ ~ (n > n)
      BY <1>0
    <2> QED
      BY <1>0, <2>1, <2>2, <2>3, <2>4 DEF LastOfIts
  <1>3. ASSUME NEW d
        PROVE  Stands(levels, n, d)
                <=> \/ /\ Stands(levels, n - 1, d)
                       /\ \A l \in 1 .. L : ~ MatchForOverride(d, levels[n][l])
                    \/ \E k \in 1 .. L : /\ levels[n][k] = d
                                         /\ \A l \in k + 1 .. L : ~ MatchForOverride(d, levels[n][l])
    <2> HIDE DEF L
    <2>1. \A i \in 1 .. n : i = n \/ i \in 1 .. n - 1
      BY <1>0
    <2>2. \A i \in 1 .. n - 1 : i \in 1 .. n
      BY <1>0
    <2> DEFINE Kept == /\ Stands(levels, n - 1, d)
                       /\ \A l \in 1 .. L : ~ MatchForOverride(d, levels[n][l])
               Added == \E k \in 1 .. L : /\ levels[n][k] = d
                                         /\ \A l \in k + 1 .. L : ~ MatchForOverride(d, levels[n][l])
    <2>3. ASSUME Stands(levels, n, d) PROVE Kept \/ Added
      <3>1. PICK i \in 1 .. n : \E k \in DOMAIN levels[i] :
                levels[i][k] = d /\ LastOfIts(levels, n, i, k)
        BY <2>3 DEF Stands
      <3>2. PICK k \in DOMAIN levels[i] : levels[i][k] = d /\ LastOfIts(levels, n, i, k)
        BY <3>1
      <3>3. CASE i = n
        <4>1. k \in 1 .. L /\ levels[n][k] = d
          BY <1>0, <3>2, <3>3
        <4>2. \A l \in k + 1 .. L : ~ MatchForOverride(d, levels[n][l])
          BY <1>2, <3>2, <3>3, <4>1
        <4> QED
          BY <4>1, <4>2
      <3>4. CASE i \in 1 .. n - 1
        <4>1. /\ LastOfIts(levels, n - 1, i, k)
              /\ \A l \in 1 .. L : ~ MatchForOverride(d, levels[n][l])
          BY <1>1, <3>2, <3>4, Zenon
        <4> QED
          BY <3>2, <3>4, <4>1, Zenon DEF Stands
      <3> QED
        BY <2>1, <3>3, <3>4
    <2>4. ASSUME Kept PROVE Stands(levels, n, d)
      <3>1. PICK i \in 1 .. n - 1 : \E k \in DOMAIN levels[i] :
                levels[i][k] = d /\ LastOfIts(levels, n - 1, i, k)
        BY <2>4 DEF Stands
      <3>2. PICK k \in DOMAIN levels[i] : levels[i][k] = d /\ LastOfIts(levels, n - 1, i, k)
        BY <3>1
      <3>3. LastOfIts(levels, n, i, k)
        BY <1>1, <2>4, <3>2, Zenon
      <3> QED
        BY <2>2, <3>2, <3>3, Zenon DEF Stands
    <2>5. ASSUME Added PROVE Stands(levels, n, d)
      <3>1. PICK k \in 1 .. L : /\ levels[n][k] = d
                               /\ \A l \in k + 1 .. L : ~ MatchForOverride(d, levels[n][l])
        BY <2>5
      <3>2. LastOfIts(levels, n, n, k)
        BY <1>2, <3>1, Zenon
      <3> QED
        BY <1>0, <3>1, <3>2, Zenon DEF Stands
    <2> QED
      BY <2>3, <2>4, <2>5
  <1>4. ASSUME NEW d
        PROVE  (\E i \in DOMAIN to : to[i] = d)
                <=> \/ \E j \in DOMAIN from :
                         from[j] = d /\ \A l \in 1 .. L : ~ MatchForOverride(d, levels[n][l])
                    \/ \E k \in 1 .. L : /\ levels[n][k] = d
                                         /\ \A l \in k + 1 .. L : ~ MatchForOverride(d, levels[n][l])
    BY Zenon DEF Stays
  <1> HIDE DEF L
  <1> QED
    BY <1>3, <1>4, Zenon

(***************************************************************************)
(* The merge of the levels of a walk (merge_directives, level by level in  *)
(* htaccess_dirwalk), for any directives and any number of levels: of      *)
(* those that override one another exactly one is left, the last, of the   *)
(* lowest level that has one; all others are left as they are, and nothing *)
(* else is.  The first file that is not empty is copied without a look at  *)
(* its directives, so that nothing is said of one that overrides itself;   *)
(* those of the lower levels may.                                          *)
(***************************************************************************)
THEOREM NearestLevelWins ==
  ASSUME NEW D, NEW levels \in Seq(Seq(D)),
         \A i \in DOMAIN levels : (\A j \in 1 .. i - 1 : levels[j] = <<>>) => Alone(levels[i])
  PROVE  /\ Alone(MergeLevels(levels))
         /\ \A d : d \in Range(MergeLevels(levels)) <=> Stands(levels, Len(levels), d)
  <1> DEFINE n == Len(levels)
  <1>0. n \in Nat /\ DOMAIN levels = 1 .. n /\ \A i \in 1 .. n : levels[i] \in Seq(D)
    BY LenProperties, ElementOfSeq
  <1>1. PICK m : /\ m[0] = <<>>
                 /\ \A i \in 1 .. n : m[i] = Merge(m[i - 1], levels[i])
                 /\ MergeLevels(levels) = m[n]
    BY LevelsLoop
  <1> HIDE DEF n
  <1> DEFINE Right(i) ==
               /\ m[i] \in Seq(D) /\ Alone(m[i])
               /\ \A d : (\E k \in DOMAIN m[i] : m[i][k] = d) <=> Stands(levels, i, d)
               /\ m[i] = <<>> => \A j \in 1 .. i : levels[j] = <<>>
             Good == {i \in 0 .. n : Right(i)}
  <1>2. Right(0)
    <2>1. 1 .. 0 = {} /\ DOMAIN <<>> = {} /\ <<>> \in Seq(D)
      OBVIOUS
    <2>2. Alone(<<>>)
      BY <2>1 DEF Alone
    <2>3. \A d : ~ Stands(levels, 0, d)
      BY <2>1, Zenon DEF Stands
    <2> QED
      BY <1>1, <2>1, <2>2, <2>3, Zenon
  <1>3. ASSUME NEW i \in 1 .. n, Right(i - 1) PROVE Right(i)
    <2>1. m[i] = Merge(m[i - 1], levels[i]) /\ levels[i] \in Seq(D)
      BY <1>0, <1>1
    <2>2. m[i - 1] \in Seq(D) /\ Alone(m[i - 1])
      BY <1>3
    <2>3. m[i - 1] # <<>> \/ Alone(levels[i])
      BY <1>0, <1>3
    <2>4. /\ Alone(m[i])
          /\ Stays(m[i - 1], levels[i], Len(levels[i]), m[i])
          /\ m[i] = <<>> => m[i - 1] = <<>> /\ levels[i] = <<>>
      BY <2>1, <2>2, <2>3, MergeStays
    <2>5. m[i] \in Seq(D)
      BY <2>1, <2>2, MergeType
    <2>6. \A d : (\E k \in DOMAIN m[i] : m[i][k] = d) <=> Stands(levels, i, d)
      <3>1. \A d : (\E k \in DOMAIN m[i - 1] : m[i - 1][k] = d) <=> Stands(levels, i - 1, d)
        BY <1>3
      <3> HIDE DEF Right
      <3> QED
        BY <2>4, <3>1, OneLevelMore DEF n
    <2>7. m[i] = <<>> => \A j \in 1 .. i : levels[j] = <<>>
      <3>1. \A j \in 1 .. i : j = i \/ j \in 1 .. i - 1
        BY <1>0
      <3> QED
        BY <1>3, <2>4, <3>1
    <2> HIDE DEF n
    <2> QED
      BY <2>4, <2>5, <2>6, <2>7
  <1> HIDE DEF Right
  <1>4. 0 \in Good /\ \A i \in 1 .. n : i - 1 \in Good => i \in Good
    BY <1>0, <1>2, <1>3
  <1> HIDE DEF Good
  <1>5. n \in Good
    BY <1>0, <1>4, UpTo
  <1>6. Right(n)
    BY <1>5 DEF Good
  <1> QED
    BY <1>1, <1>6, Zenon DEF Right, n, Range

(***************************************************************************)
(* The directives that override nothing.                                   *)
(***************************************************************************)
Accumulates(d) == ~ MatchForOverride(d, d)
AddAccumulating(list, d) == IF Accumulates(d) THEN Append(list, d) ELSE list

\* Those of a list, and those of all levels, in order.
Accumulating(list) ==
  LET acc[i \in 0 .. Len(list)] ==
        IF i = 0 THEN <<>> ELSE AddAccumulating(acc[i - 1], list[i])
  IN  acc[Len(list)]
AllAccumulating(levels) ==
  LET all[i \in 0 .. Len(levels)] ==
        IF i = 0 THEN <<>> ELSE all[i - 1] \o Accumulating(levels[i])
  IN  all[Len(levels)]

\* What matches something at all does not accumulate.
LEMMA MatchedIsKeyed ==
  \A a, b : MatchForOverride(a, b) => ~ Accumulates(a) /\ ~ Accumulates(b)
  BY MatchSymmetric, MatchTransitive DEF Accumulates

AccUpTo(list, acc) ==
  acc = [i \in 0 .. Len(list) |-> IF i = 0 THEN <<>> ELSE AddAccumulating(acc[i - 1], list[i])]

\* The values of the loop over a list.
LEMMA AccLoop ==
  ASSUME NEW D, NEW list \in Seq(D)
  PROVE  \E acc :
           /\ acc[0] = <<>>
           /\ \A i \in 1 .. Len(list) : acc[i] = AddAccumulating(acc[i - 1], list[i])
           /\ \A i \in 0 .. Len(list) : acc[i] \in Seq(D)
           /\ Accumulating(list) = acc[Len(list)]
  <1> DEFINE n == Len(list)
  <1>0. n \in Nat /\ \A i \in 1 .. n : list[i] \in D
    BY LenProperties, ElementOfSeq
  <1>1. \E acc : AccUpTo(list, acc)
    <2> DEFINE step == [x \in Seq(D) \X (1 .. n) |-> AddAccumulating(x[1], list[x[2]])]
    <2>1. step \in [Seq(D) \X (1 .. n) -> Seq(D)]
      <3>1. \A u \in Seq(D), i \in 1 .. n : AddAccumulating(u, list[i]) \in Seq(D)
        BY <1>0, AppendProperties DEF AddAccumulating
      <3> QED
        BY <3>1
    <2>2. \A u \in Seq(D), i \in 1 .. n : step[<<u, i>>] = AddAccumulating(u, list[i])
      OBVIOUS
    <2>3. <<>> \in Seq(D)
      OBVIOUS
    <2> HIDE DEF step, n
    <2>4. PICK acc \in [0 .. n -> Seq(D)] : From(<<>>, step, n, acc)
      BY <1>0, <2>1, <2>3, Recursively
    <2>5. \A i \in 0 .. n : acc[i] = IF i = 0 THEN <<>> ELSE step[<<acc[i - 1], i>>]
      BY <2>4 DEF From
    <2>6. ASSUME NEW i \in 0 .. n
          PROVE  acc[i] = IF i = 0 THEN <<>> ELSE AddAccumulating(acc[i - 1], list[i])
      <3>1. CASE i = 0
        BY <2>5, <3>1
      <3>2. CASE i # 0
        <4>1. i \in 1 .. n /\ i - 1 \in 0 .. n
          BY <1>0, <3>2
        <4>2. acc[i - 1] \in Seq(D)
          BY <2>4, <4>1
        <4> QED
          BY <2>2, <2>5, <3>2, <4>1, <4>2
      <3> QED
        BY <3>1, <3>2
    <2>7. acc = [i \in 0 .. n |-> acc[i]]
      BY <2>4
    <2> QED
      BY <2>6, <2>7 DEF AccUpTo, n
  <1>2. \E acc : Accumulating(list) = acc[n] /\ AccUpTo(list, acc)
    <2> DEFINE acc == CHOOSE acc : AccUpTo(list, acc)
    <2>1. Accumulating(list) = acc[Len(list)]
      BY DEF Accumulating, AccUpTo
    <2>2. AccUpTo(list, acc)
      BY <1>1
    <2> QED
      BY <2>1, <2>2
  <1>3. PICK acc : Accumulating(list) = acc[n] /\ AccUpTo(list, acc)
    BY <1>2
  <1> HIDE DEF n
  <1>4. \A i \in 0 .. n : acc[i] = IF i = 0 THEN <<>> ELSE AddAccumulating(acc[i - 1], list[i])
    BY <1>3 DEF AccUpTo, n
  <1>5. 0 \in 0 .. n /\ \A i \in 1 .. n : i \in 0 .. n /\ i # 0
    BY <1>0
  <1>6. acc[0] = <<>>
    BY <1>4, <1>5
  <1>7. ASSUME NEW i \in 1 .. n PROVE acc[i] = AddAccumulating(acc[i - 1], list[i])
    BY <1>4, <1>5
  <1>8. ASSUME NEW m \in 0 .. n PROVE acc[m] \in Seq(D)
    <2> DEFINE Good == {i \in 0 .. m : acc[i] \in Seq(D)}
    <2>0. <<>> \in Seq(D)
      OBVIOUS
    <2>1. 0 \in Good
      <3>1. acc[0] \in Seq(D) /\ 0 \in 0 .. m
        BY <1>0, <1>6, <2>0
      <3> QED
        BY <3>1
    <2>2. ASSUME NEW i \in 1 .. m, i - 1 \in Good PROVE i \in Good
      <3>1. i \in 1 .. n /\ i \in 0 .. m /\ acc[i - 1] \in Seq(D)
        BY <1>0, <2>2
      <3>2. acc[i] = AddAccumulating(acc[i - 1], list[i]) /\ list[i] \in D
        BY <1>0, <1>7, <3>1
      <3> HIDE DEF Good
      <3>3. acc[i] \in Seq(D)
        BY <3>1, <3>2, AppendProperties DEF AddAccumulating
      <3> QED
        BY <3>1, <3>3 DEF Good
    <2>3. m \in Nat
      BY <1>0
    <2> HIDE DEF Good
    <2>4. m \in Good
      BY <2>1, <2>2, <2>3, UpTo
    <2> QED
      BY <2>4 DEF Good
  <1> QED
    BY <1>3, <1>6, <1>7, <1>8 DEF n

\* Loops that begin alike and go on alike end alike.
LEMMA Alike ==
  ASSUME NEW n \in Nat, NEW a, NEW b, a[0] = b[0],
         \A i \in 1 .. n : a[i - 1] = b[i - 1] => a[i] = b[i]
  PROVE  a[n] = b[n]
  <1> DEFINE Good == {i \in 0 .. n : a[i] = b[i]}
  <1>1. 0 \in Good
    OBVIOUS
  <1>2. ASSUME NEW i \in 1 .. n, i - 1 \in Good PROVE i \in Good
    BY <1>2
  <1> HIDE DEF Good
  <1>3. n \in Good
    BY <1>1, <1>2, UpTo
  <1> QED
    BY <1>3 DEF Good

\* One directive more.
LEMMA AccAppend ==
  ASSUME NEW D, NEW list \in Seq(D), NEW d \in D
  PROVE  Accumulating(Append(list, d)) = AddAccumulating(Accumulating(list), d)
  <1> DEFINE n == Len(list)
             to == Append(list, d)
  <1>0. /\ n \in Nat /\ to \in Seq(D) /\ Len(to) = n + 1 /\ to[n + 1] = d
        /\ \A i \in 1 .. n : to[i] = list[i]
    BY LenProperties, AppendProperties
  <1>1. PICK a : /\ a[0] = <<>>
                 /\ \A i \in 1 .. n : a[i] = AddAccumulating(a[i - 1], list[i])
                 /\ Accumulating(list) = a[n]
    BY AccLoop
  <1> HIDE DEF n, to
  <1>2. PICK b : /\ b[0] = <<>>
                 /\ \A i \in 1 .. n + 1 : b[i] = AddAccumulating(b[i - 1], to[i])
                 /\ Accumulating(to) = b[n + 1]
    <2>1. \E b : /\ b[0] = <<>>
                 /\ \A i \in 1 .. Len(to) : b[i] = AddAccumulating(b[i - 1], to[i])
                 /\ Accumulating(to) = b[Len(to)]
      BY <1>0, AccLoop
    <2> QED
      BY <1>0, <2>1, SMTT(30)
  <1>3. ASSUME NEW i \in 1 .. n, a[i - 1] = b[i - 1] PROVE a[i] = b[i]
    <2>1. i \in 1 .. n + 1
      BY <1>0
    <2> QED
      BY <1>0, <1>1, <1>2, <1>3, <2>1
  <1>4. a[n] = b[n]
    <2>1. n \in Nat /\ a[0] = b[0] /\ \A i \in 1 .. n : a[i - 1] = b[i - 1] => a[i] = b[i]
      BY <1>0, <1>1, <1>2, <1>3
    <2> QED
      BY <2>1, Alike
  <1>5. n + 1 \in 1 .. n + 1 /\ (n + 1) - 1 = n
    BY <1>0
  <1> QED
    BY <1>0, <1>1, <1>2, <1>4, <1>5 DEF to

\* A directive that overrides in the place of another that does.
LEMMA AccReplace ==
  ASSUME NEW D, NEW list \in Seq(D), NEW d \in D, NEW k \in 1 .. Len(list),
         ~ Accumulates(list[k]), ~ Accumulates(d)
  PROVE  Accumulating([list EXCEPT ![k] = d]) = Accumulating(list)
  <1> DEFINE n == Len(list)
             to == [list EXCEPT ![k] = d]
  <1>0. /\ n \in Nat /\ to \in Seq(D) /\ Len(to) = n /\ to[k] = d
        /\ \A i \in 1 .. n : i # k => to[i] = list[i]
    BY LenProperties, ExceptSeq
  <1>1. PICK a : /\ a[0] = <<>>
                 /\ \A i \in 1 .. n : a[i] = AddAccumulating(a[i - 1], list[i])
                 /\ Accumulating(list) = a[n]
    BY AccLoop
  <1> HIDE DEF n, to
  <1>2. PICK b : /\ b[0] = <<>>
                 /\ \A i \in 1 .. n : b[i] = AddAccumulating(b[i - 1], to[i])
                 /\ Accumulating(to) = b[n]
    BY <1>0, AccLoop
  <1>3. ASSUME NEW i \in 1 .. n, a[i - 1] = b[i - 1] PROVE a[i] = b[i]
    BY <1>0, <1>1, <1>2, <1>3 DEF AddAccumulating
  <1>4. a[n] = b[n]
    <2>1. n \in Nat /\ a[0] = b[0] /\ \A i \in 1 .. n : a[i - 1] = b[i - 1] => a[i] = b[i]
      BY <1>0, <1>1, <1>2, <1>3
    <2> QED
      BY <2>1, Alike
  <1> QED
    BY <1>1, <1>2, <1>4 DEF to

\* The merge of one directive.
LEMMA AccMergeOne ==
  ASSUME NEW D, NEW list \in Seq(D), NEW d \in D
  PROVE  Accumulating(MergeOne(list, d)) = AddAccumulating(Accumulating(list), d)
  <1> DEFINE at == {i \in 1 .. Len(list) : MatchForOverride(list[i], d)}
  <1>0. Len(list) \in Nat
    BY LenProperties
  <1>1. MergeOne(list, d) = IF at = {} THEN Append(list, d) ELSE [list EXCEPT ![Min(at)] = d]
    BY DEF MergeOne
  <1>2. ASSUME at # {} PROVE Min(at) \in at
    <2>1. at \in SUBSET Nat
      BY <1>0
    <2> HIDE DEF at
    <2>2. PICK k \in at : \A j \in Nat : j < k => j \notin at
      BY <1>2, <2>1, FirstFailure
    <2>3. \A j \in at : k <= j
      BY <2>1, <2>2
    <2> QED
      BY <2>3 DEF Min
  <1>3. CASE at = {}
    BY <1>1, <1>3, AccAppend
  <1>4. CASE at # {}
    <2>1. PICK k : k = Min(at) /\ k \in 1 .. Len(list) /\ MatchForOverride(list[k], d)
      BY <1>2, <1>4
    <2>2. ~ Accumulates(list[k]) /\ ~ Accumulates(d)
      BY <2>1, MatchedIsKeyed
    <2>3. MergeOne(list, d) = [list EXCEPT ![k] = d]
      BY <1>1, <1>4, <2>1
    <2> HIDE DEF at
    <2>4. Accumulating([list EXCEPT ![k] = d]) = Accumulating(list)
      BY <2>1, <2>2, AccReplace
    <2> QED
      BY <2>2, <2>3, <2>4, Zenon DEF AddAccumulating
  <1> QED
    BY <1>3, <1>4

\* Those of a list are a list of the same directives.
LEMMA AccType ==
  ASSUME NEW D, NEW list \in Seq(D)
  PROVE  Accumulating(list) \in Seq(D)
  <1>1. Len(list) \in Nat
    BY LenProperties
  <1> QED
    BY <1>1, AccLoop

\* Joining, and one more at the end.
Joined(s, t) == s \o t

LEMMA AddToConcat ==
  ASSUME NEW D, NEW s \in Seq(D), NEW t \in Seq(D), NEW d \in D
  PROVE  AddAccumulating(Joined(s, t), d) = Joined(s, AddAccumulating(t, d))
  <1>1. s \o t \in Seq(D) /\ <<d>> \in Seq(D)
    BY ConcatProperties
  <1>2. Append(s \o t, d) = (s \o t) \o <<d>>
    BY <1>1, AppendIsConcat
  <1>3. Append(t, d) = t \o <<d>>
    BY AppendIsConcat
  <1>4. (s \o t) \o <<d>> = s \o (t \o <<d>>)
    BY <1>1, ConcatAssociative
  <1> QED
    BY <1>2, <1>3, <1>4, Zenon DEF AddAccumulating, Joined

\* Two lists.
LEMMA AccMerge ==
  ASSUME NEW D, NEW parent \in Seq(D), NEW child \in Seq(D)
  PROVE  Accumulating(Merge(parent, child)) = Accumulating(parent) \o Accumulating(child)
  <1> DEFINE n == Len(child)
             P == Accumulating(parent)
  <1>0. n \in Nat /\ \A i \in 1 .. n : child[i] \in D
    BY LenProperties, ElementOfSeq
  <1>1. P \in Seq(D) /\ Accumulating(child) \in Seq(D)
    BY AccType
  <1> HIDE DEF n
  <1>2. CASE parent = <<>>
    <2>1. Merge(parent, child) = child
      BY <1>2 DEF Merge
    <2>2. P = <<>>
      <3>1. Len(parent) = 0
        BY <1>2
      <3> QED
        BY <3>1, AccLoop
    <2> HIDE DEF P
    <2> QED
      BY <1>1, <2>1, <2>2 DEF P
  <1>3. CASE parent # <<>>
    <2>1. PICK m : /\ m[0] = parent
                   /\ \A i \in 1 .. n : m[i] = MergeOne(m[i - 1], child[i])
                   /\ Merge(parent, child) = m[n]
      BY <1>3, MergeLoop DEF n
    <2>2. PICK a : /\ a[0] = <<>>
                   /\ \A i \in 1 .. n : a[i] = AddAccumulating(a[i - 1], child[i])
                   /\ \A i \in 0 .. n : a[i] \in Seq(D)
                   /\ Accumulating(child) = a[n]
      BY AccLoop DEF n
    <2> DEFINE Right(i) == m[i] \in Seq(D) /\ Accumulating(m[i]) = P \o a[i]
               Good == {i \in 0 .. n : Right(i)}
    <2>3. Right(0)
      <3> HIDE DEF P
      <3>1. P = P \o a[0]
        BY <1>1, <2>2
      <3> QED
        BY <2>1, <3>1 DEF P
    <2>4. ASSUME NEW i \in 1 .. n, Right(i - 1) PROVE Right(i)
      <3>1. /\ m[i] = MergeOne(m[i - 1], child[i]) /\ child[i] \in D
            /\ a[i] = AddAccumulating(a[i - 1], child[i])
            /\ m[i - 1] \in Seq(D) /\ a[i - 1] \in Seq(D)
        <4>1. i - 1 \in 0 .. n
          BY <1>0
        <4> QED
          BY <1>0, <2>1, <2>2, <2>4, <4>1
      <3>2. m[i] \in Seq(D)
        BY <3>1, MergeOneType
      <3>3. Accumulating(m[i]) = AddAccumulating(P \o a[i - 1], child[i])
        <4>1. Accumulating(m[i]) = AddAccumulating(Accumulating(m[i - 1]), child[i])
          BY <3>1, AccMergeOne
        <4> QED
          BY <2>4, <4>1
      <3>4. AddAccumulating(P \o a[i - 1], child[i]) = P \o a[i]
        <4> HIDE DEF P, Right, Good
        <4>1. AddAccumulating(Joined(P, a[i - 1]), child[i])
                = Joined(P, AddAccumulating(a[i - 1], child[i]))
          <5>1. P \in Seq(D) /\ a[i - 1] \in Seq(D) /\ child[i] \in D
            BY <1>1, <3>1
          <5> QED
            BY <5>1, AddToConcat
        <4> QED
          BY <3>1, <4>1, Zenon DEF Joined
      <3> QED
        BY <3>2, <3>3, <3>4
    <2> HIDE DEF Right
    <2>5. 0 \in Good /\ \A i \in 1 .. n : i - 1 \in Good => i \in Good
      BY <1>0, <2>3, <2>4
    <2> HIDE DEF Good
    <2>6. n \in Good
      BY <1>0, <2>5, UpTo
    <2>7. Right(n)
      BY <2>6 DEF Good
    <2> QED
      BY <2>1, <2>2, <2>7 DEF Right
  <1> QED
    BY <1>2, <1>3

AllUpTo(levels, all) ==
  all = [i \in 0 .. Len(levels) |-> IF i = 0 THEN <<>> ELSE all[i - 1] \o Accumulating(levels[i])]

(***************************************************************************)
(* The directives that override nothing, RewriteRules and Require lines    *)
(* among them, are judged in the order in which they are written.  After   *)
(* the merge of the levels (merge_directives) all of them are there, each  *)
(* as often as it was written, in the order of the levels and of each      *)
(* file, whatever else the files hold, doubles included.                   *)
(***************************************************************************)
THEOREM OthersKeepTheirOrder ==
  ASSUME NEW D, NEW levels \in Seq(Seq(D))
  PROVE  Accumulating(MergeLevels(levels)) = AllAccumulating(levels)
  <1> DEFINE n == Len(levels)
  <1>0. n \in Nat /\ \A i \in 1 .. n : levels[i] \in Seq(D)
    BY LenProperties, ElementOfSeq
  <1>1. PICK m : /\ m[0] = <<>>
                 /\ \A i \in 1 .. n : m[i] = Merge(m[i - 1], levels[i])
                 /\ MergeLevels(levels) = m[n]
    BY LevelsLoop
  <1>2. PICK all : AllAccumulating(levels) = all[n] /\ AllUpTo(levels, all)
    <2>1. \E all : AllUpTo(levels, all)
      <3> DEFINE step == [x \in Seq(D) \X (1 .. n) |-> x[1] \o Accumulating(levels[x[2]])]
      <3>1. \A i \in 1 .. n : Accumulating(levels[i]) \in Seq(D)
        BY <1>0, AccType
      <3>2. step \in [Seq(D) \X (1 .. n) -> Seq(D)]
        BY <3>1, ConcatProperties
      <3>3. \A u \in Seq(D), i \in 1 .. n : step[<<u, i>>] = u \o Accumulating(levels[i])
        OBVIOUS
      <3>4. <<>> \in Seq(D)
        OBVIOUS
      <3> HIDE DEF step, n
      <3>5. PICK all \in [0 .. n -> Seq(D)] : From(<<>>, step, n, all)
        BY <1>0, <3>2, <3>4, Recursively
      <3>6. \A i \in 0 .. n : all[i] = IF i = 0 THEN <<>> ELSE step[<<all[i - 1], i>>]
        BY <3>5 DEF From
      <3>7. ASSUME NEW i \in 0 .. n
            PROVE  all[i] = IF i = 0 THEN <<>> ELSE all[i - 1] \o Accumulating(levels[i])
        <4>1. CASE i = 0
          BY <3>6, <4>1
        <4>2. CASE i # 0
          <5>1. i \in 1 .. n /\ i - 1 \in 0 .. n
            BY <1>0, <4>2
          <5>2. all[i - 1] \in Seq(D)
            BY <3>5, <5>1
          <5> QED
            BY <3>3, <3>6, <4>2, <5>1, <5>2
        <4> QED
          BY <4>1, <4>2
      <3>8. all = [i \in 0 .. n |-> all[i]]
        BY <3>5
      <3> QED
        BY <3>7, <3>8 DEF AllUpTo, n
    <2> DEFINE all == CHOOSE all : AllUpTo(levels, all)
    <2>2. AllAccumulating(levels) = all[Len(levels)]
      BY DEF AllAccumulating, AllUpTo
    <2>3. AllUpTo(levels, all)
      BY <2>1
    <2> QED
      BY <2>2, <2>3
  <1> HIDE DEF n
  <1>3. \A i \in 0 .. n :
          all[i] = IF i = 0 THEN <<>> ELSE all[i - 1] \o Accumulating(levels[i])
    BY <1>2 DEF AllUpTo, n
  <1> DEFINE Right(i) == m[i] \in Seq(D) /\ Accumulating(m[i]) = all[i]
             Good == {i \in 0 .. n : Right(i)}
  <1>4. Right(0)
    <2>1. <<>> \in Seq(D) /\ Len(<<>>) = 0 /\ 0 \in 0 .. n
      BY <1>0
    <2>2. Accumulating(<<>>) = <<>>
      BY <2>1, AccLoop
    <2> QED
      BY <1>1, <1>3, <2>1, <2>2, Zenon
  <1>5. ASSUME NEW i \in 1 .. n, Right(i - 1) PROVE Right(i)
    <2>1. /\ m[i] = Merge(m[i - 1], levels[i]) /\ levels[i] \in Seq(D)
          /\ m[i - 1] \in Seq(D) /\ Accumulating(m[i - 1]) = all[i - 1]
      BY <1>0, <1>1, <1>5
    <2>2. i \in 0 .. n /\ i # 0
      BY <1>0
    <2>3. all[i] = all[i - 1] \o Accumulating(levels[i])
      BY <1>3, <2>2
    <2>4. m[i] \in Seq(D)
      BY <2>1, MergeType
    <2>5. Accumulating(m[i]) = Accumulating(m[i - 1]) \o Accumulating(levels[i])
      BY <2>1, AccMerge
    <2> QED
      BY <2>1, <2>3, <2>4, <2>5
  <1> HIDE DEF Right
  <1>6. 0 \in Good /\ \A i \in 1 .. n : i - 1 \in Good => i \in Good
    BY <1>0, <1>4, <1>5
  <1> HIDE DEF Good
  <1>7. n \in Good
    BY <1>0, <1>6, UpTo
  <1>8. Right(n)
    BY <1>7 DEF Good
  <1> QED
    BY <1>1, <1>2, <1>8 DEF Right

-----------------------------------------------------------------------------
(***************************************************************************)
(* The walk of a request and the cache of each worker.                     *)
(***************************************************************************)
USE DirCacheAssumption

(***************************************************************************)
(* Types.                                                                  *)
(***************************************************************************)
Dirs      == Contents \cup {Nothing} \cup {Torn(c) : c \in Contents}
Nodes     == [content : Contents, mtime : Nat, trusted : BOOLEAN]
Keys      == [mtime : Nat, size : Nat, inode : Inodes \cup {NoInode}]
Levels    == [dirs : Dirs, racy : BOOLEAN]
Active    == {"stat", "open", "opened", "measured"}
Walks     == [pc : {"idle", "done"} \cup Active, path : Seq(Files), got : Seq(Levels),
              fd : Inodes \cup {NoInode}, key : Keys, size : Nat, when : Nat]
CacheRecs == [key : Keys, dirs : Dirs, when : Nat]

Types ==
  /\ clock \in Nat
  /\ link \in [Files -> Inodes \cup {NoInode}]
  /\ node \in [Files -> [Inodes -> Nodes]]
  /\ cache \in [Workers -> [Files -> CacheRecs \cup {NoEntry}]]
  /\ walk \in [Workers -> Walks]
  /\ seen \in [Workers -> [Files -> SUBSET (Contents \cup {Nothing})]]

(***************************************************************************)
(* What was seen of a file is what it gives now, and what its levels gave. *)
(***************************************************************************)
Times == \A f \in Files, j \in Inodes : node[f][j].mtime <= clock

SeenNow == \A w \in Workers, f \in Files : walk[w].pc # "idle" => ReadingAt(f) \in seen[w][f]

GoodLevel(level, now) ==
  \/ level.racy
  \/ level.dirs \in now
  \/ /\ \E c, d \in now : c # d
     /\ level.dirs \in {Nothing} \cup {Torn(c) : c \in now \cup TooLarge}

Placed(w) ==
  /\ Len(walk[w].got) <= Len(walk[w].path)
  /\ walk[w].pc \in Active => Len(walk[w].got) < Len(walk[w].path)

LevelsGood(w) ==
  \A i \in 1 .. Len(walk[w].got) : GoodLevel(walk[w].got[i], seen[w][walk[w].path[i]])

(***************************************************************************)
(* A file that is open: two sizes that were seen of it, unless it was seen *)
(* to give nothing; and a key that agrees with the inode, but for a change *)
(* in the second in which it was opened.                                   *)
(***************************************************************************)
OfSize(now, n) == \E c \in now : c \in Contents /\ SizeOf(c) = n

FileOpen(f, k, now) ==
  /\ k.fd \in Inodes /\ node[f][k.fd].trusted /\ Reading(node[f][k.fd]) \in now
  /\ k.key.inode = k.fd /\ k.key.mtime <= k.when /\ k.when <= clock
  /\ Nothing \in now \/ OfSize(now, k.key.size)
  /\ k.pc = "measured" =>
       /\ k.size \in 1 .. SizeLimit /\ OfSize(now, k.size)
       /\ KeyOf(f, k.fd) = k.key => k.key.mtime = k.when \/ k.size = k.key.size

OpenGood(w) == walk[w].pc \in {"opened", "measured"} => FileOpen(File(w), walk[w], seen[w][File(w)])

WalksGood == \A w \in Workers : Placed(w) /\ LevelsGood(w) /\ OpenGood(w)

(***************************************************************************)
(* A cached file: if its key still fits, its directives do, but for a      *)
(* change in the second in which it was opened.                            *)
(***************************************************************************)
EntryGood(f, e) ==
  /\ e.key.inode \in Inodes /\ e.key.mtime <= e.when /\ e.when <= clock
  /\ KeyOf(f, e.key.inode) = e.key =>
       e.key.mtime = e.when \/ e.dirs = Reading(node[f][e.key.inode])

CachesGood ==
  \A w \in Workers, f \in Files : cache[w][f] # NoEntry => EntryGood(f, cache[w][f])

DirInv == Types /\ Times /\ SeenNow /\ WalksGood /\ CachesGood

-----------------------------------------------------------------------------
(***************************************************************************)
(* Small facts.                                                            *)
(***************************************************************************)
\* What a file gives is a content or nothing.
LEMMA ReadingType ==
  ASSUME NEW n \in Nodes
  PROVE  /\ Reading(n) \in Contents \cup {Nothing}
         /\ SizeOf(n.content) \in Nat /\ n.content \in Contents
  BY DEF Reading, Nodes

\* More seen does no harm to what has been read.
LEMMA MoreSeen ==
  ASSUME NEW level, NEW now, NEW later, now \subseteq later, GoodLevel(level, now)
  PROVE  GoodLevel(level, later)
  BY DEF GoodLevel

\* The file a walk is at.
LEMMA FileType ==
  ASSUME Types, NEW w \in Workers, Placed(w), walk[w].pc \in Active
  PROVE  File(w) \in Files /\ Len(walk[w].got) \in Nat /\ Len(walk[w].got) + 1 \in 1 .. Len(walk[w].path)
  <1>1. walk[w].path \in Seq(Files) /\ walk[w].got \in Seq(Levels)
    BY DEF Types, Walks
  <1>2. Len(walk[w].path) \in Nat /\ Len(walk[w].got) \in Nat
    BY <1>1
  <1>3. Len(walk[w].got) < Len(walk[w].path)
    BY DEF Placed
  <1>4. Len(walk[w].got) + 1 \in 1 .. Len(walk[w].path)
    BY <1>2, <1>3
  <1> QED
    BY <1>1, <1>2, <1>4, ElementOfSeq DEF File

\* The keys the disk shows have the type of keys.
LEMMA KeyType ==
  ASSUME Types, NEW f \in Files, NEW j \in Inodes
  PROVE  /\ node[f][j] \in Nodes /\ KeyOf(f, j) \in Keys
         /\ KeyOf(f, j).mtime = node[f][j].mtime /\ KeyOf(f, j).inode = j
         /\ KeyOf(f, j).size = SizeOf(node[f][j].content)
         /\ SizeOf(node[f][j].content) \in Nat
  <1>1. node[f][j] \in Nodes
    BY DEF Types
  <1>2. SizeOf(node[f][j].content) \in Nat /\ node[f][j].mtime \in Nat
    BY <1>1 DEF Nodes
  <1> QED
    BY <1>1, <1>2 DEF KeyOf, Keys, Size

-----------------------------------------------------------------------------
(***************************************************************************)
(* An edit.  What it leaves of each inode, and what the walks see of it.   *)
(***************************************************************************)
Edited ==
  /\ UNCHANGED <<clock, cache, walk>>
  /\ link' \in [Files -> Inodes \cup {NoInode}]
  /\ node' \in [Files -> [Inodes -> Nodes]]
  /\ seen' \in [Workers -> [Files -> SUBSET (Contents \cup {Nothing})]]
  /\ \A w \in Workers, f \in Files : seen[w][f] \subseteq seen'[w][f]
  /\ \A w \in Workers, f \in Files : ReadingAt(f)' \in {ReadingAt(f)} \cup seen'[w][f]
  /\ \A f \in Files, j \in Inodes :
       \/ node'[f][j] = node[f][j]
       \/ /\ node'[f][j].mtime = clock
          /\ \/ ~IsOpenFile(f, j)
             \/ /\ node'[f][j].trusted = node[f][j].trusted
                /\ \A w \in Workers : Reading(node'[f][j]) \in seen'[w][f]

\* Writing, renaming and removing are edits.
LEMMA EditsEdit ==
  ASSUME Types, NEW g \in Files, Edit(g)
  PROVE  Edited
  <1>n. ASSUME NEW f \in Files, NEW r \in Contents \cup {Nothing}, Noted(f, r)
        PROVE  /\ seen' \in [Workers -> [Files -> SUBSET (Contents \cup {Nothing})]]
               /\ \A w \in Workers, h \in Files : seen[w][h] \subseteq seen'[w][h]
               /\ \A w \in Workers : r \in seen'[w][f]
    BY <1>n DEF Noted, Types
  <1>1. CASE \E c \in Contents : Write(g, c)
    <2>1. PICK c \in Contents : Write(g, c)
      BY <1>1
    <2> DEFINE j == link[g]
               n == New(c, node[g][j].trusted)
    <2>2. j \in Inodes /\ node[g][j] \in Nodes
      BY <2>1 DEF Write, Types
    <2>3. n \in Nodes /\ n.mtime = clock /\ n.trusted = node[g][j].trusted
      BY <2>2 DEF New, Nodes, Types
    <2>4. Reading(n) \in Contents \cup {Nothing}
      BY <2>3, ReadingType
    <2>5. node' = [node EXCEPT ![g][j] = n] /\ Noted(g, Reading(n)) /\ UNCHANGED <<clock, link, cache, walk>>
      BY <2>1 DEF Write
    <2> HIDE DEF n, j
    <2>6. /\ node' \in [Files -> [Inodes -> Nodes]]
          /\ node'[g][j] = n
          /\ \A f \in Files, i \in Inodes : f # g \/ i # j => node'[f][i] = node[f][i]
      BY <2>2, <2>3, <2>5 DEF Types
    <2>7. /\ seen' \in [Workers -> [Files -> SUBSET (Contents \cup {Nothing})]]
          /\ \A w \in Workers, h \in Files : seen[w][h] \subseteq seen'[w][h]
          /\ \A w \in Workers : Reading(n) \in seen'[w][g]
      BY <1>n, <2>4, <2>5
    <2>8. ASSUME NEW w \in Workers, NEW f \in Files
          PROVE  ReadingAt(f)' \in {ReadingAt(f)} \cup seen'[w][f]
      <3>1. link'[f] = link[f] /\ link[f] \in Inodes \cup {NoInode}
        BY <2>5 DEF Types
      <3>2. CASE f = g /\ link[f] = j
        BY <2>2, <2>6, <2>7, <3>1, <3>2 DEF ReadingAt
      <3>3. CASE f # g \/ link[f] # j
        BY <2>6, <3>1, <3>3 DEF ReadingAt
      <3> QED
        BY <3>2, <3>3
    <2>9. ASSUME NEW f \in Files, NEW i \in Inodes, node'[f][i] # node[f][i]
          PROVE  /\ node'[f][i].mtime = clock /\ node'[f][i].trusted = node[f][i].trusted
                 /\ \A w \in Workers : Reading(node'[f][i]) \in seen'[w][f]
      BY <2>3, <2>6, <2>7, <2>9
    <2> QED
      BY <2>5, <2>6, <2>7, <2>8, <2>9 DEF Edited, Types
  <1>2. CASE \E c \in Contents, j \in Inodes, trusted \in BOOLEAN : Rename(g, j, c, trusted)
    <2>1. PICK c \in Contents, j \in Inodes, trusted \in BOOLEAN : Rename(g, j, c, trusted)
      BY <1>2
    <2> DEFINE n == New(c, trusted)
    <2>2. n \in Nodes /\ n.mtime = clock
      BY DEF New, Nodes, Types
    <2>3. Reading(n) \in Contents \cup {Nothing}
      BY <2>2, ReadingType
    <2>4. /\ node' = [node EXCEPT ![g][j] = n] /\ link' = [link EXCEPT ![g] = j]
          /\ ~IsOpenFile(g, j) /\ Noted(g, Reading(n)) /\ UNCHANGED <<clock, cache, walk>>
      BY <2>1 DEF Rename
    <2> HIDE DEF n
    <2>5. /\ node' \in [Files -> [Inodes -> Nodes]]
          /\ node'[g][j] = n
          /\ \A f \in Files, i \in Inodes : f # g \/ i # j => node'[f][i] = node[f][i]
      BY <2>2, <2>4 DEF Types
    <2>6. /\ link' \in [Files -> Inodes \cup {NoInode}] /\ link'[g] = j
          /\ \A f \in Files : f # g => link'[f] = link[f]
      BY <2>4 DEF Types
    <2>7. /\ seen' \in [Workers -> [Files -> SUBSET (Contents \cup {Nothing})]]
          /\ \A w \in Workers, h \in Files : seen[w][h] \subseteq seen'[w][h]
          /\ \A w \in Workers : Reading(n) \in seen'[w][g]
      BY <1>n, <2>3, <2>4
    <2>8. ASSUME NEW w \in Workers, NEW f \in Files
          PROVE  ReadingAt(f)' \in {ReadingAt(f)} \cup seen'[w][f]
      <3>0. j # NoInode
        OBVIOUS
      <3>1. CASE f = g
        BY <2>5, <2>6, <2>7, <3>0, <3>1 DEF ReadingAt
      <3>2. CASE f # g
        <4>1. link'[f] = link[f] /\ link[f] \in Inodes \cup {NoInode}
          BY <2>6, <3>2 DEF Types
        <4> QED
          BY <2>5, <3>2, <4>1 DEF ReadingAt
      <3> QED
        BY <3>1, <3>2
    <2>9. ASSUME NEW f \in Files, NEW i \in Inodes, node'[f][i] # node[f][i]
          PROVE  node'[f][i].mtime = clock /\ ~IsOpenFile(f, i)
      <3>1. f = g /\ i = j
        BY <2>5, <2>9
      <3> QED
        BY <2>2, <2>4, <2>5, <3>1
    <2> QED
      BY <2>4, <2>5, <2>6, <2>7, <2>8, <2>9 DEF Edited
  <1>3. CASE Unlink(g)
    <2>1. /\ link' = [link EXCEPT ![g] = NoInode] /\ Noted(g, Nothing)
          /\ UNCHANGED <<clock, node, cache, walk>>
      BY <1>3 DEF Unlink
    <2>2. /\ link' \in [Files -> Inodes \cup {NoInode}] /\ link'[g] = NoInode
          /\ \A f \in Files : f # g => link'[f] = link[f]
      BY <2>1 DEF Types
    <2>3. /\ seen' \in [Workers -> [Files -> SUBSET (Contents \cup {Nothing})]]
          /\ \A w \in Workers, h \in Files : seen[w][h] \subseteq seen'[w][h]
          /\ \A w \in Workers : Nothing \in seen'[w][g]
      BY <1>n, <2>1
    <2>4. ASSUME NEW w \in Workers, NEW f \in Files
          PROVE  ReadingAt(f)' \in {ReadingAt(f)} \cup seen'[w][f]
      BY <2>1, <2>2, <2>3 DEF ReadingAt
    <2>5. node' \in [Files -> [Inodes -> Nodes]]
      BY <2>1 DEF Types
    <2> QED
      BY <2>1, <2>2, <2>3, <2>4, <2>5 DEF Edited
  <1> QED
    BY <1>1, <1>2, <1>3 DEF Edit

\* An edit keeps the invariant.
LEMMA EditKeeps ==
  ASSUME DirInv, Edited
  PROVE  DirInv'
  <1>0. Types /\ Times /\ SeenNow /\ WalksGood /\ CachesGood
    BY DEF DirInv
  <1>1. Types'
    BY <1>0 DEF Types, Edited
  <1>2. Times'
    BY <1>0, SMTT(30) DEF Times, Types, Edited, Nodes
  <1>3. SeenNow'
    <2> SUFFICES ASSUME NEW w \in Workers, NEW f \in Files, walk[w].pc # "idle"
                 PROVE  ReadingAt(f)' \in seen'[w][f]
      BY DEF SeenNow, Edited
    <2>1. ReadingAt(f) \in seen[w][f] /\ seen[w][f] \subseteq seen'[w][f]
      BY <1>0 DEF SeenNow, Edited
    <2>2. ReadingAt(f)' \in {ReadingAt(f)} \cup seen'[w][f]
      BY DEF Edited
    <2> QED
      BY <2>1, <2>2
  <1>4. WalksGood'
    <2> SUFFICES ASSUME NEW w \in Workers
                 PROVE  Placed(w)' /\ LevelsGood(w)' /\ OpenGood(w)'
      BY DEF WalksGood
    <2>1. Placed(w) /\ LevelsGood(w) /\ OpenGood(w) /\ walk' = walk /\ clock' = clock
      BY <1>0 DEF WalksGood, Edited
    <2>2. Placed(w)'
      BY <2>1 DEF Placed
    <2>3. walk[w].path \in Seq(Files) /\ walk[w].got \in Seq(Levels)
      BY <1>0 DEF Types, Walks
    <2>4. LevelsGood(w)'
      <3> SUFFICES ASSUME NEW i \in 1 .. Len(walk[w].got)
                   PROVE  GoodLevel(walk[w].got[i], seen'[w][walk[w].path[i]])
        BY <2>1 DEF LevelsGood
      <3>1. i \in 1 .. Len(walk[w].path)
        BY <2>1, <2>3 DEF Placed
      <3>2. walk[w].path[i] \in Files
        BY <2>3, <3>1, ElementOfSeq
      <3>3. seen[w][walk[w].path[i]] \subseteq seen'[w][walk[w].path[i]]
        BY <3>2 DEF Edited
      <3>4. GoodLevel(walk[w].got[i], seen[w][walk[w].path[i]])
        BY <2>1 DEF LevelsGood
      <3> QED
        BY <3>3, <3>4, MoreSeen
    <2>5. OpenGood(w)'
      <3> SUFFICES ASSUME walk[w].pc \in {"opened", "measured"}
                   PROVE  OpenGood(w)'
        BY <2>1 DEF OpenGood
      <3> DEFINE f == File(w)
                 k == walk[w]
                 now == seen[w][f]
                 j == k.fd
      <3>1. f \in Files /\ File(w)' = f
        BY <1>0, <2>1, FileType DEF Active, File
      <3>2. FileOpen(f, k, now)
        BY <2>1 DEF OpenGood
      <3>3. now \subseteq seen'[w][f]
        BY <3>1 DEF Edited
      <3>4. j \in Inodes /\ k.key.inode = j
        BY <3>2 DEF FileOpen
      <3>5. IsOpenFile(f, j)
        BY DEF IsOpenFile, File
      <3>6. /\ node[f][j] \in Nodes /\ clock \in Nat
            /\ k.key.mtime \in Nat /\ k.key.size \in Nat /\ k.when \in Nat
        BY <1>0, <3>1, <3>4 DEF Types, Walks, Keys
      <3>7. \/ node'[f][j] = node[f][j]
            \/ /\ node'[f][j].mtime = clock /\ node'[f][j].trusted = node[f][j].trusted
               /\ Reading(node'[f][j]) \in seen'[w][f]
        BY <3>1, <3>4, <3>5 DEF Edited
      <3>8. Reading(node[f][j]) \in now /\ node[f][j].trusted
        BY <3>2 DEF FileOpen
      <3>9. Reading(node'[f][j]) \in seen'[w][f] /\ node'[f][j].trusted
        BY <3>3, <3>7, <3>8
      <3>10. KeyOf(f, j)' = KeyOf(f, j) \/ KeyOf(f, j)'.mtime = clock
        BY <2>1, <3>1, <3>7 DEF KeyOf, Size
      <3>11. ASSUME k.pc = "measured", KeyOf(f, j)' = k.key
             PROVE  k.key.mtime = k.when \/ k.size = k.key.size
        <4>1. CASE KeyOf(f, j)' = KeyOf(f, j)
          BY <3>2, <3>11, <4>1 DEF FileOpen
        <4>2. CASE KeyOf(f, j)'.mtime = clock
          <5>1. k.key.mtime = clock /\ k.key.mtime <= k.when /\ k.when <= clock
            BY <3>2, <3>11, <4>2 DEF FileOpen
          <5> QED
            BY <3>6, <5>1
        <4> QED
          BY <3>10, <4>1, <4>2
      <3>12. \A n : OfSize(now, n) => OfSize(seen'[w][f], n)
        BY <3>3 DEF OfSize
      <3>13. /\ k.key.mtime <= k.when /\ k.when <= clock
             /\ Nothing \in now \/ OfSize(now, k.key.size)
             /\ k.pc = "measured" => k.size \in 1 .. SizeLimit /\ OfSize(now, k.size)
        BY <3>2 DEF FileOpen
      <3>14. /\ Nothing \in seen'[w][f] \/ OfSize(seen'[w][f], k.key.size)
             /\ k.pc = "measured" => OfSize(seen'[w][f], k.size)
        BY <3>3, <3>12, <3>13
      <3>15. k' = k
        BY <2>1
      <3> HIDE DEF k, f, j, now
      <3>16. FileOpen(f, k, seen[w][f])'
        BY <2>1, <3>1, <3>4, <3>9, <3>11, <3>13, <3>14, <3>15 DEF FileOpen, f, j, k
      <3> QED
        BY <2>1, <3>1, <3>16 DEF OpenGood, f, k
    <2> QED
      BY <2>2, <2>4, <2>5
  <1>5. CachesGood'
    <2> SUFFICES ASSUME NEW w \in Workers, NEW f \in Files, cache[w][f] # NoEntry
                 PROVE  EntryGood(f, cache[w][f])'
      BY DEF CachesGood, Edited
    <2> DEFINE e == cache[w][f]
               j == e.key.inode
    <2>1. EntryGood(f, e) /\ e \in CacheRecs /\ cache' = cache /\ clock' = clock
      BY <1>0 DEF CachesGood, Types, Edited
    <2>2. j \in Inodes /\ e.key.mtime \in Nat /\ e.when \in Nat /\ clock \in Nat
      BY <1>0, <2>1 DEF EntryGood, CacheRecs, Keys, Types
    <2>3. node'[f][j] = node[f][j] \/ node'[f][j].mtime = clock
      BY <2>2 DEF Edited
    <2>4. e.key.mtime <= e.when /\ e.when <= clock
      BY <2>1 DEF EntryGood
    <2>5. ASSUME KeyOf(f, j)' = e.key
          PROVE  e.key.mtime = e.when \/ e.dirs = Reading(node'[f][j])
      <3>1. CASE node'[f][j] = node[f][j]
        <4>1. KeyOf(f, j) = e.key
          BY <2>1, <2>5, <3>1 DEF KeyOf, Size
        <4> QED
          BY <2>1, <3>1, <4>1 DEF EntryGood
      <3>2. CASE node'[f][j].mtime = clock
        <4>1. e.key.mtime = clock
          BY <2>1, <2>5, <3>2 DEF KeyOf
        <4> QED
          BY <2>2, <2>4, <4>1
      <3> QED
        BY <2>3, <3>1, <3>2
    <2>6. e' = e
      BY <2>1
    <2> HIDE DEF e
    <2> QED
      BY <2>1, <2>2, <2>4, <2>5, <2>6 DEF EntryGood, e
  <1> QED
    BY <1>1, <1>2, <1>3, <1>4, <1>5 DEF DirInv

-----------------------------------------------------------------------------
(***************************************************************************)
(* A step of a walk: the disk, and what is seen of it, stay.               *)
(***************************************************************************)
Quiet == UNCHANGED <<clock, link, node, seen>>

\* One worker's walk becomes k, which is good; the others stay as they are.
LEMMA WalkKeeps ==
  ASSUME DirInv, Quiet, NEW w \in Workers, NEW k \in Walks,
         walk' = [walk EXCEPT ![w] = k], walk[w].pc # "idle",
         Placed(w)', LevelsGood(w)', OpenGood(w)'
  PROVE  walk' \in [Workers -> Walks] /\ SeenNow' /\ WalksGood'
  <1>1. Types /\ SeenNow /\ WalksGood
    BY DEF DirInv
  <1>2. walk' \in [Workers -> Walks] /\ \A v \in Workers : v # w => walk'[v] = walk[v]
    BY <1>1 DEF Types
  <1>3. SeenNow'
    <2> SUFFICES ASSUME NEW v \in Workers, NEW f \in Files, walk'[v].pc # "idle"
                 PROVE  ReadingAt(f) \in seen[v][f]
      BY DEF SeenNow, ReadingAt, Quiet
    <2>1. walk[v].pc # "idle"
      BY <1>2
    <2> QED
      BY <1>1, <2>1 DEF SeenNow
  <1>4. ASSUME NEW v \in Workers, v # w
        PROVE  Placed(v)' /\ LevelsGood(v)' /\ OpenGood(v)'
    <2>1. walk'[v] = walk[v] /\ Placed(v) /\ LevelsGood(v) /\ OpenGood(v)
      BY <1>1, <1>2, <1>4 DEF WalksGood
    <2>2. seen' = seen /\ node' = node /\ clock' = clock
      BY DEF Quiet
    <2>3. File(v)' = File(v)
      BY <2>1 DEF File
    <2> QED
      BY <2>1, <2>2, <2>3 DEF Placed, LevelsGood, OpenGood, FileOpen, KeyOf, Size
  <1> QED
    BY <1>2, <1>3, <1>4 DEF WalksGood

\* The caches, where neither they nor the disk change.
LEMMA CachesStay ==
  ASSUME DirInv, Quiet, cache' = cache
  PROVE  CachesGood' /\ Times' /\ cache' \in [Workers -> [Files -> CacheRecs \cup {NoEntry}]]
  <1>1. CachesGood /\ Times /\ Types
    BY DEF DirInv
  <1>2. clock' = clock /\ node' = node
    BY DEF Quiet
  <1> QED
    BY <1>1, <1>2 DEF CachesGood, EntryGood, KeyOf, Size, Times, Types

\* The parts together.
LEMMA PartsKeep ==
  ASSUME DirInv, Quiet, walk' \in [Workers -> Walks], SeenNow', WalksGood', CachesGood',
         cache' \in [Workers -> [Files -> CacheRecs \cup {NoEntry}]]
  PROVE  DirInv'
  <1>1. Types /\ Times
    BY DEF DirInv
  <1>2. Types'
    BY <1>1 DEF Types, Quiet
  <1>3. Times'
    BY <1>1 DEF Times, Quiet
  <1> QED
    BY <1>2, <1>3 DEF DirInv

\* The directives of a level are known.
LEMMA LevelKeeps ==
  ASSUME DirInv, Quiet, NEW w \in Workers, walk[w].pc \in Active, NEW dirs \in Dirs, NEW racy \in BOOLEAN,
         Level(w, dirs, racy), GoodLevel([dirs |-> dirs, racy |-> racy], seen[w][File(w)])
  PROVE  walk' \in [Workers -> Walks] /\ SeenNow' /\ WalksGood'
  <1>0. Types /\ Placed(w) /\ LevelsGood(w)
    BY DEF DirInv, WalksGood
  <1> DEFINE level == [dirs |-> dirs, racy |-> racy]
             path == walk[w].path
             old == walk[w].got
             got == Append(old, level)
             k == [Idle EXCEPT !.path = path, !.got = got,
                     !.pc = IF Len(got) = Len(path) THEN "done" ELSE "stat"]
  <1>1. walk' = [walk EXCEPT ![w] = k]
    BY DEF Level
  <1>2. path \in Seq(Files) /\ old \in Seq(Levels) /\ level \in Levels
    BY <1>0 DEF Types, Walks, Levels
  <1>3. /\ got \in Seq(Levels) /\ Len(got) = Len(old) + 1 /\ Len(old) \in Nat /\ Len(path) \in Nat
        /\ \A i \in 1 .. Len(old) : got[i] = old[i]
        /\ got[Len(old) + 1] = level
    BY <1>2
  <1>4. Len(old) < Len(path)
    BY <1>0 DEF Placed
  <1> HIDE DEF got
  <1>5. k.path = path /\ k.got = got /\ k.pc = IF Len(got) = Len(path) THEN "done" ELSE "stat"
    BY DEF Idle
  <1>6. k \in Walks
    <2>1. k.pc \in {"done", "stat"}
      BY <1>5
    <2> QED
      BY <1>2, <1>3, <2>1 DEF Idle, Walks, NoKey, Keys, Active
  <1> HIDE DEF k
  <1>7. walk'[w] = k
    BY <1>0, <1>1 DEF Types
  <1>8. Placed(w)'
    BY <1>3, <1>4, <1>5, <1>7, SMTT(30) DEF Placed, Active
  <1>9. LevelsGood(w)'
    <2> SUFFICES ASSUME NEW i \in 1 .. Len(got)
                 PROVE  GoodLevel(got[i], seen[w][path[i]])
      BY <1>5, <1>7 DEF LevelsGood, Quiet
    <2>1. CASE i \in 1 .. Len(old)
      BY <1>0, <1>3, <2>1 DEF LevelsGood
    <2>2. CASE i = Len(old) + 1
      BY <1>3, <2>2 DEF File
    <2> QED
      BY <1>3, <2>1, <2>2
  <1>10. OpenGood(w)'
    BY <1>5, <1>7 DEF OpenGood
  <1>11. walk[w].pc # "idle"
    BY DEF Active
  <1> QED
    BY <1>1, <1>6, <1>8, <1>9, <1>10, <1>11, WalkKeeps

-----------------------------------------------------------------------------
(***************************************************************************)
(* The steps of a walk.                                                    *)
(***************************************************************************)
\* A walk begins: of every file, what it gives now is seen.
LEMMA StartKeeps ==
  ASSUME DirInv, NEW w \in Workers, NEW path \in Seq(Files), StartWalk(w, path)
  PROVE  DirInv'
  <1>0. Types /\ Times /\ SeenNow /\ WalksGood /\ CachesGood
    BY DEF DirInv
  <1> DEFINE pc == IF path = <<>> THEN "done" ELSE "stat"
             k == [Idle EXCEPT !.path = path, !.pc = pc]
             now == [f \in Files |-> {ReadingAt(f)}]
  <1>1. /\ walk' = [walk EXCEPT ![w] = k] /\ seen' = [seen EXCEPT ![w] = now]
        /\ clock' = clock /\ link' = link /\ node' = node /\ cache' = cache
    BY DEF StartWalk
  <1>2. /\ k.path = path /\ k.got = <<>> /\ k.pc \in {"done", "stat"}
        /\ path = <<>> => k.pc = "done"
    BY DEF Idle
  <1>3. k \in Walks
    <2>1. pc \in {"idle", "done"} \cup Active
      BY DEF Active
    <2>2. <<>> \in Seq(Levels) /\ NoKey \in Keys
      BY DEF NoKey, Keys
    <2> HIDE DEF pc
    <2> QED
      BY <2>1, <2>2 DEF Idle, Walks
  <1> HIDE DEF k
  <1>4. /\ walk' \in [Workers -> Walks] /\ walk'[w] = k
        /\ \A v \in Workers : v # w => walk'[v] = walk[v]
    BY <1>0, <1>1, <1>3 DEF Types
  <1>5. now \in [Files -> SUBSET (Contents \cup {Nothing})]
    <2> SUFFICES ASSUME NEW f \in Files
                 PROVE  ReadingAt(f) \in Contents \cup {Nothing}
      OBVIOUS
    <2>1. link[f] # NoInode => node[f][link[f]] \in Nodes
      BY <1>0 DEF Types
    <2> QED
      BY <2>1, ReadingType DEF ReadingAt
  <1>6. \A f \in Files : now[f] = {ReadingAt(f)}
    OBVIOUS
  <1> HIDE DEF now
  <1>7. /\ seen' \in [Workers -> [Files -> SUBSET (Contents \cup {Nothing})]] /\ seen'[w] = now
        /\ \A v \in Workers : v # w => seen'[v] = seen[v]
    BY <1>0, <1>1, <1>5 DEF Types
  <1>8. Types'
    BY <1>0, <1>1, <1>4, <1>7 DEF Types
  <1>9. Times'
    BY <1>0, <1>1 DEF Times
  <1>10. SeenNow'
    <2> SUFFICES ASSUME NEW v \in Workers, NEW f \in Files, walk'[v].pc # "idle"
                 PROVE  ReadingAt(f) \in seen'[v][f]
      BY <1>1 DEF SeenNow, ReadingAt
    <2>1. CASE v = w
      BY <1>6, <1>7, <2>1
    <2>2. CASE v # w
      BY <1>0, <1>4, <1>7, <2>2 DEF SeenNow
    <2> QED
      BY <2>1, <2>2
  <1>11. ASSUME NEW v \in Workers
         PROVE  Placed(v)' /\ LevelsGood(v)' /\ OpenGood(v)'
    <2>1. CASE v = w
      <3>1. Len(k.got) = 0 /\ Len(path) \in Nat /\ (path # <<>> => Len(path) > 0)
        BY <1>2
      <3> QED
        BY <1>2, <1>4, <2>1, <3>1 DEF Placed, LevelsGood, OpenGood, Active
    <2>2. CASE v # w
      <3>1. walk'[v] = walk[v] /\ seen'[v] = seen[v] /\ Placed(v) /\ LevelsGood(v) /\ OpenGood(v)
        BY <1>0, <1>4, <1>7, <2>2 DEF WalksGood
      <3>2. File(v)' = File(v)
        BY <3>1 DEF File
      <3> QED
        BY <1>1, <3>1, <3>2 DEF Placed, LevelsGood, OpenGood, FileOpen, KeyOf, Size
    <2> QED
      BY <2>1, <2>2
  <1>12. CachesGood'
    BY <1>0, <1>1 DEF CachesGood, EntryGood, KeyOf, Size
  <1> QED
    BY <1>8, <1>9, <1>10, <1>11, <1>12 DEF DirInv, WalksGood

\* stat(), when the cache has the file: what it holds is what is there.
LEMMA HitKeeps ==
  ASSUME DirInv, NEW w \in Workers, StatHit(w)
  PROVE  DirInv'
  <1> DEFINE f == File(w)
             e == cache[w][f]
             racy == e.key.mtime = e.when
  <1>0. Types /\ SeenNow /\ WalksGood /\ CachesGood /\ Placed(w)
    BY DEF DirInv, WalksGood
  <1>1. walk[w].pc = "stat" /\ Quiet /\ cache' = cache
    BY DEF StatHit, Quiet
  <1>2. e # NoEntry /\ e.key = KeyAt(f)
    BY DEF StatHit, Hit
  <1>3. Level(w, e.dirs, racy)
    BY DEF StatHit
  <1>4. f \in Files
    BY <1>0, <1>1, FileType DEF Active
  <1>5. e \in CacheRecs /\ EntryGood(f, e)
    BY <1>0, <1>2, <1>4 DEF Types, CachesGood
  <1>6. link[f] \in Inodes /\ e.key.inode = link[f] /\ KeyOf(f, e.key.inode) = e.key
    BY <1>2, <1>5 DEF EntryGood, KeyAt, KeyOf, NoKey
  <1>7. racy \/ e.dirs = ReadingAt(f)
    BY <1>5, <1>6 DEF EntryGood, ReadingAt
  <1>8. ReadingAt(f) \in seen[w][f]
    BY <1>0, <1>1, <1>4 DEF SeenNow
  <1> HIDE DEF racy
  <1>9. GoodLevel([dirs |-> e.dirs, racy |-> racy], seen[w][f])
    BY <1>7, <1>8 DEF GoodLevel
  <1>10. e.dirs \in Dirs /\ racy \in BOOLEAN
    BY <1>5 DEF CacheRecs, racy
  <1>11. walk' \in [Workers -> Walks] /\ SeenNow' /\ WalksGood'
    BY <1>1, <1>3, <1>9, <1>10, LevelKeeps DEF Active
  <1> QED
    BY <1>1, <1>11, CachesStay, PartsKeep

\* A level with no directives, where that is what is seen or may be seen.
LEMMA EmptyLevel ==
  ASSUME DirInv, Quiet, cache' = cache, NEW w \in Workers, walk[w].pc \in Active,
         Level(w, Nothing, FALSE), GoodLevel([dirs |-> Nothing, racy |-> FALSE], seen[w][File(w)])
  PROVE  DirInv'
  <1>1. Nothing \in Dirs
    BY DEF Dirs
  <1>2. walk' \in [Workers -> Walks] /\ SeenNow' /\ WalksGood'
    BY <1>1, LevelKeeps
  <1> QED
    BY <1>2, CachesStay, PartsKeep

\* stat(), when it has not: no file, or it is opened next.
LEMMA MissKeeps ==
  ASSUME DirInv, NEW w \in Workers, StatMiss(w)
  PROVE  DirInv'
  <1> DEFINE f == File(w)
             k == [walk[w] EXCEPT !.pc = "open"]
  <1>0. Types /\ SeenNow /\ WalksGood /\ Placed(w) /\ LevelsGood(w)
    BY DEF DirInv, WalksGood
  <1>1. walk[w].pc = "stat" /\ Quiet /\ cache' = cache
    BY DEF StatMiss, Quiet
  <1>2. f \in Files
    BY <1>0, <1>1, FileType DEF Active
  <1>3. ReadingAt(f) \in seen[w][f]
    BY <1>0, <1>1, <1>2 DEF SeenNow
  <1>4. CASE link[f] = NoInode
    <2>1. Level(w, Nothing, FALSE)
      BY <1>4 DEF StatMiss
    <2>2. GoodLevel([dirs |-> Nothing, racy |-> FALSE], seen[w][f])
      BY <1>3, <1>4 DEF GoodLevel, ReadingAt
    <2> QED
      BY <1>1, <2>1, <2>2, EmptyLevel DEF Active
  <1>5. CASE link[f] # NoInode
    <2>1. walk' = [walk EXCEPT ![w] = k]
      BY <1>5 DEF StatMiss
    <2>2. k \in Walks /\ k.pc = "open" /\ k.path = walk[w].path /\ k.got = walk[w].got
      BY <1>0, ZenonT(30) DEF Types, Walks, Active
    <2> HIDE DEF k
    <2>3. walk'[w] = k
      BY <1>0, <2>1 DEF Types
    <2>4. Placed(w)' /\ LevelsGood(w)' /\ OpenGood(w)'
      BY <1>0, <1>1, <2>2, <2>3 DEF Placed, LevelsGood, OpenGood, Active, Quiet
    <2>5. walk' \in [Workers -> Walks] /\ SeenNow' /\ WalksGood'
      BY <1>1, <2>1, <2>2, <2>4, WalkKeeps
    <2> QED
      BY <1>1, <2>5, CachesStay, PartsKeep
  <1> QED
    BY <1>4, <1>5

\* open() and fstat(): the key is of now, as is what is seen.
LEMMA OpenKeeps ==
  ASSUME DirInv, NEW w \in Workers, Open(w)
  PROVE  DirInv'
  <1> DEFINE f == File(w)
             j == link[f]
             k == [walk[w] EXCEPT !.pc = "opened", !.fd = j, !.key = KeyOf(f, j), !.when = clock]
  <1>0. Types /\ SeenNow /\ Times /\ WalksGood /\ Placed(w) /\ LevelsGood(w)
    BY DEF DirInv, WalksGood
  <1>1. walk[w].pc = "open" /\ Quiet /\ cache' = cache
    BY DEF Open, Quiet
  <1>2. f \in Files
    BY <1>0, <1>1, FileType DEF Active
  <1>3. ReadingAt(f) \in seen[w][f]
    BY <1>0, <1>1, <1>2 DEF SeenNow
  <1>4. CASE j = NoInode \/ ~node[f][j].trusted
    <2>1. Level(w, Nothing, FALSE)
      BY <1>4 DEF Open
    <2>2. ReadingAt(f) = Nothing
      BY <1>4 DEF ReadingAt, Reading
    <2>3. GoodLevel([dirs |-> Nothing, racy |-> FALSE], seen[w][f])
      BY <1>3, <2>2 DEF GoodLevel
    <2> QED
      BY <1>1, <2>1, <2>3, EmptyLevel DEF Active
  <1>5. CASE j # NoInode /\ node[f][j].trusted
    <2>1. walk' = [walk EXCEPT ![w] = k]
      BY <1>5 DEF Open
    <2>2. j \in Inodes
      BY <1>0, <1>2, <1>5 DEF Types
    <2>3. /\ KeyOf(f, j) \in Keys /\ KeyOf(f, j).mtime = node[f][j].mtime /\ KeyOf(f, j).inode = j
          /\ KeyOf(f, j).size = SizeOf(node[f][j].content) /\ node[f][j] \in Nodes
      BY <1>0, <1>2, <2>2, KeyType
    <2>4. /\ k \in Walks /\ k.pc = "opened" /\ k.path = walk[w].path /\ k.got = walk[w].got
          /\ k.fd = j /\ k.key = KeyOf(f, j) /\ k.when = clock
      <3>1. walk[w] \in Walks /\ clock \in Nat
        BY <1>0 DEF Types
      <3> DEFINE key == KeyOf(f, j)
      <3>2. key \in Keys
        BY <2>3
      <3> HIDE DEF key, j
      <3> QED
        BY <2>2, <3>1, <3>2 DEF Walks, Active, key
    <2> HIDE DEF k
    <2>5. walk'[w] = k
      BY <1>0, <2>1 DEF Types
    <2>6. Placed(w)' /\ LevelsGood(w)'
      BY <1>0, <1>1, <2>4, <2>5 DEF Placed, LevelsGood, Active, Quiet
    <2>7. Reading(node[f][j]) \in seen[w][f]
      BY <1>3, <1>5 DEF ReadingAt
    <2>8. Nothing \in seen[w][f] \/ OfSize(seen[w][f], KeyOf(f, j).size)
      BY <2>3, <2>7, ReadingType DEF Reading, OfSize, Nodes
    <2>9. node[f][j].mtime <= clock /\ clock \in Nat
      BY <1>0, <1>2, <2>2 DEF Times, Types
    <2>10. FileOpen(f, k, seen[w][f])
      BY <1>5, <2>2, <2>3, <2>4, <2>7, <2>8, <2>9 DEF FileOpen
    <2>11. File(w)' = f
      BY <2>4, <2>5 DEF File
    <2>12. OpenGood(w)'
      BY <1>1, <2>5, <2>10, <2>11 DEF OpenGood, FileOpen, Quiet, KeyOf, Size
    <2>13. walk' \in [Workers -> Walks] /\ SeenNow' /\ WalksGood'
      BY <1>1, <2>1, <2>4, <2>6, <2>12, WalkKeeps
    <2> QED
      BY <1>1, <2>13, CachesStay, PartsKeep
  <1> QED
    BY <1>4, <1>5

\* The size is measured: of what was seen, if it is neither empty nor too large.
LEMMA MeasureKeeps ==
  ASSUME DirInv, NEW w \in Workers, Measure(w)
  PROVE  DirInv'
  <1> DEFINE f == File(w)
             j == walk[w].fd
             size == Size(f, j)
             k == [walk[w] EXCEPT !.pc = "measured", !.size = size]
  <1>0. Types /\ SeenNow /\ WalksGood /\ Placed(w) /\ LevelsGood(w) /\ OpenGood(w)
    BY DEF DirInv, WalksGood
  <1>1. walk[w].pc = "opened" /\ Quiet /\ cache' = cache
    BY DEF Measure, Quiet
  <1>2. f \in Files
    BY <1>0, <1>1, FileType DEF Active
  <1>3. FileOpen(f, walk[w], seen[w][f])
    BY <1>0, <1>1 DEF OpenGood
  <1>4. j \in Inodes /\ node[f][j].trusted /\ Reading(node[f][j]) \in seen[w][f]
    BY <1>3 DEF FileOpen
  <1>5. size = SizeOf(node[f][j].content) /\ size \in Nat /\ node[f][j] \in Nodes
    BY <1>0, <1>2, <1>4, KeyType DEF Size
  <1>6. CASE size = 0 \/ size > SizeLimit
    <2>1. Level(w, Nothing, FALSE)
      BY <1>6 DEF Measure
    <2>2. Reading(node[f][j]) = Nothing
      BY <1>5, <1>6 DEF Reading
    <2>3. GoodLevel([dirs |-> Nothing, racy |-> FALSE], seen[w][f])
      BY <1>4, <2>2 DEF GoodLevel
    <2> QED
      BY <1>1, <2>1, <2>3, EmptyLevel DEF Active
  <1>7. CASE ~(size = 0 \/ size > SizeLimit)
    <2>1. walk' = [walk EXCEPT ![w] = k]
      BY <1>7 DEF Measure
    <2>2. /\ k \in Walks /\ k.pc = "measured" /\ k.path = walk[w].path /\ k.got = walk[w].got
          /\ k.fd = j /\ k.key = walk[w].key /\ k.when = walk[w].when /\ k.size = size
      BY <1>0, <1>5, ZenonT(30) DEF Types, Walks, Active
    <2> HIDE DEF k
    <2>3. walk'[w] = k
      BY <1>0, <2>1 DEF Types
    <2>4. Placed(w)' /\ LevelsGood(w)'
      BY <1>0, <1>1, <2>2, <2>3 DEF Placed, LevelsGood, Active, Quiet
    <2>5. size \in 1 .. SizeLimit
      BY <1>5, <1>7
    <2>6. OfSize(seen[w][f], size)
      BY <1>4, <1>5, <2>5 DEF OfSize, Reading, Nodes
    <2>7. KeyOf(f, j) = k.key => k.size = k.key.size
      BY <2>2 DEF KeyOf
    <2>8. FileOpen(f, k, seen[w][f])
      BY <1>3, <2>2, <2>5, <2>6, <2>7 DEF FileOpen
    <2>9. File(w)' = f
      BY <2>2, <2>3 DEF File
    <2>10. OpenGood(w)'
      BY <1>1, <2>3, <2>8, <2>9 DEF OpenGood, FileOpen, Quiet, KeyOf, Size
    <2>11. walk' \in [Workers -> Walks] /\ SeenNow' /\ WalksGood'
      BY <1>1, <2>1, <2>2, <2>4, <2>10, WalkKeeps
    <2> QED
      BY <1>1, <2>11, CachesStay, PartsKeep
  <1> QED
    BY <1>6, <1>7

\* What has been read is a good level, and a good entry of the cache.
LEMMA ReadGood ==
  ASSUME DirInv, NEW f \in Files, NEW k \in Walks, NEW now, FileOpen(f, k, now), k.pc = "measured",
         NEW c, c = node[f][k.fd].content, NEW dirs, dirs = IF SizeOf(c) = k.size THEN c ELSE Torn(c)
  PROVE  /\ dirs \in Dirs
         /\ SizeOf(c) < k.size \/ k.size > k.key.size => GoodLevel([dirs |-> Nothing, racy |-> FALSE], now)
         /\ ~(SizeOf(c) < k.size \/ k.size > k.key.size) => GoodLevel([dirs |-> dirs, racy |-> FALSE], now)
         /\ EntryGood(f, [key |-> k.key, dirs |-> dirs, when |-> k.when])
  <1> DEFINE n == node[f][k.fd]
             level == [dirs |-> dirs, racy |-> FALSE]
             none == [dirs |-> Nothing, racy |-> FALSE]
  <1>1. k.fd \in Inodes /\ n.trusted /\ Reading(n) \in now
    BY DEF FileOpen
  <1>2. n \in Nodes /\ c \in Contents /\ SizeOf(c) \in Nat
    BY <1>1 DEF DirInv, Types, Nodes
  <1>3. k.size \in 1 .. SizeLimit /\ k.size \in Nat /\ k.key.size \in Nat
    BY DEF FileOpen, Walks, Keys
  <1>4. PICK d \in now : d \in Contents /\ SizeOf(d) = k.size
    BY DEF FileOpen, OfSize
  <1>5. Reading(n) = IF SizeOf(c) \in 1 .. SizeLimit THEN c ELSE Nothing
    BY <1>1 DEF Reading
  <1> HIDE DEF n
  <1>6. Nothing \in now => GoodLevel(none, now)
    BY DEF GoodLevel
  <1>7. ASSUME NEW d2 \in now, d2 # d
        PROVE  GoodLevel(none, now)
    BY <1>4, <1>7 DEF GoodLevel
  <1>8. ASSUME SizeOf(c) < k.size
        PROVE  GoodLevel(none, now)
    <2>1. CASE Reading(n) = Nothing
      BY <1>1, <1>6, <2>1
    <2>2. CASE Reading(n) # Nothing
      <3>1. c \in now /\ c # d
        BY <1>1, <1>2, <1>3, <1>4, <1>5, <1>8, <2>2
      <3> QED
        BY <1>7, <3>1
    <2> QED
      BY <2>1, <2>2
  <1>9. ASSUME k.size > k.key.size
        PROVE  GoodLevel(none, now)
    <2>1. CASE Nothing \in now
      BY <1>6, <2>1
    <2>2. CASE Nothing \notin now
      <3>1. PICK d2 \in now : d2 \in Contents /\ SizeOf(d2) = k.key.size
        BY <2>2 DEF FileOpen, OfSize
      <3>2. d2 # d
        BY <1>3, <1>4, <1>9, <3>1
      <3> QED
        BY <1>7, <3>1, <3>2
    <2> QED
      BY <2>1, <2>2
  <1>10. ASSUME SizeOf(c) = k.size
         PROVE  dirs = Reading(n)
    BY <1>3, <1>5, <1>10
  <1>11. ASSUME ~(SizeOf(c) < k.size)
         PROVE  GoodLevel(level, now)
    <2>1. CASE SizeOf(c) = k.size
      BY <1>1, <1>10, <2>1 DEF GoodLevel
    <2>2. CASE SizeOf(c) > k.size
      <3>1. dirs = Torn(c)
        BY <1>2, <1>3, <2>2
      <3>2. CASE SizeOf(c) <= SizeLimit
        <4>1. c \in now /\ c # d
          BY <1>1, <1>2, <1>3, <1>4, <1>5, <2>2, <3>2
        <4> QED
          BY <1>4, <3>1, <4>1 DEF GoodLevel
      <3>3. CASE SizeOf(c) > SizeLimit
        <4>1. c \in TooLarge
          BY <1>2, <3>3 DEF TooLarge
        <4>2. Nothing \in now /\ Nothing # d
          BY <1>1, <1>2, <1>3, <1>4, <1>5, <3>3
        <4> QED
          BY <1>4, <3>1, <4>1, <4>2 DEF GoodLevel
      <3> QED
        BY <1>2, <3>2, <3>3
    <2> QED
      BY <1>2, <1>3, <1>11, <2>1, <2>2
  <1>12. dirs \in Dirs
    BY <1>2 DEF Dirs
  <1>13. EntryGood(f, [key |-> k.key, dirs |-> dirs, when |-> k.when])
    <2>1. k.key.inode = k.fd /\ k.key.mtime <= k.when /\ k.when <= clock
      BY DEF FileOpen
    <2>2. ASSUME KeyOf(f, k.fd) = k.key, k.key.mtime # k.when
          PROVE  dirs = Reading(n)
      <3>1. k.size = k.key.size
        BY <2>2 DEF FileOpen
      <3>2. SizeOf(c) = k.key.size
        BY <1>1, <2>2, KeyType DEF DirInv
      <3> QED
        BY <1>10, <3>1, <3>2
    <2> QED
      BY <1>1, <2>1, <2>2 DEF EntryGood, n
  <1> QED
    BY <1>8, <1>9, <1>11, <1>12, <1>13

\* fread(), the parse, and the cache.
LEMMA ReadKeeps ==
  ASSUME DirInv, NEW w \in Workers, Read(w)
  PROVE  DirInv'
  <1> DEFINE f == File(w)
             k == walk[w]
             size == k.size
             now == Size(f, k.fd)
             c == node[f][k.fd].content
             dirs == IF now = size THEN c ELSE Torn(c)
             e == [key |-> k.key, dirs |-> dirs, when |-> k.when]
  <1>0. Types /\ WalksGood /\ CachesGood /\ Placed(w) /\ OpenGood(w) /\ k \in Walks
    BY DEF DirInv, WalksGood, Types
  <1>1. k.pc = "measured" /\ Quiet
    BY DEF Read, Quiet
  <1>2. f \in Files
    BY <1>0, <1>1, FileType DEF Active
  <1>3. FileOpen(f, k, seen[w][f])
    BY <1>0, <1>1 DEF OpenGood
  <1>4. now = SizeOf(c)
    BY DEF Size
  <1>5. \/ now < size \/ size > k.key.size
        \/ ~(now < size \/ size > k.key.size)
    OBVIOUS
  <1>6. /\ dirs \in Dirs
        /\ now < size \/ size > k.key.size => GoodLevel([dirs |-> Nothing, racy |-> FALSE], seen[w][f])
        /\ ~(now < size \/ size > k.key.size) => GoodLevel([dirs |-> dirs, racy |-> FALSE], seen[w][f])
        /\ EntryGood(f, e)
    BY <1>0, <1>1, <1>2, <1>3, <1>4, ReadGood
  <1>7. CASE now < size \/ size > k.key.size
    <2>1. Level(w, Nothing, FALSE) /\ cache' = cache
      BY <1>7 DEF Read
    <2> QED
      BY <1>1, <1>6, <1>7, <2>1, EmptyLevel DEF Active
  <1>8. CASE ~(now < size \/ size > k.key.size)
    <2>1. Level(w, dirs, FALSE) /\ Put(w, f, dirs)
      BY <1>8 DEF Read
    <2> HIDE DEF dirs
    <2>2. walk' \in [Workers -> Walks] /\ SeenNow' /\ WalksGood'
      BY <1>1, <1>6, <1>8, <2>1, LevelKeeps DEF Active
    <2>3. cache' = [cache EXCEPT ![w][f] = e] \/ cache' = cache
      BY <2>1 DEF Put
    <2>4. CASE cache' = cache
      BY <1>1, <2>2, <2>4, CachesStay, PartsKeep
    <2>5. CASE cache' = [cache EXCEPT ![w][f] = e]
      <3>1. e \in CacheRecs
        BY <1>0, <1>6 DEF CacheRecs, Walks
      <3> HIDE DEF e
      <3>2. cache' \in [Workers -> [Files -> CacheRecs \cup {NoEntry}]]
        BY <1>0, <1>2, <2>5, <3>1 DEF Types
      <3>3. \A v \in Workers, g \in Files :
              cache'[v][g] = IF v = w /\ g = f THEN e ELSE cache[v][g]
        BY <1>0, <1>2, <2>5 DEF Types
      <3>4. \A v \in Workers, g \in Files : cache'[v][g] # NoEntry => EntryGood(g, cache'[v][g])
        BY <1>0, <1>6, <3>3 DEF CachesGood
      <3>5. CachesGood'
        <4> SUFFICES ASSUME NEW v \in Workers, NEW g \in Files, cache'[v][g] # NoEntry
                     PROVE  EntryGood(g, cache[v][g])'
          BY DEF CachesGood
        <4>1. EntryGood(g, cache'[v][g])
          BY <3>4
        <4> QED
          BY <1>1, <4>1 DEF EntryGood, KeyOf, Size, Quiet
      <3> QED
        BY <1>1, <2>2, <3>2, <3>5, PartsKeep
    <2> QED
      BY <2>3, <2>4, <2>5
  <1> QED
    BY <1>7, <1>8

\* The end of a request, and of a worker.
LEMMA IdleKeeps ==
  ASSUME DirInv, Quiet, NEW w \in Workers, walk' = [walk EXCEPT ![w] = Idle],
         cache' = cache \/ cache' = [cache EXCEPT ![w] = [f \in Files |-> NoEntry]]
  PROVE  DirInv'
  <1>0. Types /\ SeenNow /\ WalksGood /\ CachesGood
    BY DEF DirInv
  <1>1. Idle \in Walks /\ Idle.pc = "idle" /\ Idle.path = <<>> /\ Idle.got = <<>>
    <2>1. <<>> \in Seq(Levels) /\ <<>> \in Seq(Files) /\ NoKey \in Keys
      BY DEF NoKey, Keys
    <2> QED
      BY <2>1 DEF Idle, Walks
  <1>2. /\ walk' \in [Workers -> Walks] /\ walk'[w] = Idle
        /\ \A v \in Workers : v # w => walk'[v] = walk[v]
    BY <1>0, <1>1 DEF Types
  <1>3. SeenNow'
    <2> SUFFICES ASSUME NEW v \in Workers, NEW f \in Files, walk'[v].pc # "idle"
                 PROVE  ReadingAt(f) \in seen[v][f]
      BY DEF SeenNow, ReadingAt, Quiet
    <2>1. walk[v].pc # "idle"
      BY <1>1, <1>2
    <2> QED
      BY <1>0, <2>1 DEF SeenNow
  <1>4. ASSUME NEW v \in Workers
        PROVE  Placed(v)' /\ LevelsGood(v)' /\ OpenGood(v)'
    <2>1. CASE v = w
      BY <1>1, <1>2, <2>1 DEF Placed, LevelsGood, OpenGood, Active
    <2>2. CASE v # w
      <3>1. walk'[v] = walk[v] /\ Placed(v) /\ LevelsGood(v) /\ OpenGood(v)
        BY <1>0, <1>2, <2>2 DEF WalksGood
      <3>2. seen' = seen /\ node' = node /\ clock' = clock
        BY DEF Quiet
      <3>3. File(v)' = File(v)
        BY <3>1 DEF File
      <3> QED
        BY <3>1, <3>2, <3>3 DEF Placed, LevelsGood, OpenGood, FileOpen, KeyOf, Size
    <2> QED
      BY <2>1, <2>2
  <1>5. WalksGood'
    BY <1>4 DEF WalksGood
  <1>6. CASE cache' = cache
    BY <1>2, <1>3, <1>5, <1>6, CachesStay, PartsKeep
  <1>7. CASE cache' = [cache EXCEPT ![w] = [f \in Files |-> NoEntry]]
    <2>1. cache' \in [Workers -> [Files -> CacheRecs \cup {NoEntry}]]
      BY <1>0, <1>7 DEF Types
    <2>2. \A v \in Workers, f \in Files : cache'[v][f] \in {NoEntry, cache[v][f]}
      BY <1>0, <1>7 DEF Types
    <2>3. CachesGood'
      <3> SUFFICES ASSUME NEW v \in Workers, NEW f \in Files, cache'[v][f] # NoEntry
                   PROVE  EntryGood(f, cache[v][f])'
        BY DEF CachesGood
      <3>1. cache'[v][f] = cache[v][f] /\ EntryGood(f, cache[v][f])
        BY <1>0, <2>2 DEF CachesGood
      <3> QED
        BY <3>1 DEF EntryGood, KeyOf, Size, Quiet
    <2> QED
      BY <1>2, <1>3, <1>5, <2>1, <2>3, PartsKeep
  <1> QED
    BY <1>6, <1>7

\* Time passes.
LEMMA TickKeeps ==
  ASSUME DirInv, WalkTick
  PROVE  DirInv'
  <1>0. Types /\ Times /\ SeenNow /\ WalksGood /\ CachesGood
    BY DEF DirInv
  <1>1. clock' = clock + 1 /\ clock \in Nat /\ link' = link /\ node' = node /\ cache' = cache
        /\ walk' = walk /\ seen' = seen
    BY <1>0 DEF WalkTick, Types
  <1>2. Types'
    BY <1>0, <1>1 DEF Types
  <1>3. Times'
    BY <1>0, <1>1 DEF Times, Types, Nodes
  <1>4. SeenNow'
    BY <1>0, <1>1 DEF SeenNow, ReadingAt
  <1>5. ASSUME NEW w \in Workers
        PROVE  Placed(w)' /\ LevelsGood(w)' /\ OpenGood(w)'
    <2>1. Placed(w) /\ LevelsGood(w) /\ OpenGood(w) /\ File(w)' = File(w) /\ walk[w].when \in Nat
      BY <1>0, <1>1 DEF WalksGood, File, Types, Walks
    <2>2. OpenGood(w)'
      BY <1>1, <2>1 DEF OpenGood, FileOpen, KeyOf, Size
    <2> QED
      BY <1>1, <2>1, <2>2 DEF Placed, LevelsGood
  <1>6. CachesGood'
    <2> SUFFICES ASSUME NEW w \in Workers, NEW f \in Files, cache[w][f] # NoEntry
                 PROVE  EntryGood(f, cache[w][f])'
      BY <1>1 DEF CachesGood
    <2>1. EntryGood(f, cache[w][f]) /\ cache[w][f].when \in Nat
      BY <1>0 DEF CachesGood, Types, CacheRecs
    <2> QED
      BY <1>1, <2>1 DEF EntryGood, KeyOf, Size
  <1> QED
    BY <1>2, <1>3, <1>4, <1>5, <1>6 DEF DirInv, WalksGood

-----------------------------------------------------------------------------
(***************************************************************************)
(* The specification.                                                      *)
(***************************************************************************)
\* Before the first request.
LEMMA InitInv == WalkInit => DirInv
  <1> SUFFICES ASSUME WalkInit
               PROVE  DirInv
    OBVIOUS
  <1>1. /\ clock = 1 /\ link \in [Files -> Inodes \cup {NoInode}]
        /\ node \in [Files -> [Inodes -> [content : Contents, mtime : {1}, trusted : BOOLEAN]]]
        /\ cache = [w \in Workers |-> [f \in Files |-> NoEntry]]
        /\ walk = [w \in Workers |-> Idle]
        /\ seen = [w \in Workers |-> [f \in Files |-> {}]]
    BY DEF WalkInit, DiskInit, CacheInit
  <1>2. Idle \in Walks /\ Idle.pc = "idle" /\ Idle.path = <<>> /\ Idle.got = <<>>
    <2>1. <<>> \in Seq(Levels) /\ <<>> \in Seq(Files) /\ NoKey \in Keys
      BY DEF NoKey, Keys
    <2> QED
      BY <2>1 DEF Idle, Walks
  <1>3. node \in [Files -> [Inodes -> Nodes]] /\ Times
    BY <1>1 DEF Nodes, Times
  <1>4. Types
    BY <1>1, <1>2, <1>3 DEF Types
  <1>5. SeenNow /\ CachesGood
    BY <1>1, <1>2 DEF SeenNow, CachesGood
  <1>6. WalksGood
    <2> SUFFICES ASSUME NEW w \in Workers
                 PROVE  Placed(w) /\ LevelsGood(w) /\ OpenGood(w)
      BY DEF WalksGood
    <2>1. walk[w] = Idle
      BY <1>1
    <2> QED
      BY <1>2, <2>1 DEF Placed, LevelsGood, OpenGood, Active
  <1> QED
    BY <1>3, <1>4, <1>5, <1>6 DEF DirInv

\* The invariant holds.
LEMMA DirInvariance == WalkSpec => []DirInv
  <1>1. DirInv /\ [WalkNext]_dvars => DirInv'
    <2> SUFFICES ASSUME DirInv, [WalkNext]_dvars
                 PROVE  DirInv'
      OBVIOUS
    <2>1. CASE UNCHANGED dvars
      <3>1. /\ clock' = clock /\ link' = link /\ node' = node /\ cache' = cache
            /\ walk' = walk /\ seen' = seen
        BY <2>1 DEF dvars
      <3>2. Types' /\ Times' /\ SeenNow' /\ CachesGood'
        BY <3>1 DEF DirInv, Types, Times, SeenNow, ReadingAt, CachesGood, EntryGood, KeyOf, Size
      <3>3. WalksGood'
        BY <3>1 DEF DirInv, WalksGood, Placed, LevelsGood, OpenGood, FileOpen, File, KeyOf, Size
      <3> QED
        BY <3>2, <3>3 DEF DirInv
    <2>2. CASE \E f \in Files : Edit(f)
      BY <2>2, EditsEdit, EditKeeps DEF DirInv
    <2>3. CASE WalkTick
      BY <2>3, TickKeeps
    <2>4. ASSUME NEW w \in Workers, \E path \in Seq(Files) : StartWalk(w, path)
          PROVE  DirInv'
      BY <2>4, StartKeeps
    <2>5. ASSUME NEW w \in Workers, WalkStep(w)
          PROVE  DirInv'
      BY <2>5, HitKeeps, MissKeeps, OpenKeeps, MeasureKeeps, ReadKeeps DEF WalkStep
    <2>6. ASSUME NEW w \in Workers, EndWalk(w)
          PROVE  DirInv'
      BY <2>6, IdleKeeps DEF EndWalk, Quiet
    <2>7. ASSUME NEW w \in Workers, Restart(w)
          PROVE  DirInv'
      BY <2>7, IdleKeeps DEF Restart, Quiet
    <2> QED
      BY <2>1, <2>2, <2>3, <2>4, <2>5, <2>6, <2>7 DEF WalkNext
  <1> QED
    BY <1>1, InitInv, PTL DEF WalkSpec

(***************************************************************************)
(* Types of the disk, the caches and the walks, for any constants.         *)
(***************************************************************************)
THEOREM WalkTypeCorrect == WalkSpec => []DirCacheTypeOK
  <1>1. DirInv => DirCacheTypeOK
    <2> SUFFICES ASSUME Types
                 PROVE  DirCacheTypeOK
      BY DEF DirInv
    <2>1. \A w \in Workers, f \in Files :
            cache[w][f] # NoEntry => cache[w][f].key.mtime \in Nat /\ cache[w][f].when \in Nat
      BY DEF Types, CacheRecs, Keys
    <2>2. \A w \in Workers : walk[w].pc \in {"idle", "stat", "open", "opened", "measured", "done"}
      BY DEF Types, Walks, Active
    <2> QED
      BY <2>1, <2>2 DEF Types, Nodes, DirCacheTypeOK
  <1> QED
    BY <1>1, DirInvariance, PTL

(***************************************************************************)
(* A request is decided by what stood in the files during its walk, for    *)
(* any number of workers, files, edits and restarts, but for the two       *)
(* exceptions that Fresh names (htaccess_cache_get, read_and_cache).       *)
(***************************************************************************)
THEOREM StaysFresh == WalkSpec => []Fresh
  <1>1. DirInv => Fresh
    BY DEF DirInv, WalksGood, LevelsGood, GoodLevel, Fresh
  <1> QED
    BY <1>1, DirInvariance, PTL

HIDE DirCacheAssumption

-----------------------------------------------------------------------------
(***************************************************************************)
(* The gate and its secret.                                                *)
(***************************************************************************)
USE BotChallengeAssumption

Secrets == Workers \cup {NoSecret, EmptyKey}
Phases == {"new", "served", "redirected", "challenged"}
Calls ==
    [pc : {"out", "read", "create", "write", "reread", "keyed"},
     client : Clients \cup {NoIp}, goal : {"none", "check", "mint"}, key : Secrets]
Cookies ==
    {NoCookie} \cup [key : Secrets, class : {Identity(a) : a \in Addresses}, exp : Nat]
Browsers ==
    [phase : Phases, at : Addresses, exempt : BOOLEAN, cookie : Cookies,
     puzzle : Int \cup {NoPuzzle}]

(***************************************************************************)
(* The inductive invariant.  A key is good when it is the file's, whole,   *)
(* or the empty one.  While a worker writes, the file is short and nobody  *)
(* else writes: so a key that is in use is never overwritten.              *)
(***************************************************************************)
Good(key, file) == key = EmptyKey \/ (key \in Workers /\ key = file)

FullTypes ==
  /\ clock \in Nat
  /\ secretFile \in {"absent", "short"} \cup Workers
  /\ secret \in [Workers -> Workers \cup {NoSecret}]
  /\ gate \in [Workers -> Calls]
  /\ client \in [Clients -> Browsers]

InCall == \A w \in Workers : gate[w].pc # "out" => gate[w].client \in Clients

OneWriter ==
  /\ \A w \in Workers : gate[w].pc = "write" => secretFile = "short"
  /\ \A v, w \in Workers : gate[v].pc = "write" /\ gate[w].pc = "write" => v = w

SecretsGood == \A w \in Workers : secret[w] # NoSecret => secret[w] = secretFile

CallsGood == \A w \in Workers : gate[w].pc = "keyed" => Good(gate[w].key, secretFile)

CookiesGood ==
  \A c \in Clients :
    client[c].cookie # NoCookie => Good(client[c].cookie.key, secretFile)

GateInv == FullTypes /\ InCall /\ OneWriter /\ SecretsGood /\ CallsGood /\ CookiesGood

\* In the beginning nobody has a key.
LEMMA InitGateInv == GateInit => GateInv
  <1> SUFFICES ASSUME GateInit PROVE GateInv
    OBVIOUS
  <1>1. Out \in Calls
    BY DEF Out, Calls, Secrets
  <1>2. \A a \in Addresses, e \in BOOLEAN : NewClient(a, e) \in Browsers
    BY DEF NewClient, Browsers, Cookies, Phases
  <1>3. gate \in [Workers -> Calls] /\ \A w \in Workers : gate[w].pc = "out"
    BY <1>1 DEF GateInit, Out
  <1>4. client \in [Clients -> Browsers]
    BY <1>2 DEF GateInit
  <1>5. \A c \in Clients : client[c].cookie = NoCookie
    BY DEF GateInit, NewClient
  <1>6. FullTypes
    BY <1>3, <1>4 DEF GateInit, FullTypes
  <1> QED
    BY <1>3, <1>5, <1>6
    DEF GateInit, GateInv, InCall, OneWriter, SecretsGood, CallsGood, CookiesGood

-----------------------------------------------------------------------------
(***************************************************************************)
(* The verdicts and the steps to the next state of a call keep the types.  *)
(***************************************************************************)
\* Leaving a call, or going on in it, leaves the other calls alone.
LEMMA GateStep ==
  ASSUME FullTypes, NEW w \in Workers, NEW g \in Calls, gate' = [gate EXCEPT ![w] = g]
  PROVE  /\ gate' \in [Workers -> Calls]
         /\ gate'[w] = g
         /\ \A v \in Workers : v # w => gate'[v] = gate[v]
  BY DEF FullTypes

\* The same for what a client has.
LEMMA ClientStep ==
  ASSUME FullTypes, NEW c \in Clients, NEW b \in Browsers, client' = [client EXCEPT ![c] = b]
  PROVE  /\ client' \in [Clients -> Browsers]
         /\ client'[c] = b
         /\ \A d \in Clients : d # c => client'[d] = client[d]
  BY DEF FullTypes

\* A worker that is in no call.
LEMMA OutType == Out \in Calls /\ Out.pc = "out" /\ Out.client = NoIp
  BY DEF Out, Calls, Secrets

\* A call with another place is a call.
LEMMA MovedType ==
  ASSUME NEW g \in Calls, NEW p \in {"create", "write", "reread", "keyed"}
  PROVE  /\ [g EXCEPT !.pc = p] \in Calls
         /\ [g EXCEPT !.pc = p].pc = p
         /\ [g EXCEPT !.pc = p].client = g.client
  BY DEF Calls

\* So is a call that has got a key.
LEMMA KeyedType ==
  ASSUME NEW g \in Calls, NEW k \in Secrets
  PROVE  /\ [g EXCEPT !.pc = "keyed", !.key = k] \in Calls
         /\ [g EXCEPT !.pc = "keyed", !.key = k].pc = "keyed"
         /\ [g EXCEPT !.pc = "keyed", !.key = k].key = k
         /\ [g EXCEPT !.pc = "keyed", !.key = k].client = g.client
  BY DEF Calls

(***************************************************************************)
(* What a step may do so that the invariant holds afterwards: one worker's *)
(* call changes, or ends; one client's browser changes; the file changes   *)
(* only while no key is in it.                                             *)
(***************************************************************************)
\* The call of w moves to a place where it has no key and writes nothing.
LEMMA CallMoves ==
  ASSUME GateInv, NEW w \in Workers, NEW g \in Calls,
         gate' = [gate EXCEPT ![w] = g],
         g.pc # "out" => g.client \in Clients,
         g.pc # "write",
         g.pc = "keyed" => Good(g.key, secretFile),
         UNCHANGED <<clock, secretFile, secret, client>>
  PROVE  GateInv'
  <1>1. /\ gate' \in [Workers -> Calls] /\ gate'[w] = g
        /\ \A v \in Workers : v # w => gate'[v] = gate[v]
    BY GateStep DEF GateInv
  <1>2. FullTypes'
    BY <1>1 DEF GateInv, FullTypes
  <1>3. InCall'
    BY <1>1 DEF GateInv, InCall
  <1>4. OneWriter'
    BY <1>1 DEF GateInv, OneWriter
  <1>5. CallsGood'
    BY <1>1 DEF GateInv, CallsGood, Good
  <1> QED
    BY <1>2, <1>3, <1>4, <1>5 DEF GateInv, SecretsGood, CookiesGood, Good

\* The call of w ends with a verdict for its client.
LEMMA CallEnds ==
  ASSUME GateInv, NEW w \in Workers, NEW c \in Clients, NEW b \in Browsers,
         gate' = [gate EXCEPT ![w] = Out],
         client' = [client EXCEPT ![c] = b],
         \/ b.cookie = client[c].cookie
         \/ Good(b.cookie.key, secretFile),
         UNCHANGED <<clock, secretFile, secret>>
  PROVE  GateInv'
  <1>1. /\ gate' \in [Workers -> Calls] /\ gate'[w].pc = "out"
        /\ \A v \in Workers : v # w => gate'[v] = gate[v]
    BY GateStep, OutType DEF GateInv
  <1>2. /\ client' \in [Clients -> Browsers] /\ client'[c] = b
        /\ \A d \in Clients : d # c => client'[d] = client[d]
    BY ClientStep DEF GateInv
  <1>3. FullTypes'
    BY <1>1, <1>2 DEF GateInv, FullTypes
  <1>4. InCall' /\ OneWriter' /\ CallsGood'
    BY <1>1 DEF GateInv, InCall, OneWriter, CallsGood, Good
  <1>5. CookiesGood'
    BY <1>2 DEF GateInv, CookiesGood, Good
  <1> QED
    BY <1>3, <1>4, <1>5 DEF GateInv, SecretsGood

-----------------------------------------------------------------------------
(***************************************************************************)
(* The actions.                                                            *)
(***************************************************************************)
\* The page.
LEMMA PassKeeps ==
  ASSUME GateInv, NEW w \in Workers, NEW c \in Clients, Pass(w, c),
         UNCHANGED <<clock, secretFile, secret>>
  PROVE  GateInv'
  <1> DEFINE b == [client[c] EXCEPT !.phase = "served"]
  <1>1. client[c] \in Browsers
    BY DEF GateInv, FullTypes
  <1>2. b \in Browsers /\ b.cookie = client[c].cookie
    BY <1>1 DEF Browsers, Phases
  <1>3. gate' = [gate EXCEPT ![w] = Out] /\ client' = [client EXCEPT ![c] = b]
    BY DEF Pass, Return
  <1> QED
    BY <1>2, <1>3, CallEnds

\* A puzzle.
LEMMA ChallengeKeeps ==
  ASSUME GateInv, NEW w \in Workers, NEW c \in Clients, Challenge(w, c),
         UNCHANGED <<clock, secretFile, secret>>
  PROVE  GateInv'
  <1> DEFINE b == [client[c] EXCEPT !.phase = "challenged", !.puzzle = Today]
  <1>1. client[c] \in Browsers
    BY DEF GateInv, FullTypes
  <1>2. Today \in Int
    BY DEF GateInv, FullTypes, Today
  <1>3. b \in Browsers /\ b.cookie = client[c].cookie
    BY <1>1, <1>2 DEF Browsers, Phases
  <1>4. gate' = [gate EXCEPT ![w] = Out] /\ client' = [client EXCEPT ![c] = b]
    BY DEF Challenge, Return
  <1> QED
    BY <1>3, <1>4, CallEnds

\* A cookie, signed with a good key.
LEMMA RedirectKeeps ==
  ASSUME GateInv, NEW w \in Workers, NEW c \in Clients, NEW key \in Secrets,
         Redirect(w, c, key), Good(key, secretFile),
         UNCHANGED <<clock, secretFile, secret>>
  PROVE  GateInv'
  <1> DEFINE k == [key |-> key, class |-> Identity(client[c].at), exp |-> clock + TTL]
             b == [client[c] EXCEPT !.phase = "redirected", !.cookie = k, !.puzzle = NoPuzzle]
  <1>1. client[c] \in Browsers /\ clock \in Nat
    BY DEF GateInv, FullTypes
  <1>2. client[c].at \in Addresses
    BY <1>1 DEF Browsers
  <1>3. k \in Cookies /\ k.key = key
    BY <1>1, <1>2 DEF Cookies
  <1>4. b \in Browsers /\ b.cookie = k
    BY <1>1, <1>3 DEF Browsers, Phases
  <1>5. gate' = [gate EXCEPT ![w] = Out] /\ client' = [client EXCEPT ![c] = b]
    BY DEF Redirect, Return
  <1> QED
    BY <1>3, <1>4, <1>5, CallEnds

\* A call that needs the key: it is in memory, or the file is read.
LEMMA NeedKeeps ==
  ASSUME GateInv, NEW w \in Workers, NEW c \in Clients, NEW goal \in {"check", "mint"},
         Need(w, c, goal), UNCHANGED <<clock, secretFile, secret>>
  PROVE  GateInv'
  <1> DEFINE g == [client |-> c, goal |-> goal, key |-> secret[w],
                   pc |-> IF secret[w] = NoSecret THEN "read" ELSE "keyed"]
  <1>1. secret[w] \in Workers \cup {NoSecret}
    BY DEF GateInv, FullTypes
  <1>2. g \in Calls /\ g.client = c /\ g.pc # "write"
    BY <1>1 DEF Calls, Secrets
  <1>3. g.pc = "keyed" => Good(g.key, secretFile)
    BY <1>1 DEF GateInv, SecretsGood, Good
  <1>4. gate' = [gate EXCEPT ![w] = g] /\ client' = client
    BY DEF Need
  <1> QED
    BY <1>2, <1>3, <1>4, CallMoves

\* What comes after a cookie that is missing or bad.
LEMMA AfterCookieKeeps ==
  ASSUME GateInv, NEW w \in Workers, NEW c \in Clients, AfterCookie(w, c),
         UNCHANGED <<clock, secretFile, secret>>
  PROVE  GateInv'
  BY NeedKeeps, PassKeeps, ChallengeKeeps DEF AfterCookie

\* A request.
LEMMA AskKeeps ==
  ASSUME GateInv, NEW w \in Workers, NEW c \in Clients, Ask(w, c)
  PROVE  GateInv'
  BY NeedKeeps, AfterCookieKeeps DEF Ask

\* The key is there: the cookie is looked at.
LEMMA CheckKeeps ==
  ASSUME GateInv, NEW w \in Workers, Check(w)
  PROVE  GateInv'
  <1>1. gate[w].client \in Clients
    BY DEF GateInv, InCall, Check
  <1> QED
    BY <1>1, PassKeeps, AfterCookieKeeps DEF Check

\* Or one is made.
LEMMA MintKeeps ==
  ASSUME GateInv, NEW w \in Workers, Mint(w)
  PROVE  GateInv'
  <1>1. gate[w].client \in Clients /\ gate[w].key \in Secrets
    BY DEF GateInv, InCall, Mint, FullTypes, Calls
  <1>2. Good(gate[w].key, secretFile)
    BY DEF GateInv, CallsGood, Mint
  <1> QED
    BY <1>1, <1>2, RedirectKeeps DEF Mint

\* A whole file is kept in memory.
LEMMA LoadedKeeps ==
  ASSUME GateInv, NEW w \in Workers, gate[w].pc # "out", Loaded(w), Full(secretFile),
         UNCHANGED <<clock, secretFile, client>>
  PROVE  GateInv'
  <1> DEFINE g == [gate[w] EXCEPT !.pc = "keyed", !.key = secretFile]
  <1>1. secretFile \in Workers /\ secretFile \in Secrets /\ gate[w] \in Calls
    BY DEF GateInv, FullTypes, Full, Secrets
  <1>2. g \in Calls /\ g.pc = "keyed" /\ g.key = secretFile /\ g.client = gate[w].client
    BY <1>1, KeyedType
  <1>3. gate' = [gate EXCEPT ![w] = g]
    BY DEF Loaded, WithKey
  <1>4. /\ gate' \in [Workers -> Calls] /\ gate'[w] = g
        /\ \A v \in Workers : v # w => gate'[v] = gate[v]
    BY <1>2, <1>3, GateStep DEF GateInv
  <1>5. /\ secret' \in [Workers -> Workers \cup {NoSecret}] /\ secret'[w] = secretFile
        /\ \A v \in Workers : v # w => secret'[v] = secret[v]
    BY <1>1 DEF Loaded, GateInv, FullTypes
  <1>6. FullTypes'
    BY <1>4, <1>5 DEF GateInv, FullTypes
  <1>7. InCall' /\ OneWriter'
    BY <1>2, <1>4 DEF GateInv, InCall, OneWriter
  <1>8. SecretsGood'
    BY <1>5 DEF GateInv, SecretsGood
  <1>9. CallsGood'
    BY <1>1, <1>2, <1>4 DEF GateInv, CallsGood, Good
  <1> QED
    BY <1>6, <1>7, <1>8, <1>9 DEF GateInv, CookiesGood, Good

\* The first reading.
LEMMA LoadReadKeeps ==
  ASSUME GateInv, NEW w \in Workers, LoadRead(w)
  PROVE  GateInv'
  <1>1. gate[w] \in Calls /\ gate[w].client \in Clients
    BY DEF GateInv, FullTypes, InCall, LoadRead
  <1>2. CASE Full(secretFile)
    BY <1>2, LoadedKeeps DEF LoadRead
  <1>3. CASE ~Full(secretFile)
    <2>1. /\ gate' = [gate EXCEPT ![w] = [gate[w] EXCEPT !.pc = "create"]]
          /\ UNCHANGED <<clock, secretFile, secret, client>>
      BY <1>3 DEF LoadRead, At
    <2> QED
      BY <1>1, <2>1, MovedType, CallMoves
  <1> QED
    BY <1>2, <1>3

\* The second: whoever finds no key goes on with the empty one.
LEMMA LoadRereadKeeps ==
  ASSUME GateInv, NEW w \in Workers, LoadReread(w)
  PROVE  GateInv'
  <1>1. gate[w] \in Calls /\ gate[w].client \in Clients
    BY DEF GateInv, FullTypes, InCall, LoadReread
  <1>2. CASE Full(secretFile)
    BY <1>2, LoadedKeeps DEF LoadReread
  <1>3. CASE ~Full(secretFile)
    <2> DEFINE g == [gate[w] EXCEPT !.pc = "keyed", !.key = EmptyKey]
    <2>1. /\ gate' = [gate EXCEPT ![w] = g]
          /\ UNCHANGED <<clock, secretFile, secret, client>>
      BY <1>3 DEF LoadReread, WithKey
    <2>2. EmptyKey \in Secrets /\ Good(EmptyKey, secretFile)
      BY DEF Secrets, Good
    <2>3. g \in Calls /\ g.pc = "keyed" /\ g.key = EmptyKey /\ g.client \in Clients
      BY <1>1, <2>2, KeyedType
    <2> HIDE DEF g
    <2> QED
      BY <2>1, <2>2, <2>3, CallMoves
  <1> QED
    BY <1>2, <1>3

\* Nothing was written.
LEMMA WriteFailsKeeps ==
  ASSUME GateInv, NEW w \in Workers, WriteFails(w)
  PROVE  GateInv'
  <1>1. gate[w] \in Calls /\ gate[w].client \in Clients
    BY DEF GateInv, FullTypes, InCall, WriteFails
  <1>2. /\ gate' = [gate EXCEPT ![w] = [gate[w] EXCEPT !.pc = "reread"]]
        /\ UNCHANGED <<clock, secretFile, secret, client>>
    BY DEF WriteFails, At
  <1> QED
    BY <1>1, <1>2, MovedType, CallMoves

\* Creating the file: nobody writes yet, and no key is in use.
LEMMA LoadCreateKeeps ==
  ASSUME GateInv, NEW w \in Workers, LoadCreate(w)
  PROVE  GateInv'
  <1>1. gate[w] \in Calls /\ gate[w].client \in Clients
    BY DEF GateInv, FullTypes, InCall, LoadCreate
  <1>2. CASE secretFile = "absent" /\ writable
    <2> DEFINE g == [gate[w] EXCEPT !.pc = "write"]
    <2>1. g \in Calls /\ g.pc = "write" /\ g.client \in Clients
      BY <1>1, MovedType
    <2>2. gate' = [gate EXCEPT ![w] = g] /\ secretFile' = "short"
          /\ UNCHANGED <<clock, secret, client>>
      BY <1>2 DEF LoadCreate, At
    <2>3. /\ gate' \in [Workers -> Calls] /\ gate'[w] = g
          /\ \A v \in Workers : v # w => gate'[v] = gate[v]
      BY <2>1, <2>2, GateStep DEF GateInv
    <2>4. \A v \in Workers : gate[v].pc # "write"
      BY <1>2 DEF GateInv, OneWriter
    <2>5. FullTypes'
      BY <2>2, <2>3 DEF GateInv, FullTypes
    <2>6. InCall' /\ OneWriter'
      BY <2>1, <2>2, <2>3, <2>4 DEF GateInv, InCall, OneWriter
    <2>7. secretFile \notin Workers
      BY <1>2
    <2>8. SecretsGood'
      BY <2>2, <2>7 DEF GateInv, FullTypes, SecretsGood
    <2>9. CallsGood' /\ CookiesGood'
      BY <2>1, <2>2, <2>3, <2>7 DEF GateInv, CallsGood, CookiesGood, Good
    <2> QED
      BY <2>5, <2>6, <2>8, <2>9 DEF GateInv
  <1>3. CASE ~(secretFile = "absent" /\ writable)
    <2>1. /\ gate' = [gate EXCEPT ![w] = [gate[w] EXCEPT !.pc = "reread"]]
          /\ UNCHANGED <<clock, secretFile, secret, client>>
      BY <1>3 DEF LoadCreate, At
    <2> QED
      BY <1>1, <2>1, MovedType, CallMoves
  <1> QED
    BY <1>2, <1>3

\* Writing it: w is the only one, and still no key is in use.
LEMMA LoadWriteKeeps ==
  ASSUME GateInv, NEW w \in Workers, LoadWrite(w)
  PROVE  GateInv'
  <1> DEFINE g == [gate[w] EXCEPT !.pc = "keyed", !.key = w]
  <1>1. gate[w] \in Calls /\ gate[w].client \in Clients /\ w \in Secrets
    BY DEF GateInv, FullTypes, InCall, LoadWrite, Secrets
  <1>2. g \in Calls /\ g.pc = "keyed" /\ g.key = w /\ g.client \in Clients
    BY <1>1, KeyedType
  <1>3. /\ gate' = [gate EXCEPT ![w] = g] /\ secret' = [secret EXCEPT ![w] = w]
        /\ secretFile' = w /\ UNCHANGED <<clock, client>>
    BY DEF LoadWrite, WithKey
  <1>4. /\ gate' \in [Workers -> Calls] /\ gate'[w] = g
        /\ \A v \in Workers : v # w => gate'[v] = gate[v]
    BY <1>2, <1>3, GateStep DEF GateInv
  <1>5. secretFile \notin Workers
    BY DEF GateInv, OneWriter, LoadWrite
  <1>6. \A v \in Workers : secret[v] = NoSecret
    BY <1>5 DEF GateInv, FullTypes, SecretsGood
  <1>7. \A v \in Workers : v # w => gate[v].pc # "write"
    BY DEF GateInv, OneWriter, LoadWrite
  <1>8. FullTypes'
    BY <1>3, <1>4 DEF GateInv, FullTypes
  <1>9. InCall' /\ OneWriter'
    BY <1>2, <1>4, <1>7 DEF GateInv, InCall, OneWriter
  <1>10. SecretsGood'
    BY <1>3, <1>6 DEF GateInv, FullTypes, SecretsGood
  <1>11. CallsGood' /\ CookiesGood'
    BY <1>2, <1>3, <1>4, <1>5 DEF GateInv, CallsGood, CookiesGood, Good
  <1> QED
    BY <1>8, <1>9, <1>10, <1>11 DEF GateInv

\* A crash forgets the key; the file stays as it is.
LEMMA CrashKeeps ==
  ASSUME GateInv, NEW w \in Workers, Crash(w)
  PROVE  GateInv'
  <1>1. /\ gate' \in [Workers -> Calls] /\ gate'[w].pc = "out"
        /\ \A v \in Workers : v # w => gate'[v] = gate[v]
    BY GateStep, OutType DEF GateInv, Crash
  <1>2. /\ secret' \in [Workers -> Workers \cup {NoSecret}] /\ secret'[w] = NoSecret
        /\ \A v \in Workers : v # w => secret'[v] = secret[v]
    BY DEF GateInv, FullTypes, Crash
  <1>3. FullTypes'
    BY <1>1, <1>2 DEF GateInv, FullTypes, Crash
  <1>4. InCall' /\ OneWriter' /\ CallsGood'
    BY <1>1 DEF GateInv, InCall, OneWriter, CallsGood, Good, Crash
  <1>5. SecretsGood' /\ CookiesGood'
    BY <1>2 DEF GateInv, SecretsGood, CookiesGood, Good, Crash
  <1> QED
    BY <1>3, <1>4, <1>5 DEF GateInv

\* Another address, the same cookie.
LEMMA RoamKeeps ==
  ASSUME GateInv, NEW c \in Clients, NEW a \in Addresses, Roam(c, a)
  PROVE  GateInv'
  <1> DEFINE b == [client[c] EXCEPT !.at = a]
  <1>1. client[c] \in Browsers
    BY DEF GateInv, FullTypes
  <1>2. b \in Browsers /\ b.cookie = client[c].cookie
    BY <1>1 DEF Browsers
  <1>3. client' = [client EXCEPT ![c] = b]
    BY DEF Roam
  <1>4. /\ client' \in [Clients -> Browsers] /\ client'[c] = b
        /\ \A d \in Clients : d # c => client'[d] = client[d]
    BY <1>2, <1>3, ClientStep DEF GateInv
  <1>5. FullTypes'
    BY <1>4 DEF GateInv, FullTypes, Roam
  <1>6. CookiesGood'
    BY <1>2, <1>4 DEF GateInv, CookiesGood, Good, Roam
  <1> QED
    BY <1>5, <1>6
    DEF GateInv, InCall, OneWriter, SecretsGood, CallsGood, Good, Roam

\* Time is not in the invariant.
LEMMA GateTickKeeps ==
  ASSUME GateInv, clock' = clock + 1,
         UNCHANGED <<secretFile, secret, gate, client>>
  PROVE  GateInv'
  BY DEF GateInv, FullTypes, InCall, OneWriter, SecretsGood, CallsGood, CookiesGood, Good

-----------------------------------------------------------------------------
\* Every step keeps the invariant.
LEMMA NextGateInv ==
  ASSUME GateInv, [GateNext]_bvars
  PROVE  GateInv'
  <1>1. ASSUME NEW w \in Workers, Work(w) PROVE GateInv'
    BY <1>1, CheckKeeps, MintKeeps, LoadReadKeeps, LoadCreateKeeps, LoadWriteKeeps,
       WriteFailsKeeps, LoadRereadKeeps DEF Work
  <1>2. CASE UNCHANGED bvars
    BY <1>2
    DEF bvars, GateInv, FullTypes, InCall, OneWriter, SecretsGood, CallsGood, CookiesGood, Good
  <1> QED
    BY <1>1, <1>2, AskKeeps, CrashKeeps, RoamKeeps, GateTickKeeps DEF GateNext, GateTick

\* So it holds always.
LEMMA InvariantHolds == GateSpec => []GateInv
  <1>1. GateInit => GateInv
    BY InitGateInv
  <1>2. GateInv /\ [GateNext]_bvars => GateInv'
    BY NextGateInv
  <1> QED
    BY <1>1, <1>2, PTL DEF GateSpec

(***************************************************************************)
(* All workers that have loaded the secret have the file's, and a cookie   *)
(* is signed with it or with the empty key: for any number of workers and  *)
(* any interleaving of their steps in bc_load_secret, with crashes, and    *)
(* with writes that fail.                                                  *)
(***************************************************************************)
THEOREM WorkersAgree == GateSpec => []SecretsAgree
  <1>1. GateInv => SecretsAgree
    BY DEF GateInv, SecretsGood, CookiesGood, Good, SecretsAgree
  <1> QED
    BY <1>1, InvariantHolds, PTL

(***************************************************************************)
(* Type correctness (exec_bot_challenge, bc_load_secret).                  *)
(***************************************************************************)
THEOREM GateTypeCorrect == GateSpec => []BotTypeOK
  <1>1. GateInv => BotTypeOK
    BY DEF GateInv, FullTypes, InCall, Calls, BotTypeOK
  <1> QED
    BY <1>1, InvariantHolds, PTL
=============================================================================
