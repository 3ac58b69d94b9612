---------------------------- MODULE ResponseProofs ----------------------------
(***************************************************************************)
(* Proofs about Response, for any sessions, requests, directives, names of *)
(* headers and sizes of the table, and any order of the hooks.             *)
(*                                                                         *)
(* The steps of Response are steps of EsiStream, so that what EsiProofs    *)
(* says holds with the header hook between them.  The hook itself is a     *)
(* sequence of loops: that the table stays well formed through all of them *)
(* is shown of one directive (ExecType) and passes along a loop (RunType). *)
(***************************************************************************)
EXTENDS Response, EsiProofs

(***************************************************************************)
(* Recursive functions over 0 .. n.  What holds at 0 and passes from each  *)
(* index to the next holds everywhere; and there is such a function.       *)
(***************************************************************************)
LEMMA Inductively ==
  ASSUME NEW n \in Nat, NEW g, NEW S, g[0] \in S,
         \A i \in 1 .. n : g[i - 1] \in S => g[i] \in S
  PROVE  \A i \in 0 .. n : g[i] \in S
  <1> DEFINE Bad == {i \in 0 .. n : g[i] \notin S}
  <1>1. ASSUME Bad # {} PROVE FALSE
    <2>0. Bad \in SUBSET Nat
      OBVIOUS
    <2>1. PICK i \in Bad : \A k \in Nat : k < i => k \notin Bad
      <3> HIDE DEF Bad
      <3> QED
        BY <1>1, <2>0, FirstFailure
    <2>2. i # 0
      OBVIOUS
    <2>3. i \in 1 .. n /\ i - 1 \in 0 .. n /\ i - 1 \in Nat /\ i - 1 < i
      BY <2>2
    <2>4. g[i - 1] \in S
      BY <2>1, <2>3
    <2> QED
      BY <2>3, <2>4
  <1> QED
    BY <1>1

\* From base, each value from the one before.
From(base, step, n, f) ==
  f = [i \in 0 .. n |-> IF i = 0 THEN base ELSE step[<<f[i - 1], i>>]]

LEMMA Recursively ==
  ASSUME NEW n \in Nat, NEW S, NEW base \in S, NEW step \in [S \X (1 .. n) -> S]
  PROVE  \E f \in [0 .. n -> S] : From(base, step, n, f)
  <1> DEFINE Good(m) == \E f \in [0 .. m -> S] : From(base, step, m, f)
             Bad == {m \in 0 .. n : ~ Good(m)}
  <1>1. ASSUME Bad # {} PROVE FALSE
    <2>0. Bad \in SUBSET Nat
      OBVIOUS
    <2>1. PICK m \in Bad : \A k \in Nat : k < m => k \notin Bad
      <3> HIDE DEF Bad
      <3> QED
        BY <1>1, <2>0, FirstFailure
    <2>2. CASE m = 0
      <3> DEFINE f == [i \in 0 .. 0 |-> base]
      <3>1. f \in [0 .. 0 -> S]
        OBVIOUS
      <3>2. From(base, step, 0, f)
        BY DEF From
      <3> QED
        BY <2>1, <2>2, <3>1, <3>2
    <2>3. CASE m > 0
      <3>1. m - 1 \in Nat /\ m - 1 < m /\ m - 1 \in 0 .. n /\ m \in 1 .. n
        BY <2>3
      <3>2. PICK f \in [0 .. m - 1 -> S] : From(base, step, m - 1, f)
        BY <2>1, <3>1
      <3>3. \A i \in 0 .. m - 1 : f[i] = IF i = 0 THEN base ELSE step[<<f[i - 1], i>>]
        BY <3>2 DEF From
      <3>4. step[<<f[m - 1], m>>] \in S
        BY <3>1
      <3> DEFINE g == [i \in 0 .. m |-> IF i < m THEN f[i] ELSE step[<<f[m - 1], m>>]]
      <3>5. g \in [0 .. m -> S]
        BY <2>3, <3>1, <3>4
      <3>6. ASSUME NEW i \in 0 .. m
            PROVE  g[i] = IF i = 0 THEN base ELSE step[<<g[i - 1], i>>]
        <4>1. CASE i = m
          <5>1. g[m - 1] = f[m - 1]
            BY <2>3, <3>1
          <5>2. g[i] = step[<<f[m - 1], m>>]
            BY <4>1, <2>3, <3>1
          <5> HIDE DEF g
          <5> QED
            BY <2>3, <4>1, <5>1, <5>2
        <4>2. CASE i # m
          <5>1. i \in 0 .. m - 1 /\ (i = 0 \/ i - 1 \in 0 .. m - 1)
            BY <3>1, <4>2
          <5>2. g[i] = f[i] /\ (i = 0 \/ g[i - 1] = f[i - 1])
            BY <3>1, <5>1
          <5> HIDE DEF g
          <5> QED
            BY <3>3, <5>1, <5>2
        <4> QED
          BY <4>1, <4>2
      <3>7. From(base, step, m, g)
        <4>1. g = [i \in 0 .. m |-> g[i]]
          OBVIOUS
        <4> HIDE DEF g
        <4> QED
          BY <3>6, <4>1 DEF From
      <3> QED
        BY <2>1, <3>5, <3>7
    <2> QED
      BY <2>1, <2>2, <2>3
  <1> QED
    BY <1>1

(***************************************************************************)
(* FlattenSeq joins sequences over a set into one over the same set.       *)
(***************************************************************************)
FlatUpTo(seqs, n, f) ==
  f = [i \in 1 .. n |-> IF i = 1 THEN seqs[i] ELSE f[i - 1] \o seqs[i]]

LEMMA FlattenType ==
  ASSUME NEW D, NEW seqs \in Seq(Seq(D))
  PROVE  FlattenSeq(seqs) \in Seq(D)
  <1> DEFINE n == Len(seqs)
  <1>0. n \in Nat /\ \A i \in 1 .. n : seqs[i] \in Seq(D)
    BY LenProperties, ElementOfSeq
  <1>1. CASE n = 0
    <2>1. seqs = <<>>
      BY <1>1, EmptySeq
    <2> QED
      BY <1>1, <2>1 DEF FlattenSeq
  <1>2. CASE n > 0
    <2> HIDE DEF n
    <2>1. \E f : FlatUpTo(seqs, n, f)
      <3> DEFINE step == [x \in Seq(D) \X (1 .. n) |-> x[1] \o seqs[x[2]]]
      <3>1. step \in [Seq(D) \X (1 .. n) -> Seq(D)]
        BY <1>0
      <3>2. \A u \in Seq(D), i \in 1 .. n : step[<<u, i>>] = u \o seqs[i]
        OBVIOUS
      <3>3. <<>> \in Seq(D)
        OBVIOUS
      <3> HIDE DEF step
      <3>4. PICK f \in [0 .. n -> Seq(D)] : From(<<>>, step, n, f)
        BY <1>0, <3>1, <3>3, Recursively
      <3>5. \A i \in 0 .. n : f[i] = IF i = 0 THEN <<>> ELSE step[<<f[i - 1], i>>]
        BY <3>4 DEF From
      <3>6. f[0] = <<>>
        <4>1. 0 \in 0 .. n
          BY <1>0
        <4> QED
          BY <3>5, <4>1
      <3>7. ASSUME NEW i \in 1 .. n
            PROVE  f[i] = IF i = 1 THEN seqs[i] ELSE f[i - 1] \o seqs[i]
        <4>1. i \in 0 .. n /\ i # 0 /\ i - 1 \in 0 .. n
          BY <1>0
        <4>2. f[i] = step[<<f[i - 1], i>>] /\ f[i - 1] \in Seq(D)
          BY <3>4, <3>5, <4>1
        <4>3. f[i] = f[i - 1] \o seqs[i]
          BY <3>2, <4>2
        <4>4. <<>> \o seqs[i] = seqs[i]
          BY <1>0, ConcatEmptySeq
        <4>5. i = 1 => i - 1 = 0
          OBVIOUS
        <4> QED
          BY <3>6, <4>3, <4>4, <4>5
      <3> DEFINE g == [i \in 1 .. n |-> f[i]]
      <3>8. \A i \in 1 .. n : g[i] = IF i = 1 THEN seqs[i] ELSE g[i - 1] \o seqs[i]
        BY <1>0, <3>7
      <3>9. g = [i \in 1 .. n |-> g[i]]
        OBVIOUS
      <3> HIDE DEF g
      <3>10. g = [i \in 1 .. n |-> IF i = 1 THEN seqs[i] ELSE g[i - 1] \o seqs[i]]
        BY <3>8, <3>9
      <3> QED
        BY <3>10, Zenon DEF FlatUpTo
    <2>2. \E f : FlattenSeq(seqs) = f[n] /\ FlatUpTo(seqs, n, f)
      <3> DEFINE f == CHOOSE f : FlatUpTo(seqs, Len(seqs), f)
      <3>1. n = Len(seqs) /\ Len(seqs) # 0
        BY <1>0, <1>2 DEF n
      <3>2. FlattenSeq(seqs) = f[Len(seqs)]
        BY <3>1 DEF FlattenSeq, FlatUpTo
      <3>3. FlatUpTo(seqs, Len(seqs), f)
        BY <2>1, <3>1
      <3> QED
        BY <3>1, <3>2, <3>3
    <2>3. PICK f : FlattenSeq(seqs) = f[n] /\ FlatUpTo(seqs, n, f)
      BY <2>2
    <2>4. \A i \in 1 .. n : f[i] = IF i = 1 THEN seqs[i] ELSE f[i - 1] \o seqs[i]
      BY <2>3 DEF FlatUpTo
    <2> DEFINE g == [i \in 0 .. n |-> IF i = 0 THEN <<>> ELSE f[i]]
    <2>5. g[0] \in Seq(D)
      BY <1>0
    <2>6. ASSUME NEW i \in 1 .. n, g[i - 1] \in Seq(D) PROVE g[i] \in Seq(D)
      <3>1. g[i] = f[i] /\ seqs[i] \in Seq(D)
        BY <1>0
      <3>2. CASE i = 1
        BY <2>4, <3>1, <3>2
      <3>3. CASE i # 1
        <4>1. g[i - 1] = f[i - 1]
          BY <1>0, <3>3
        <4>2. f[i] = f[i - 1] \o seqs[i]
          BY <2>4, <3>3
        <4>3. f[i - 1] \in Seq(D)
          BY <2>6, <4>1
        <4> HIDE DEF g
        <4> QED
          BY <3>1, <4>2, <4>3, ConcatProperties
      <3> QED
        BY <3>2, <3>3
    <2>7. g[n] \in Seq(D)
      <3> HIDE DEF g
      <3>1. \A i \in 0 .. n : g[i] \in Seq(D)
        BY <1>0, <2>5, <2>6, Inductively
      <3> QED
        BY <1>0, <3>1
    <2> QED
      BY <1>0, <1>2, <2>3, <2>7
  <1> QED
    BY <1>0, <1>1, <1>2

\* A sequence is a function on 1 .. n.
LEMMA MapType ==
  ASSUME NEW S, NEW T, NEW list \in Seq(S), NEW f,
         f = [i \in DOMAIN list |-> f[i]], \A i \in DOMAIN list : f[i] \in T
  PROVE  f \in Seq(T)
  <1>1. DOMAIN list = 1 .. Len(list) /\ Len(list) \in Nat
    BY LenProperties
  <1>2. f \in [1 .. Len(list) -> T]
    BY <1>1
  <1> QED
    BY <1>1, <1>2, SeqDef

\* What OfTypes finds is of these types.
LEMMA OfTypesType ==
  ASSUME NEW list \in Seq(Directives), NEW types
  PROVE  OfTypes(list, types) \in Seq({d \in Directives : d.type \in types})
  <1> DEFINE D == {d \in Directives : d.type \in types}
             f == [i \in DOMAIN list |-> IF list[i].type \in types THEN <<list[i]>> ELSE <<>>]
  <1>1. ASSUME NEW i \in DOMAIN list PROVE f[i] \in Seq(D)
    <2>1. list[i] \in Directives
      BY LenProperties, ElementOfSeq
    <2>2. CASE list[i].type \in types
      <3>1. list[i] \in D
        BY <2>1, <2>2
      <3>2. f[i] = <<list[i]>>
        BY <2>2
      <3> HIDE DEF f, D
      <3> QED
        BY <3>1, <3>2
    <2>3. CASE list[i].type \notin types
      <3>1. f[i] = <<>>
        BY <2>3
      <3> HIDE DEF f, D
      <3> QED
        BY <3>1
    <2> QED
      BY <2>2, <2>3
  <1>2. f = [i \in DOMAIN list |-> f[i]]
    OBVIOUS
  <1>3. OfTypes(list, types) = FlattenSeq(f)
    BY DEF OfTypes, Select
  <1> HIDE DEF f, D
  <1>4. f \in Seq(Seq(D))
    BY <1>1, <1>2, MapType
  <1>5. OfTypes(list, types) \in Seq(D)
    BY <1>3, <1>4, FlattenType
  <1> QED
    BY <1>5 DEF D

----------------------------------------------------------------------------
(***************************************************************************)
(* What is assumed of the constants, one part at a time.                   *)
(***************************************************************************)
LEMMA Sizes ==
  /\ HDR_SHADOW_SLOTS \in Nat \ {0}
  /\ HDR_MAX \in Nat \ {0}
  /\ MAX_IF_DEPTH \in Nat
  BY HeadersAssumption, Zenon

LEMMA ConstantElements ==
  /\ "" \in Elements
  /\ "text/plain" \in Elements
  /\ "off" \in Elements
  /\ "esi=on" \in Elements
  /\ "3600" \in Elements
  /\ "url" \in Elements
  <1> DEFINE Given == {"", "text/plain", "off", "esi=on", "3600", "url"}
  <1>1. Given \subseteq Elements
    BY HeadersAssumption, Zenon
  <1>2. "" \in Given /\ "text/plain" \in Given /\ "off" \in Given
        /\ "esi=on" \in Given /\ "3600" \in Given /\ "url" \in Given
    BY Zenon
  <1> HIDE DEF Given
  <1> QED
    BY <1>1, <1>2, Zenon

LEMMA ConstantFields ==
  /\ "Content-Type" \in Fields
  /\ "Content-Encoding" \in Fields
  /\ "Cache-Control" \in Fields
  /\ "Expires" \in Fields
  /\ "Location" \in Fields
  /\ "X-LiteSpeed-Cache-Control" \in Fields
  <1> DEFINE Given == {"Content-Type", "Content-Encoding", "Cache-Control", "Expires",
                       "Location", "X-LiteSpeed-Cache-Control"}
  <1>1. Given \subseteq Fields
    BY HeadersAssumption, Zenon
  <1>2. "Content-Type" \in Given /\ "Content-Encoding" \in Given /\ "Cache-Control" \in Given
        /\ "Expires" \in Given /\ "Location" \in Given /\ "X-LiteSpeed-Cache-Control" \in Given
    BY Zenon
  <1> HIDE DEF Given
  <1> QED
    BY <1>1, <1>2, Zenon

LEMMA Parsed ==
  \A d \in Directives : WellTyped(d)
  BY HeadersAssumption, Zenon

----------------------------------------------------------------------------
(***************************************************************************)
(* The shadow table.                                                       *)
(***************************************************************************)
Entries == [name : Fields, value : Lines]

LEMMA SlotOfType ==
  ASSUME NEW table \in Seq(Entries), NEW n, SlotsOf(table, n) # {}
  PROVE  SlotOf(table, n) \in DOMAIN table /\ table[SlotOf(table, n)].name = n
  <1>1. DOMAIN table = 1 .. Len(table) /\ Len(table) \in Nat
    BY LenProperties
  <1>2. SlotsOf(table, n) \in SUBSET Nat
    BY <1>1 DEF SlotsOf
  <1>3. PICK k \in SlotsOf(table, n) : \A j \in Nat : j < k => j \notin SlotsOf(table, n)
    BY <1>2, FirstFailure
  <1>4. \A j \in SlotsOf(table, n) : k <= j
    BY <1>2, <1>3
  <1>5. SlotOf(table, n) \in SlotsOf(table, n)
    BY <1>4 DEF SlotOf
  <1> QED
    BY <1>5 DEF SlotsOf

LEMMA ShadowGetType ==
  ASSUME NEW table, TableOK(table), NEW n
  PROVE  ShadowGet(table, n) \in Lines
  <1>1. table \in Seq(Entries)
    BY DEF TableOK, Entries
  <1>2. CASE SlotsOf(table, n) = {}
    BY <1>2 DEF ShadowGet, NoLine, Lines
  <1>3. CASE SlotsOf(table, n) # {}
    <2>1. table[SlotOf(table, n)] \in Entries
      BY <1>1, <1>3, SlotOfType, LenProperties, ElementOfSeq
    <2> QED
      BY <1>3, <2>1 DEF ShadowGet, Entries
  <1> QED
    BY <1>2, <1>3

\* What is cut off fits.
LEMMA ClippedType ==
  ASSUME NEW v \in Lines
  PROVE  Clipped(v) \in Lines /\ Len(Clipped(v)) <= HDR_MAX
  <1>1. Len(v) \in Nat /\ HDR_MAX \in Nat
    BY Sizes, LenProperties DEF Lines
  <1>2. CASE Len(v) > HDR_MAX
    <2>1. Clipped(v) = SubSeq(v, 1, HDR_MAX)
      BY <1>2 DEF Clipped, TooLongLine
    <2>2. SubSeq(v, 1, HDR_MAX) \in Seq(Elements) /\ Len(SubSeq(v, 1, HDR_MAX)) = HDR_MAX
      <3>1. 1 \in 1 .. Len(v) + 1 /\ HDR_MAX \in 0 .. Len(v) /\ HDR_MAX \in 1 - 1 .. Len(v)
        BY <1>1, <1>2
      <3> QED
        BY <1>1, <3>1, SubSeqProperties DEF Lines
    <2> QED
      BY <1>1, <2>1, <2>2 DEF Lines
  <1>3. CASE ~ (Len(v) > HDR_MAX)
    BY <1>1, <1>3 DEF Clipped, TooLongLine
  <1> QED
    BY <1>2, <1>3

LEMMA EvictType ==
  ASSUME NEW table, TableOK(table)
  PROVE  TableOK(Evict(table)) /\ Len(Evict(table)) < HDR_SHADOW_SLOTS
         /\ \A i \in DOMAIN Evict(table) : \E j \in DOMAIN table : Evict(table)[i] = table[j]
  <1>0. table \in Seq(Entries) /\ Len(table) \in Nat /\ DOMAIN table = 1 .. Len(table)
        /\ Len(table) <= HDR_SHADOW_SLOTS
    BY LenProperties DEF TableOK, Entries
  <1>1. HDR_SHADOW_SLOTS \in Nat /\ HDR_SHADOW_SLOTS > 0
    BY Sizes
  <1>2. CASE Len(table) >= HDR_SHADOW_SLOTS
    <2> DEFINE u == Tail(table)
    <2>1. Evict(table) = u
      BY <1>2 DEF Evict
    <2>2. u \in Seq(Entries) /\ Len(u) = Len(table) - 1 /\ DOMAIN u = 1 .. Len(u)
          /\ \A i \in 1 .. Len(u) : u[i] = table[i + 1]
      <3>1. table # <<>>
        BY <1>0, <1>1, <1>2
      <3> QED
        BY <1>0, <3>1, HeadTailProperties, LenProperties
    <2> HIDE DEF u
    <2>3. \A i \in DOMAIN u : i + 1 \in DOMAIN table /\ u[i] = table[i + 1]
      BY <1>0, <2>2
    <2>4. \A i, j \in DOMAIN u : u[i].name = u[j].name => i = j
      BY <2>2, <2>3, <1>0 DEF TableOK
    <2>5. \A i \in DOMAIN u : Len(u[i].value) <= HDR_MAX
      BY <2>3 DEF TableOK
    <2>6. Len(u) < HDR_SHADOW_SLOTS
      BY <1>0, <1>1, <2>2
    <2>7. TableOK(u)
      BY <2>2, <2>4, <2>5, <2>6, <1>0, <1>1 DEF TableOK, Entries
    <2> QED
      BY <2>1, <2>3, <2>6, <2>7
  <1>3. CASE ~ (Len(table) >= HDR_SHADOW_SLOTS)
    <2>1. Evict(table) = table
      BY <1>3 DEF Evict
    <2> QED
      BY <1>0, <1>1, <1>3, <2>1
  <1> QED
    BY <1>2, <1>3

\* A name that is not in the table is appended, one that is keeps its place.
LEMMA ShadowSetType ==
  ASSUME NEW table, TableOK(table), NEW n \in Fields, NEW v \in Lines
  PROVE  TableOK(ShadowSet(table, n, v))
  <1>0. table \in Seq(Entries) /\ Len(table) \in Nat /\ DOMAIN table = 1 .. Len(table)
        /\ Len(table) <= HDR_SHADOW_SLOTS
    BY LenProperties DEF TableOK, Entries
  <1>1. Clipped(v) \in Lines /\ Len(Clipped(v)) <= HDR_MAX
    BY ClippedType
  <1>2. CASE SlotsOf(table, n) # {}
    <2> DEFINE k == SlotOf(table, n)
               u == [table EXCEPT ![k].value = Clipped(v)]
    <2>1. k \in DOMAIN table
      BY <1>0, <1>2, SlotOfType
    <2> HIDE DEF k
    <2>2. ASSUME NEW i \in DOMAIN table
          PROVE  /\ u[i] \in Entries /\ u[i].name = table[i].name
                 /\ Len(u[i].value) <= HDR_MAX
      <3>1. table[i] \in Entries /\ Len(table[i].value) <= HDR_MAX
        BY <1>0, ElementOfSeq DEF TableOK
      <3> QED
        BY <1>1, <2>1, <3>1 DEF Entries
    <2>3. DOMAIN u = DOMAIN table /\ u = [i \in DOMAIN table |-> u[i]]
      OBVIOUS
    <2>4. ShadowSet(table, n, v) = u
      BY <1>2 DEF ShadowSet, k
    <2> HIDE DEF u
    <2>5. u \in Seq(Entries)
      BY <1>0, <2>2, <2>3, MapType
    <2>6. Len(u) = Len(table)
      BY <1>0, <2>3, <2>5, LenProperties
    <2>7. \A i, j \in DOMAIN u : u[i].name = u[j].name => i = j
      <3>1. \A i \in DOMAIN table : u[i].name = table[i].name
        BY <2>2
      <3> QED
        BY <2>3, <3>1 DEF TableOK
    <2> QED
      BY <1>0, <2>2, <2>3, <2>4, <2>5, <2>6, <2>7 DEF TableOK, Entries
  <1>3. CASE SlotsOf(table, n) = {}
    <2> DEFINE w == Evict(table)
               e == [name |-> n, value |-> Clipped(v)]
               u == Append(w, e)
    <2>1. TableOK(w) /\ Len(w) < HDR_SHADOW_SLOTS
          /\ \A i \in DOMAIN w : \E j \in DOMAIN table : w[i] = table[j]
      BY EvictType
    <2>2. ShadowSet(table, n, v) = u
      BY <1>3 DEF ShadowSet
    <2>3. e \in Entries /\ e.name = n /\ Len(e.value) <= HDR_MAX
      BY <1>1 DEF Entries
    <2> HIDE DEF w, e
    <2>4. w \in Seq(Entries) /\ Len(w) \in Nat /\ DOMAIN w = 1 .. Len(w)
      BY <2>1, LenProperties DEF TableOK, Entries
    <2>5. /\ u \in Seq(Entries) /\ Len(u) = Len(w) + 1 /\ DOMAIN u = 1 .. Len(u)
          /\ \A i \in 1 .. Len(w) : u[i] = w[i]
          /\ u[Len(w) + 1] = e
      BY <2>3, <2>4, AppendProperties, LenProperties
    <2> HIDE DEF u
    <2>6. \A i \in DOMAIN w : w[i].name # n
      BY <1>3, <2>1 DEF SlotsOf
    <2>7. \A i \in DOMAIN u : (i \in DOMAIN w /\ u[i] = w[i]) \/ (i = Len(w) + 1 /\ u[i] = e)
      BY <2>4, <2>5
    <2>8. \A i, j \in DOMAIN u : u[i].name = u[j].name => i = j
      BY <2>1, <2>3, <2>6, <2>7 DEF TableOK
    <2>9. \A i \in DOMAIN u : Len(u[i].value) <= HDR_MAX
      BY <2>1, <2>3, <2>7 DEF TableOK
    <2>10. Len(u) <= HDR_SHADOW_SLOTS
      BY <2>1, <2>4, <2>5, Sizes
    <2> QED
      BY <2>2, <2>5, <2>8, <2>9, <2>10 DEF TableOK, Entries
  <1> QED
    BY <1>2, <1>3

\* The last entry moves, and is the last no more.
LEMMA ShadowRemoveType ==
  ASSUME NEW table, TableOK(table), NEW n
  PROVE  TableOK(ShadowRemove(table, n))
  <1>0. table \in Seq(Entries) /\ Len(table) \in Nat /\ DOMAIN table = 1 .. Len(table)
        /\ Len(table) <= HDR_SHADOW_SLOTS
    BY LenProperties DEF TableOK, Entries
  <1>1. CASE SlotsOf(table, n) # {}
    <2> DEFINE k == SlotOf(table, n)
               w == [table EXCEPT ![k] = Last(table)]
               u == SubSeq(w, 1, Len(w) - 1)
    <2>1. k \in 1 .. Len(table)
      BY <1>0, <1>1, SlotOfType
    <2> HIDE DEF k
    <2>2. Last(table) = table[Len(table)] /\ Len(table) \in DOMAIN table
      BY <1>0, <2>1 DEF Last
    <2>3. \A i \in DOMAIN table : table[i] \in Entries
      BY <1>0, ElementOfSeq
    <2>4. /\ w \in Seq(Entries) /\ Len(w) = Len(table)
          /\ \A i \in DOMAIN table : w[i] = IF i = k THEN table[Len(table)] ELSE table[i]
      BY <1>0, <2>1, <2>2, <2>3, ExceptSeq
    <2>5. ShadowRemove(table, n) = u
      BY <1>1 DEF ShadowRemove, Front, k
    <2> HIDE DEF w
    <2>6. /\ u \in Seq(Entries) /\ Len(u) = Len(table) - 1
          /\ \A i \in 1 .. Len(u) : u[i] = w[i]
      <3>1. 1 \in 1 .. Len(w) + 1 /\ Len(w) - 1 \in 1 - 1 .. Len(w)
        BY <1>0, <2>1, <2>4
      <3>2. u \in Seq(Entries) /\ Len(u) = Len(w) - 1 /\ \A i \in 1 .. Len(w) - 1 : u[i] = w[i]
        BY <1>0, <2>4, <3>1
      <3> QED
        BY <2>4, <3>2
    <2> HIDE DEF u
    <2>7. DOMAIN u = 1 .. Len(table) - 1
      BY <2>6, LenProperties
    <2>8. ASSUME NEW i \in DOMAIN u
          PROVE  /\ i \in DOMAIN table /\ i # Len(table)
                 /\ u[i] = IF i = k THEN table[Len(table)] ELSE table[i]
      BY <1>0, <2>4, <2>6, <2>7
    <2>9. \A i, j \in DOMAIN u : u[i].name = u[j].name => i = j
      BY <2>2, <2>8 DEF TableOK
    <2>10. \A i \in DOMAIN u : Len(u[i].value) <= HDR_MAX
      BY <2>2, <2>8 DEF TableOK
    <2>11. Len(u) <= HDR_SHADOW_SLOTS
      BY <1>0, <2>6, Sizes
    <2> QED
      BY <2>5, <2>6, <2>9, <2>10, <2>11 DEF TableOK, Entries
  <1>2. CASE SlotsOf(table, n) = {}
    BY <1>2 DEF ShadowRemove
  <1> QED
    BY <1>1, <1>2

----------------------------------------------------------------------------
(***************************************************************************)
(* The response inside the hook, and what the server's calls do to it.     *)
(***************************************************************************)
Hooks ==
  {t \in [table : Seq(Entries), was : [Fields -> Seq(Lines)], lines : [Fields -> Seq(Lines)],
          shows : BOOLEAN, status : Nat, page : {"server", "text"}, hint : {"none", "path"}] :
     TableOK(t.table)}

LEMMA HookUpdates ==
  ASSUME NEW t \in Hooks
  PROVE  /\ \A n \in Fields, field \in Seq(Lines) : [t EXCEPT !.lines[n] = field] \in Hooks
         /\ \A table : TableOK(table) => [t EXCEPT !.table = table] \in Hooks
         /\ [t EXCEPT !.status = 302] \in Hooks
         /\ [t EXCEPT !.page = "text"] \in Hooks
         /\ [t EXCEPT !.hint = "path"] \in Hooks
  <1>1. ASSUME NEW n \in Fields, NEW field \in Seq(Lines)
        PROVE  [t EXCEPT !.lines[n] = field] \in Hooks
    BY DEF Hooks
  <1>2. ASSUME NEW table, TableOK(table) PROVE [t EXCEPT !.table = table] \in Hooks
    <2>1. table \in Seq(Entries)
      BY <1>2 DEF TableOK, Entries
    <2> QED
      BY <1>2, <2>1 DEF Hooks
  <1>3. [t EXCEPT !.status = 302] \in Hooks
    <2>1. ASSUME NEW n \in Nat PROVE [t EXCEPT !.status = n] \in Hooks
      BY DEF Hooks
    <2>2. 302 \in Nat
      OBVIOUS
    <2> QED
      BY <2>1, <2>2
  <1>4. [t EXCEPT !.page = "text"] \in Hooks /\ [t EXCEPT !.hint = "path"] \in Hooks
    BY DEF Hooks
  <1> QED
    BY <1>1, <1>2, <1>3, <1>4

LEMMA HookType ==
  ASSUME NEW t \in Hooks, NEW n \in Fields
  PROVE  t.lines[n] \in Seq(Lines) /\ t.was[n] \in Seq(Lines) /\ TableOK(t.table)
  BY DEF Hooks

LEMMA AsLineType ==
  ASSUME NEW v \in Lines
  PROVE  AsLine(v) \in Lines
  <1>1. <<>> \in Lines
    BY DEF Lines
  <1> QED
    BY <1>1, Zenon DEF AsLine, NoLine

LEMMA Singleton ==
  ASSUME NEW S, NEW e \in S
  PROVE  <<e>> \in Seq(S)
  OBVIOUS

LEMMA JoinedType ==
  ASSUME NEW line \in Lines, NEW v \in Lines
  PROVE  Joined(line, v) \in Lines
  <1>0. <<"">> \in Seq(Elements)
    BY ConstantElements, Singleton
  <1>1. (IF v = <<>> THEN <<"">> ELSE v) \in Seq(Elements)
    BY <1>0, Zenon DEF Lines
  <1> QED
    BY <1>1, ConcatProperties DEF Joined, Lines

LEMMA SetLineType ==
  ASSUME NEW t \in Hooks, NEW n \in Fields, NEW v \in Lines
  PROVE  SetLine(t, n, v) \in Hooks /\ AddLine(t, n, v) \in Hooks /\ Unset(t, n) \in Hooks
  <1>1. AsLine(v) \in Lines /\ t.lines[n] \in Seq(Lines)
    BY AsLineType, HookType
  <1>2. <<AsLine(v)>> \in Seq(Lines) /\ Append(t.lines[n], AsLine(v)) \in Seq(Lines) /\ <<>> \in Seq(Lines)
    BY <1>1
  <1>3. SetLine(t, n, v) \in Hooks
    BY <1>2, HookUpdates DEF SetLine
  <1>4. AddLine(t, n, v) \in Hooks
    BY <1>2, HookUpdates DEF AddLine
  <1>5. Unset(t, n) \in Hooks
    BY <1>2, HookUpdates DEF Unset
  <1> QED
    BY <1>3, <1>4, <1>5

LEMMA ShownType ==
  ASSUME NEW t \in Hooks, NEW n \in Fields
  PROVE  Shown(t, n) \in Lines
  <1> DEFINE field == IF t.shows \/ n = "Content-Type" THEN t.lines[n] ELSE t.was[n]
  <1>1. field \in Seq(Lines)
    BY HookType
  <1>2. Shown(t, n) = IF field = <<>> THEN NoLine ELSE Head(field)
    BY DEF Shown
  <1> HIDE DEF field
  <1>3. NoLine \in Lines
    BY DEF NoLine, Lines
  <1>4. field # <<>> => Head(field) \in Lines
    BY <1>1, HeadTailProperties
  <1> QED
    BY <1>2, <1>3, <1>4

LEMMA CurrentType ==
  ASSUME NEW t \in Hooks, NEW n \in Fields
  PROVE  Current(t, n) \in Lines
  BY HookType, ShadowGetType, ShownType DEF Current

LEMMA EditedType ==
  ASSUME NEW line \in Lines, NEW regex, NEW v \in Lines, NEW all
  PROVE  Edited(line, regex, v, all) \in Lines
  <1> DEFINE f == [i \in DOMAIN line |->
                     IF line[i] \in regex /\ (all \/ \A j \in 1 .. i - 1 : line[j] \notin regex)
                       THEN Joined(<<>>, v) ELSE <<line[i]>>]
  <1>1. ASSUME NEW i \in DOMAIN line PROVE f[i] \in Seq(Elements)
    <2>0. <<>> \in Lines
      BY DEF Lines
    <2>1. Joined(<<>>, v) \in Seq(Elements)
      BY <2>0, JoinedType DEF Lines
    <2>2. line[i] \in Elements
      BY LenProperties, ElementOfSeq DEF Lines
    <2>3. <<line[i]>> \in Seq(Elements)
      BY <2>2
    <2> QED
      BY <2>1, <2>3, Zenon
  <1>2. f = [i \in DOMAIN line |-> f[i]]
    OBVIOUS
  <1>3. Edited(line, regex, v, all) = FlattenSeq(f)
    BY DEF Edited
  <1> HIDE DEF f
  <1>4. f \in Seq(Seq(Elements))
    BY <1>1, <1>2, MapType DEF Lines
  <1> QED
    BY <1>3, <1>4, FlattenType DEF Lines

LEMMA ExpandType ==
  ASSUME NEW s \in Asks, NEW value \in Seq(STRING \X Elements)
  PROVE  Expand(s, value) \in Lines
  <1> DEFINE f == [i \in DOMAIN value |->
                     IF value[i][1] = "%{" THEN EnvLine(s, value[i][2]) ELSE <<value[i][2]>>]
  <1>1. ASSUME NEW i \in DOMAIN value PROVE f[i] \in Seq(Elements)
    <2>1. value[i] \in STRING \X Elements
      BY LenProperties, ElementOfSeq
    <2>2. <<value[i][2]>> \in Seq(Elements)
      BY <2>1
    <2>3. EnvLine(s, value[i][2]) \in Seq(Elements)
      <3>1. s.env \in [Variables -> Lines] /\ s.set \in SUBSET Variables
        BY DEF Asks
      <3>2. <<>> \in Seq(Elements)
        OBVIOUS
      <3>3. \A x \in s.set : s.env[x] \in Seq(Elements)
        BY <3>1 DEF Lines
      <3> QED
        BY <3>2, <3>3, Zenon DEF EnvLine, NoLine
    <2> QED
      BY <2>2, <2>3, Zenon
  <1>2. f = [i \in DOMAIN value |-> f[i]]
    OBVIOUS
  <1>3. Expand(s, value) = FlattenSeq(f)
    BY DEF Expand
  <1> HIDE DEF f
  <1>4. f \in Seq(Seq(Elements))
    BY <1>1, <1>2, MapType
  <1> QED
    BY <1>3, <1>4, FlattenType DEF Lines

----------------------------------------------------------------------------
(***************************************************************************)
(* The executors, one directive at a time.                                 *)
(***************************************************************************)
LEMMA PutType ==
  ASSUME NEW t \in Hooks, NEW n \in Fields, NEW v \in Lines
  PROVE  Put(t, n, v) \in Hooks
  <1> DEFINE u == SetLine(t, n, v)
  <1>1. u \in Hooks
    BY SetLineType
  <1>2. Put(t, n, v) = [u EXCEPT !.table = ShadowSet(u.table, n, AsLine(v))]
    BY DEF Put
  <1> HIDE DEF u
  <1>3. TableOK(ShadowSet(u.table, n, AsLine(v)))
    BY <1>1, HookType, AsLineType, ShadowSetType
  <1>4. \A table : TableOK(table) => [u EXCEPT !.table = table] \in Hooks
    BY <1>1, HookUpdates
  <1> QED
    BY <1>2, <1>3, <1>4, Zenon

LEMMA ExtendType ==
  ASSUME NEW t \in Hooks, NEW n \in Fields, NEW v \in Lines
  PROVE  Extend(t, n, v) \in Hooks
  <1>1. Joined(Current(t, n), v) \in Lines
    BY CurrentType, JoinedType
  <1> QED
    BY <1>1, PutType DEF Extend

LEMMA AddTableType ==
  ASSUME NEW table, TableOK(table), NEW n \in Fields, NEW v \in Lines
  PROVE  TableOK(AddTable(table, n, v))
  <1>1. AsLine(v) \in Lines /\ Joined(ShadowGet(table, n), v) \in Lines
    BY AsLineType, ShadowGetType, JoinedType
  <1> QED
    BY <1>1, ShadowSetType DEF AddTable

LEMMA EditFieldType ==
  ASSUME NEW t \in Hooks, NEW n \in Fields, NEW regex, NEW v \in Lines, NEW all
  PROVE  EditField(t, n, regex, v, all) \in Hooks
  <1>1. Edited(Shown(t, n), regex, v, all) \in Lines
    BY ShownType, EditedType
  <1> QED
    BY <1>1, SetLineType DEF EditField

\* A Header directive.
LEMMA ExecHeaderType ==
  ASSUME NEW s \in Asks, NEW t \in Hooks, NEW d \in Directives, d.type \in HeaderActs
  PROVE  ExecHeader(s, t, d) \in Hooks
  <1> DEFINE n == d.name
             v == Expand(s, d.value)
  <1>1. n \in Fields /\ d.value \in Seq(STRING \X Elements)
    BY Parsed DEF WellTyped
  <1>2. v \in Lines
    BY <1>1, ExpandType
  <1>3. TableOK(t.table)
    BY <1>1, HookType
  <1>4. ExecHeader(s, t, d) \in
          {t, Put(t, n, v), [Unset(t, n) EXCEPT !.table = ShadowRemove(@, n)], Extend(t, n, v),
           [AddLine(t, n, v) EXCEPT !.table = AddTable(@, n, v)],
           EditField(t, n, d.regex, v, FALSE), EditField(t, n, d.regex, v, TRUE)}
    <2>1. CASE ~ Met(s, d) \/ CrLf \in Range(v)
      BY <2>1 DEF ExecHeader
    <2>2. CASE ~ (~ Met(s, d) \/ CrLf \in Range(v))
      BY <2>2 DEF ExecHeader, HeaderActs
    <2> QED
      BY <2>1, <2>2
  <1> HIDE DEF n, v
  <1>5. Put(t, n, v) \in Hooks /\ Extend(t, n, v) \in Hooks
    BY <1>1, <1>2, PutType, ExtendType
  <1>6. [Unset(t, n) EXCEPT !.table = ShadowRemove(@, n)] \in Hooks
    <2>1. Unset(t, n) \in Hooks
      BY <1>1, <1>2, SetLineType
    <2>2. TableOK(ShadowRemove(Unset(t, n).table, n))
      BY <1>1, <2>1, HookType, ShadowRemoveType
    <2> QED
      BY <2>1, <2>2, HookUpdates
  <1>7. [AddLine(t, n, v) EXCEPT !.table = AddTable(@, n, v)] \in Hooks
    <2>1. AddLine(t, n, v) \in Hooks
      BY <1>1, <1>2, SetLineType
    <2>2. TableOK(AddTable(AddLine(t, n, v).table, n, v))
      BY <1>1, <1>2, <2>1, HookType, AddTableType
    <2> QED
      BY <2>1, <2>2, HookUpdates
  <1>8. EditField(t, n, d.regex, v, FALSE) \in Hooks /\ EditField(t, n, d.regex, v, TRUE) \in Hooks
    BY <1>1, <1>2, EditFieldType
  <1> QED
    BY <1>4, <1>5, <1>6, <1>7, <1>8

LEMMA WithoutCharsetType ==
  ASSUME NEW line \in Lines
  PROVE  WithoutCharset(line) \in Lines
  <1> DEFINE at == {i \in DOMAIN line : line[i] \in Charsets}
             k == CHOOSE i \in at : \A j \in at : i <= j
  <1>0. line \in Seq(Elements) /\ DOMAIN line = 1 .. Len(line) /\ Len(line) \in Nat
    BY LenProperties DEF Lines
  <1>1. WithoutCharset(line) = IF at = {} THEN line ELSE SubSeq(line, 1, k - 1)
    BY DEF WithoutCharset
  <1>2. at \in SUBSET Nat /\ at \subseteq 1 .. Len(line)
    BY <1>0
  <1> HIDE DEF at
  <1>3. ASSUME at # {} PROVE SubSeq(line, 1, k - 1) \in Seq(Elements)
    <2>1. PICK i \in at : \A j \in Nat : j < i => j \notin at
      BY <1>2, <1>3, FirstFailure
    <2>2. \A j \in at : i <= j
      BY <1>2, <2>1
    <2>3. k \in at
      BY <2>2
    <2> HIDE DEF k
    <2>4. 1 \in 1 .. Len(line) + 1 /\ k - 1 \in 1 - 1 .. Len(line)
      BY <1>0, <1>2, <2>3
    <2> QED
      BY <1>0, <2>4, SubSeqProperties
  <1> QED
    BY <1>1, <1>3, Zenon DEF Lines

LEMMA SetTypeType ==
  ASSUME NEW t \in Hooks
  PROVE  /\ TypeShown(t) \in Lines
         /\ \A line \in Lines : SetType(t, line) \in Hooks
         /\ \A e \in Elements : SetType(t, <<e>>) \in Hooks
         /\ \A line \in Lines, e \in Elements : SetType(t, Append(line, e)) \in Hooks
  <1>1. TypeShown(t) \in Lines
    BY ConstantFields, ShownType DEF TypeShown
  <1>2. ASSUME NEW line \in Lines PROVE SetType(t, line) \in Hooks
    BY ConstantFields, SetLineType DEF SetType
  <1>3. ASSUME NEW e \in Elements PROVE <<e>> \in Lines
    BY Singleton DEF Lines
  <1>4. ASSUME NEW line \in Lines, NEW e \in Elements PROVE Append(line, e) \in Lines
    BY DEF Lines
  <1> QED
    BY <1>1, <1>2, <1>3, <1>4

\* AddType and its like.
LEMMA ExecMimeType ==
  ASSUME NEW s \in Asks, NEW t \in Hooks, NEW d \in Directives, d.type \in MimeTypes
  PROVE  ExecMime(s, t, d) \in Hooks
  <1>1. CASE d.type = "ForceType"
    <2>1. d.value \in Elements
      BY <1>1, Parsed DEF WellTyped, ValuedTypes
    <2> QED
      BY <1>1, <2>1, SetTypeType DEF ExecMime
  <1>2. CASE d.type # "ForceType" /\ ~ MatchesExt(s, d)
    BY <1>2 DEF ExecMime
  <1>3. CASE d.type # "ForceType" /\ MatchesExt(s, d)
    <2>1. d.name \in Elements
      BY <1>3, Parsed DEF WellTyped, NamedTypes, MimeTypes
    <2>2. ExecMime(s, t, d) \in {SetType(t, <<d.name>>), SetLine(t, "Content-Encoding", <<d.name>>),
                                 AddCharset(t, d.name)}
      BY <1>3 DEF ExecMime, MimeTypes
    <2>3. SetLine(t, "Content-Encoding", <<d.name>>) \in Hooks
      <3>1. <<d.name>> \in Lines
        BY <2>1, Singleton DEF Lines
      <3> QED
        BY <3>1, ConstantFields, SetLineType
    <2>4. AddCharset(t, d.name) \in Hooks
      <3> DEFINE base == IF TypeShown(t) = NoLine THEN <<"text/plain">> ELSE WithoutCharset(TypeShown(t))
      <3>1. <<"text/plain">> \in Lines
        BY ConstantElements, Singleton DEF Lines
      <3>2. base \in Lines
        BY <3>1, SetTypeType, WithoutCharsetType
      <3>3. AddCharset(t, d.name) = SetType(t, Append(base, d.name))
        BY DEF AddCharset
      <3> HIDE DEF base
      <3> QED
        BY <2>1, <3>2, <3>3, SetTypeType
    <2> QED
      BY <2>1, <2>2, <2>3, <2>4, SetTypeType
  <1> QED
    BY <1>1, <1>2, <1>3

LEMMA ExecErrorDocumentType ==
  ASSUME NEW t \in Hooks, NEW d \in Directives
  PROVE  ExecErrorDocument(t, d) \in Hooks
  <1>1. [t EXCEPT !.status = 302] \in Hooks /\ [t EXCEPT !.page = "text"] \in Hooks
        /\ [t EXCEPT !.hint = "path"] \in Hooks
    BY HookUpdates
  <1>2. <<"url">> \in Lines
    BY ConstantElements, Singleton DEF Lines
  <1>3. SetLine([t EXCEPT !.status = 302], "Location", <<"url">>) \in Hooks
    BY <1>1, <1>2, ConstantFields, SetLineType
  <1> QED
    BY <1>1, <1>3 DEF ExecErrorDocument

LEMMA DefaultCharsetType ==
  ASSUME NEW t \in Hooks, NEW charset \in Elements
  PROVE  DefaultCharset(t, charset) \in Hooks /\ DefaultType(t, charset) \in Hooks
  BY SetTypeType DEF DefaultCharset, DefaultType

\* Any directive: the response stays a response.
LEMMA ExecType ==
  ASSUME NEW s \in Asks, NEW t \in Hooks, NEW d \in Directives
  PROVE  Exec(s, t, d) \in Hooks
  <1>1. CASE d.type \in HeaderActs
    <2>1. Exec(s, t, d) = ExecHeader(s, t, d)
      BY <1>1 DEF Exec, MimeTypes, HeaderActs
    <2> QED
      BY <1>1, <2>1, ExecHeaderType
  <1>2. CASE d.type \in MimeTypes
    BY <1>2, ExecMimeType DEF Exec, MimeTypes, HeaderActs
  <1>3. CASE d.type = "ErrorDocument"
    BY <1>3, ExecErrorDocumentType DEF Exec, MimeTypes, HeaderActs
  <1>4. CASE d.type = "DefaultType"
    <2>1. d.value \in Elements
      BY <1>4, Parsed DEF WellTyped, ValuedTypes
    <2> QED
      BY <1>4, <2>1, DefaultCharsetType DEF Exec, MimeTypes, HeaderActs
  <1>5. CASE d.type = "AddDefaultCharset"
    <2>1. d.value \in Elements
      BY <1>5, Parsed DEF WellTyped, ValuedTypes
    <2> QED
      BY <1>5, <2>1, DefaultCharsetType DEF Exec, MimeTypes, HeaderActs
  <1>6. CASE d.type \notin HeaderActs \cup MimeTypes
                            \cup {"ErrorDocument", "DefaultType", "AddDefaultCharset"}
    BY <1>6 DEF Exec
  <1> QED
    BY <1>1, <1>2, <1>3, <1>4, <1>5, <1>6

----------------------------------------------------------------------------
(***************************************************************************)
(* The loops.                                                              *)
(***************************************************************************)
RunUpTo(s, t, list, run) ==
  run = [i \in 0 .. Len(list) |-> IF i = 0 THEN t ELSE Exec(s, run[i - 1], list[i])]

LEMMA RunType ==
  ASSUME NEW s \in Asks, NEW t \in Hooks, NEW list \in Seq(Directives)
  PROVE  Run(s, t, list) \in Hooks
  <1> DEFINE n == Len(list)
  <1>0. n \in Nat /\ \A i \in 1 .. n : list[i] \in Directives
    BY LenProperties, ElementOfSeq
  <1>1. \E run : RunUpTo(s, t, list, run)
    <2> DEFINE step == [x \in Hooks \X (1 .. n) |-> Exec(s, x[1], list[x[2]])]
    <2>1. step \in [Hooks \X (1 .. n) -> Hooks]
      BY <1>0, ExecType
    <2>2. \A u \in Hooks, i \in 1 .. n : step[<<u, i>>] = Exec(s, u, list[i])
      OBVIOUS
    <2> HIDE DEF step, n
    <2>3. PICK run \in [0 .. n -> Hooks] : From(t, step, n, run)
      BY <1>0, <2>1, Recursively
    <2>4. \A i \in 0 .. n : run[i] = IF i = 0 THEN t ELSE step[<<run[i - 1], i>>]
      BY <2>3 DEF From
    <2>5. ASSUME NEW i \in 0 .. n
          PROVE  run[i] = IF i = 0 THEN t ELSE Exec(s, run[i - 1], list[i])
      <3>1. CASE i = 0
        BY <2>4, <3>1
      <3>2. CASE i # 0
        <4>1. i \in 1 .. n /\ i - 1 \in 0 .. n
          BY <1>0, <3>2
        <4>2. run[i - 1] \in Hooks
          BY <2>3, <4>1
        <4> QED
          BY <2>2, <2>4, <3>2, <4>1, <4>2
      <3> QED
        BY <3>1, <3>2
    <2>6. run = [i \in 0 .. n |-> run[i]]
      BY <2>3
    <2> QED
      BY <2>5, <2>6 DEF RunUpTo, n
  <1>2. \E run : Run(s, t, list) = run[n] /\ RunUpTo(s, t, list, run)
    <2> DEFINE run == CHOOSE run : RunUpTo(s, t, list, run)
    <2>1. Run(s, t, list) = run[Len(list)]
      BY DEF Run, RunUpTo
    <2>2. RunUpTo(s, t, list, run)
      BY <1>1
    <2> QED
      BY <2>1, <2>2
  <1>3. PICK run : Run(s, t, list) = run[n] /\ RunUpTo(s, t, list, run)
    BY <1>2
  <1> HIDE DEF n
  <1>4. \A i \in 0 .. n : run[i] = IF i = 0 THEN t ELSE Exec(s, run[i - 1], list[i])
    BY <1>3 DEF RunUpTo, n
  <1>5. run[0] \in Hooks
    <2>1. 0 \in 0 .. n
      BY <1>0
    <2> QED
      BY <1>4, <2>1
  <1>6. ASSUME NEW i \in 1 .. n, run[i - 1] \in Hooks PROVE run[i] \in Hooks
    <2>1. i \in 0 .. n /\ i # 0
      BY <1>0
    <2>2. run[i] = Exec(s, run[i - 1], list[i])
      BY <1>4, <2>1
    <2> QED
      BY <1>0, <1>6, <2>2, ExecType
  <1>7. \A i \in 0 .. n : run[i] \in Hooks
    BY <1>0, <1>5, <1>6, Inductively
  <1> QED
    BY <1>0, <1>3, <1>7

----------------------------------------------------------------------------
(***************************************************************************)
(* Blocks and their children.                                              *)
(***************************************************************************)
Hows == {"eval", "match", "dispatch"}
KidSet ==
  {kid \in [list : Seq(Directives), at : Nat, how : Hows] : kid.at \in DOMAIN kid.list}

LEMMA KidType ==
  ASSUME NEW kid \in KidSet
  PROVE  /\ kid.list \in Seq(Directives) /\ kid.at \in 1 .. Len(kid.list) /\ Len(kid.list) \in Nat
         /\ Directive(kid) \in Directives
  <1>1. kid.list \in Seq(Directives) /\ kid.at \in DOMAIN kid.list
    BY DEF KidSet
  <1> QED
    BY <1>1, LenProperties, ElementOfSeq DEF Directive

\* The block that is taken is one of the list.
LEMMA TakenType ==
  ASSUME NEW s \in Asks, NEW list \in Seq(Directives), NEW i \in 1 .. Len(list), NEW next
  PROVE  Taken(s, list, i, next) \in Seq(Directives)
  <1> DEFINE true == {j \in Branches(list, i, next) : Holds(s, list[j])}
             k == CHOOSE j \in true : \A m \in true : j <= m
  <1>0. Len(list) \in Nat
    BY LenProperties
  <1>1. true \in SUBSET Nat /\ true \subseteq 1 .. Len(list)
    BY <1>0 DEF Branches
  <1>2. Taken(s, list, i, next) = IF true = {} THEN <<>> ELSE list[k].kids
    BY DEF Taken
  <1> HIDE DEF true
  <1>3. ASSUME true # {} PROVE list[k].kids \in Seq(Directives)
    <2>1. PICK j \in true : \A m \in Nat : m < j => m \notin true
      BY <1>1, <1>3, FirstFailure
    <2>2. \A m \in true : j <= m
      BY <1>1, <2>1
    <2>3. k \in true
      BY <2>2
    <2> HIDE DEF k
    <2>4. list[k] \in Directives
      BY <1>1, <2>3, ElementOfSeq
    <2> QED
      BY <2>4, Parsed DEF WellTyped
  <1>4. <<>> \in Seq(Directives)
    OBVIOUS
  <1> QED
    BY <1>2, <1>3, <1>4, Zenon

LEMMA KidsType ==
  ASSUME NEW list \in Seq(Directives), NEW how \in Hows
  PROVE  Kids(list, how) \in Seq(KidSet)
  <1> DEFINE f == Kids(list, how)
  <1>1. f = [i \in DOMAIN list |-> f[i]]
    BY DEF Kids
  <1>2. ASSUME NEW i \in DOMAIN list PROVE f[i] \in KidSet
    <2>1. f[i] = [list |-> list, at |-> i, how |-> how]
      BY DEF Kids, Kid
    <2>2. i \in Nat
      BY LenProperties
    <2> HIDE DEF f
    <2> QED
      BY <2>1, <2>2 DEF KidSet
  <1> HIDE DEF f
  <1>3. f \in Seq(KidSet)
    BY <1>1, <1>2, MapType
  <1> QED
    BY <1>3 DEF f

LEMMA UnfoldType ==
  ASSUME NEW s \in Asks, NEW kid \in KidSet
  PROVE  Unfold(s, kid) \in Seq(KidSet)
  <1>1. <<kid>> \in Seq(KidSet) /\ <<>> \in Seq(KidSet)
    OBVIOUS
  <1>2. Kids(Taken(s, kid.list, kid.at, {"ElseIf", "Else"}), "eval") \in Seq(KidSet)
    BY KidType, TakenType, KidsType DEF Hows
  <1>3. Kids(Taken(s, kid.list, kid.at, IfTypes), "dispatch") \in Seq(KidSet)
    BY KidType, TakenType, KidsType DEF Hows
  <1>4. CASE Directive(kid).type \notin IfTypes
    <2>1. Unfold(s, kid) = <<kid>>
      BY <1>4 DEF Unfold
    <2> QED
      BY <1>1, <2>1
  <1>5. CASE Directive(kid).type \in IfTypes /\ kid.how = "eval"
    <2>1. Unfold(s, kid) = Kids(Taken(s, kid.list, kid.at, {"ElseIf", "Else"}), "eval")
      BY <1>5 DEF Unfold
    <2> QED
      BY <1>2, <2>1
  <1>6. CASE Directive(kid).type \in IfTypes /\ kid.how # "eval"
    <2>1. Unfold(s, kid) =
            IF Skipped(kid) THEN <<>> ELSE Kids(Taken(s, kid.list, kid.at, IfTypes), "dispatch")
      BY <1>6 DEF Unfold
    <2> QED
      BY <1>1, <1>3, <2>1
  <1> QED
    BY <1>4, <1>5, <1>6

LEMMA UnfoldAllType ==
  ASSUME NEW s \in Asks, NEW kids \in Seq(KidSet)
  PROVE  UnfoldAll(s, kids) \in Seq(KidSet)
  <1> DEFINE f == [i \in DOMAIN kids |-> Unfold(s, kids[i])]
  <1>1. f = [i \in DOMAIN kids |-> f[i]]
    OBVIOUS
  <1>2. \A i \in DOMAIN kids : f[i] \in Seq(KidSet)
    BY LenProperties, ElementOfSeq, UnfoldType
  <1>3. UnfoldAll(s, kids) = FlattenSeq(f)
    BY DEF UnfoldAll
  <1> HIDE DEF f
  <1>4. f \in Seq(Seq(KidSet))
    BY <1>1, <1>2, MapType
  <1> QED
    BY <1>3, <1>4, FlattenType

DepthUpTo(s, kids, depth) ==
  depth = [n \in 0 .. MAX_IF_DEPTH |-> IF n = 0 THEN kids ELSE UnfoldAll(s, depth[n - 1])]

LEMMA UnfoldedType ==
  ASSUME NEW s \in Asks, NEW kids \in Seq(KidSet)
  PROVE  Unfolded(s, kids) \in Seq(KidSet)
  <1> DEFINE N == MAX_IF_DEPTH
  <1>0. N \in Nat
    BY Sizes
  <1> HIDE DEF N
  <1>1. \E depth : DepthUpTo(s, kids, depth)
    <2> DEFINE step == [x \in Seq(KidSet) \X (1 .. N) |-> UnfoldAll(s, x[1])]
    <2>1. step \in [Seq(KidSet) \X (1 .. N) -> Seq(KidSet)]
      BY UnfoldAllType
    <2>2. \A u \in Seq(KidSet), i \in 1 .. N : step[<<u, i>>] = UnfoldAll(s, u)
      OBVIOUS
    <2> HIDE DEF step
    <2>3. PICK depth \in [0 .. N -> Seq(KidSet)] : From(kids, step, N, depth)
      BY <1>0, <2>1, Recursively
    <2>4. \A i \in 0 .. N : depth[i] = IF i = 0 THEN kids ELSE step[<<depth[i - 1], i>>]
      BY <2>3 DEF From
    <2>5. ASSUME NEW i \in 0 .. N
          PROVE  depth[i] = IF i = 0 THEN kids ELSE UnfoldAll(s, depth[i - 1])
      <3>1. CASE i = 0
        BY <2>4, <3>1
      <3>2. CASE i # 0
        <4>1. i \in 1 .. N /\ i - 1 \in 0 .. N
          BY <1>0, <3>2
        <4>2. depth[i - 1] \in Seq(KidSet)
          BY <2>3, <4>1
        <4> QED
          BY <2>2, <2>4, <3>2, <4>1, <4>2
      <3> QED
        BY <3>1, <3>2
    <2>6. depth = [i \in 0 .. N |-> depth[i]]
      BY <2>3
    <2> QED
      BY <2>5, <2>6 DEF DepthUpTo, N
  <1>2. \E depth : Unfolded(s, kids) = depth[N] /\ DepthUpTo(s, kids, depth)
    <2> DEFINE depth == CHOOSE depth : DepthUpTo(s, kids, depth)
    <2>1. Unfolded(s, kids) = depth[MAX_IF_DEPTH]
      BY DEF Unfolded, DepthUpTo
    <2>2. DepthUpTo(s, kids, depth)
      BY <1>1
    <2> QED
      BY <2>1, <2>2 DEF N
  <1>3. PICK depth : Unfolded(s, kids) = depth[N] /\ DepthUpTo(s, kids, depth)
    BY <1>2
  <1>4. \A i \in 0 .. N : depth[i] = IF i = 0 THEN kids ELSE UnfoldAll(s, depth[i - 1])
    BY <1>3 DEF DepthUpTo, N
  <1>5. depth[0] \in Seq(KidSet)
    <2>1. 0 \in 0 .. N
      BY <1>0
    <2> QED
      BY <1>4, <2>1
  <1>6. ASSUME NEW i \in 1 .. N, depth[i - 1] \in Seq(KidSet) PROVE depth[i] \in Seq(KidSet)
    <2>1. i \in 0 .. N /\ i # 0
      BY <1>0
    <2>2. depth[i] = UnfoldAll(s, depth[i - 1])
      BY <1>4, <2>1
    <2> QED
      BY <1>6, <2>2, UnfoldAllType
  <1>7. \A i \in 0 .. N : depth[i] \in Seq(KidSet)
    BY <1>0, <1>5, <1>6, Inductively
  <1> QED
    BY <1>0, <1>3, <1>7

LEMMA RunKidsType ==
  ASSUME NEW s \in Asks, NEW t \in Hooks, NEW kids \in Seq(KidSet)
  PROVE  RunKids(s, t, kids) \in Hooks
  <1> DEFINE all == Unfolded(s, kids)
             f == [i \in DOMAIN all |-> Directive(all[i])]
  <1>1. all \in Seq(KidSet)
    BY UnfoldedType
  <1>2. RunKids(s, t, kids) = Run(s, t, f)
    BY DEF RunKids
  <1> HIDE DEF all
  <1>3. f = [i \in DOMAIN all |-> f[i]]
    OBVIOUS
  <1>4. \A i \in DOMAIN all : f[i] \in Directives
    BY <1>1, LenProperties, ElementOfSeq, KidType
  <1> HIDE DEF f
  <1>5. f \in Seq(Directives)
    BY <1>1, <1>3, <1>4, MapType
  <1> QED
    BY <1>2, <1>5, RunType

----------------------------------------------------------------------------
(***************************************************************************)
(* The stages.  A selection has only what the list has.                    *)
(***************************************************************************)
LEMMA SelectionType ==
  ASSUME NEW S, NEW list \in Seq(S), NEW f,
         f = [i \in DOMAIN list |-> f[i]],
         \A i \in DOMAIN list : f[i] = <<list[i]>> \/ f[i] = <<>>
  PROVE  FlattenSeq(f) \in Seq(S)
  <1>1. ASSUME NEW i \in DOMAIN list PROVE f[i] \in Seq(S)
    <2>1. list[i] \in S
      BY LenProperties, ElementOfSeq
    <2>2. <<list[i]>> \in Seq(S) /\ <<>> \in Seq(S)
      BY <2>1
    <2> QED
      BY <2>2
  <1>2. f \in Seq(Seq(S))
    BY <1>1, MapType
  <1> QED
    BY <1>2, FlattenType

LEMMA EndsType ==
  ASSUME NEW S, NEW list \in Seq(S), list # <<>>
  PROVE  Head(list) \in S /\ Last(list) \in S /\ list[1] \in S
  <1>1. Len(list) \in Nat /\ Len(list) # 0
    BY LenProperties, EmptySeq
  <1>2. Len(list) \in 1 .. Len(list) /\ 1 \in 1 .. Len(list)
    BY <1>1
  <1>3. list[Len(list)] \in S /\ list[1] \in S
    BY <1>2, ElementOfSeq
  <1>4. Last(list) = list[Len(list)]
    BY DEF Last
  <1>5. Head(list) \in S
    BY HeadTailProperties
  <1> QED
    BY <1>3, <1>4, <1>5

LEMMA DirsType ==
  ASSUME NEW s \in Asks
  PROVE  /\ s.dirs \in Seq(Directives)
         /\ \A types : OfTypes(s.dirs, types) \in Seq(Directives)
         /\ \A type : Sole(s.dirs, type) \in Seq(Directives)
  <1>1. s.dirs \in Seq(Directives)
    BY DEF Asks
  <1>2. ASSUME NEW types PROVE OfTypes(s.dirs, types) \in Seq(Directives)
    <2> DEFINE f == [i \in DOMAIN s.dirs |-> IF s.dirs[i].type \in types THEN <<s.dirs[i]>> ELSE <<>>]
    <2>1. f = [i \in DOMAIN s.dirs |-> f[i]] /\ \A i \in DOMAIN s.dirs : f[i] = <<s.dirs[i]>> \/ f[i] = <<>>
      OBVIOUS
    <2>2. OfTypes(s.dirs, types) = FlattenSeq(f)
      BY DEF OfTypes, Select
    <2> HIDE DEF f
    <2> QED
      BY <1>1, <2>1, <2>2, SelectionType
  <1>3. ASSUME NEW type PROVE Sole(s.dirs, type) \in Seq(Directives)
    <2> DEFINE all == OfTypes(s.dirs, {type})
    <2>1. Sole(s.dirs, type) = IF all = <<>> THEN <<>> ELSE <<Head(all)>>
      BY DEF Sole
    <2>2. all \in Seq(Directives)
      BY <1>2
    <2> HIDE DEF all
    <2>3. ASSUME all # <<>> PROVE <<Head(all)>> \in Seq(Directives)
      BY <2>2, <2>3, EndsType, Singleton
    <2>4. <<>> \in Seq(Directives)
      OBVIOUS
    <2> QED
      BY <2>1, <2>3, <2>4, Zenon
  <1> QED
    BY <1>1, <1>2, <1>3

LEMMA KidsOfType ==
  ASSUME NEW blocks \in Seq(Directives), NEW how \in Hows
  PROVE  KidsOf(blocks, how) \in Seq(KidSet)
  <1> DEFINE f == [i \in DOMAIN blocks |-> Kids(blocks[i].kids, how)]
  <1>1. f = [i \in DOMAIN blocks |-> f[i]]
    OBVIOUS
  <1>2. ASSUME NEW i \in DOMAIN blocks PROVE f[i] \in Seq(KidSet)
    <2>1. blocks[i].kids \in Seq(Directives)
      BY LenProperties, ElementOfSeq, Parsed DEF WellTyped
    <2> QED
      BY <2>1, KidsType
  <1>3. KidsOf(blocks, how) = FlattenSeq(f)
    BY DEF KidsOf
  <1> HIDE DEF f
  <1>4. f \in Seq(Seq(KidSet))
    BY <1>1, <1>2, MapType
  <1> QED
    BY <1>3, <1>4, FlattenType

LEMMA BlockStagesType ==
  ASSUME NEW s \in Asks, NEW t \in Hooks
  PROVE  /\ FilesStage(s, t) \in Hooks
         /\ FilesMatchStage(s, t) \in Hooks
         /\ IfStage(s, t) \in Hooks
  <1>0. s.dirs \in Seq(Directives)
    BY DirsType
  <1>1. FilesStage(s, t) \in Hooks
    <2> DEFINE f == [i \in DOMAIN s.dirs |->
                       IF s.dirs[i].type = "Files" /\ s.dirs[i].name = s.file
                         THEN <<s.dirs[i]>> ELSE <<>>]
    <2>1. f = [i \in DOMAIN s.dirs |-> f[i]] /\ \A i \in DOMAIN s.dirs : f[i] = <<s.dirs[i]>> \/ f[i] = <<>>
      OBVIOUS
    <2>2. FilesStage(s, t) = RunKids(s, t, KidsOf(FlattenSeq(f), "eval"))
      BY DEF FilesStage, Select
    <2> HIDE DEF f
    <2>3. FlattenSeq(f) \in Seq(Directives)
      BY <1>0, <2>1, SelectionType
    <2>4. KidsOf(FlattenSeq(f), "eval") \in Seq(KidSet)
      BY <2>3, KidsOfType DEF Hows
    <2> QED
      BY <2>2, <2>4, RunKidsType
  <1>2. FilesMatchStage(s, t) \in Hooks
    <2> DEFINE f == [i \in DOMAIN s.dirs |->
                       IF s.dirs[i].type = "FilesMatch" /\ s.file \in s.dirs[i].name
                         THEN <<s.dirs[i]>> ELSE <<>>]
    <2>1. f = [i \in DOMAIN s.dirs |-> f[i]] /\ \A i \in DOMAIN s.dirs : f[i] = <<s.dirs[i]>> \/ f[i] = <<>>
      OBVIOUS
    <2>2. FilesMatchStage(s, t) = RunKids(s, t, KidsOf(FlattenSeq(f), "match"))
      BY DEF FilesMatchStage, Select
    <2> HIDE DEF f
    <2>3. FlattenSeq(f) \in Seq(Directives)
      BY <1>0, <2>1, SelectionType
    <2>4. KidsOf(FlattenSeq(f), "match") \in Seq(KidSet)
      BY <2>3, KidsOfType DEF Hows
    <2> QED
      BY <2>2, <2>4, RunKidsType
  <1>3. IfStage(s, t) \in Hooks
    <2> DEFINE kids == Kids(s.dirs, "eval")
               f == [i \in DOMAIN kids |->
                       IF Directive(kids[i]).type = "If" THEN <<kids[i]>> ELSE <<>>]
    <2>1. f = [i \in DOMAIN kids |-> f[i]] /\ \A i \in DOMAIN kids : f[i] = <<kids[i]>> \/ f[i] = <<>>
      OBVIOUS
    <2>2. IfStage(s, t) = RunKids(s, t, FlattenSeq(f))
      BY DEF IfStage, Select
    <2>3. kids \in Seq(KidSet)
      BY <1>0, KidsType DEF Hows
    <2> HIDE DEF f, kids
    <2>4. FlattenSeq(f) \in Seq(KidSet)
      BY <2>1, <2>3, SelectionType
    <2> QED
      BY <2>2, <2>4, RunKidsType
  <1> QED
    BY <1>1, <1>2, <1>3

LEMMA TypeStageType ==
  ASSUME NEW s \in Asks, NEW t \in Hooks
  PROVE  TypeStage(s, t) \in Hooks
  <1> DEFINE known   == Run(s, t, Sole(s.dirs, "DefaultType"))
             removed == IF \E i \in DOMAIN s.dirs : s.dirs[i].type = "RemoveType" /\ MatchesExt(s, s.dirs[i])
                          THEN Unset(known, "Content-Type") ELSE known
             typed   == Run(s, removed, OfTypes(s.dirs, MimeTypes))
  <1>1. TypeStage(s, t) = Run(s, typed, Sole(s.dirs, "AddDefaultCharset"))
    BY DEF TypeStage
  <1>2. known \in Hooks
    BY DirsType, RunType
  <1> HIDE DEF known
  <1>3. Unset(known, "Content-Type") \in Hooks
    <2>1. <<>> \in Lines
      BY DEF Lines
    <2> QED
      BY <1>2, <2>1, ConstantFields, SetLineType
  <1>4. removed \in Hooks
    BY <1>2, <1>3
  <1> HIDE DEF removed
  <1>5. typed \in Hooks
    BY <1>4, DirsType, RunType
  <1> HIDE DEF typed
  <1> QED
    BY <1>1, <1>5, DirsType, RunType

LEMMA LoopStagesType ==
  ASSUME NEW s \in Asks, NEW t \in Hooks
  PROVE  HeaderStage(s, t) \in Hooks /\ ErrorStage(s, t) \in Hooks
  BY DirsType, RunType DEF HeaderStage, ErrorStage

LEMMA CacheStageType ==
  ASSUME NEW s \in Asks, NEW t \in Hooks
  PROVE  CacheStage(s, t) \in Hooks
  <1> DEFINE switch == OfTypes(s.dirs, {"CacheEnable", "CacheDisable"})
             esi == \E i \in DOMAIN switch :
                      switch[i].type = "CacheEnable" /\ "esi=on" \in Range(switch[i].value)
             Age(type) == LET all == OfTypes(s.dirs, {type}) IN IF all = <<>> THEN "0" ELSE Last(all).value
             age == IF Age("CacheMaxExpire") # "0" THEN Age("CacheMaxExpire")
                    ELSE IF Age("CacheDefaultExpire") # "0" THEN Age("CacheDefaultExpire")
                    ELSE "3600"
             off == Last(switch).type = "CacheDisable" \/ Head(Last(switch).value) = "off"
             line == IF off THEN <<"off">>
                     ELSE <<Head(Last(switch).value), age>> \o (IF esi THEN <<"esi=on">> ELSE <<>>)
  <1>1. CacheStage(s, t) = IF switch = <<>> THEN t ELSE AddLine(t, "X-LiteSpeed-Cache-Control", line)
    BY Zenon DEF CacheStage
  <1>2. ASSUME NEW type \in {"CacheMaxExpire", "CacheDefaultExpire"}, Age(type) # "0"
        PROVE  Age(type) \in Elements
    <2> DEFINE all == OfTypes(s.dirs, {type})
    <2>1. all \in Seq({d \in Directives : d.type \in {type}})
      BY DirsType, OfTypesType
    <2>2. all # <<>> /\ Age(type) = Last(all).value
      BY <1>2
    <2> HIDE DEF all, Age
    <2>3. Last(all) \in {d \in Directives : d.type \in {type}}
      BY <2>1, <2>2, EndsType
    <2> QED
      BY <2>2, <2>3, Parsed DEF WellTyped, ValuedTypes
  <1>3. age \in Elements
    <2> HIDE DEF Age
    <2> QED
      BY <1>2, ConstantElements, Zenon
  <1>4. switch \in Seq({d \in Directives : d.type \in {"CacheEnable", "CacheDisable"}})
    BY DirsType, OfTypesType
  <1> HIDE DEF age, switch, esi
  <1>5. ASSUME switch # <<>> PROVE line \in Lines
    <2>1. Last(switch) \in {d \in Directives : d.type \in {"CacheEnable", "CacheDisable"}}
      BY <1>4, <1>5, EndsType
    <2>2. CASE off
      <3>1. <<"off">> \in Lines
        BY ConstantElements, Singleton DEF Lines
      <3> QED
        BY <2>2, <3>1
    <2>3. CASE ~ off
      <3>1. Last(switch).type = "CacheEnable" /\ Last(switch) \in Directives
        BY <2>1, <2>3
      <3>2. Last(switch).value \in Seq(Elements) /\ Last(switch).value # <<>>
        BY <3>1, Parsed DEF WellTyped, Lines
      <3>3. Head(Last(switch).value) \in Elements
        BY <3>2, EndsType
      <3>4. <<Head(Last(switch).value), age>> \in Seq(Elements)
        BY <1>3, <3>3
      <3>5. (IF esi THEN <<"esi=on">> ELSE <<>>) \in Seq(Elements)
        <4>1. <<"esi=on">> \in Seq(Elements)
          BY ConstantElements, Singleton
        <4>2. <<>> \in Seq(Elements)
          OBVIOUS
        <4> QED
          BY <4>1, <4>2, Zenon
      <3>6. line = <<Head(Last(switch).value), age>> \o (IF esi THEN <<"esi=on">> ELSE <<>>)
        BY <2>3
      <3> HIDE DEF line
      <3> QED
        BY <3>4, <3>5, <3>6, ConcatProperties DEF Lines
    <2> QED
      BY <2>2, <2>3
  <1> HIDE DEF line
  <1> QED
    BY <1>1, <1>5, ConstantFields, SetLineType

LEMMA ExpiresStageType ==
  ASSUME NEW s \in Asks, NEW t \in Hooks
  PROVE  ExpiresStage(s, t) \in Hooks
  <1> DEFINE Rules == {d \in Directives : d.type \in {"ExpiresByType", "ExpiresDefault"}}
             active == OfTypes(s.dirs, {"ExpiresActive"})
             type == IF TypeShown(t) = NoLine THEN "application/octet-stream" ELSE Head(TypeShown(t))
             some == OfTypes(s.dirs, {"ExpiresByType"})
             others == OfTypes(s.dirs, {"ExpiresDefault"})
             f == [i \in DOMAIN some |->
                     IF some[i].value # "never" /\ some[i].name = type THEN <<some[i]>> ELSE <<>>]
             g == [i \in DOMAIN others |-> IF others[i].value # "never" THEN <<others[i]>> ELSE <<>>]
             rules == FlattenSeq(f) \o FlattenSeq(g)
  <1>1. ExpiresStage(s, t) =
          IF active = <<>> \/ ~ Last(active).value \/ rules = <<>> THEN t
          ELSE SetLine(SetLine(t, "Cache-Control", <<rules[1].value>>), "Expires", <<rules[1].value>>)
    BY DEF ExpiresStage, Select
  <1>2. some \in Seq(Rules)
    <2>1. some \in Seq({d \in Directives : d.type \in {"ExpiresByType"}})
      BY DirsType, OfTypesType
    <2>2. {d \in Directives : d.type \in {"ExpiresByType"}} \subseteq Rules
      OBVIOUS
    <2> HIDE DEF some, Rules
    <2> QED
      BY <2>1, <2>2
  <1>3. others \in Seq(Rules)
    <2>1. others \in Seq({d \in Directives : d.type \in {"ExpiresDefault"}})
      BY DirsType, OfTypesType
    <2>2. {d \in Directives : d.type \in {"ExpiresDefault"}} \subseteq Rules
      OBVIOUS
    <2> HIDE DEF others, Rules
    <2> QED
      BY <2>1, <2>2
  <1> HIDE DEF some, others, active
  <1>4. FlattenSeq(f) \in Seq(Rules)
    <2>1. f = [i \in DOMAIN some |-> f[i]] /\ \A i \in DOMAIN some : f[i] = <<some[i]>> \/ f[i] = <<>>
      OBVIOUS
    <2> HIDE DEF f, Rules
    <2> QED
      BY <1>2, <2>1, SelectionType
  <1>5. FlattenSeq(g) \in Seq(Rules)
    <2>1. g = [i \in DOMAIN others |-> g[i]] /\ \A i \in DOMAIN others : g[i] = <<others[i]>> \/ g[i] = <<>>
      OBVIOUS
    <2> HIDE DEF g, Rules
    <2> QED
      BY <1>3, <2>1, SelectionType
  <1>6. rules \in Seq(Rules)
    <2> HIDE DEF f, g, Rules
    <2> QED
      BY <1>4, <1>5, ConcatProperties
  <1> HIDE DEF rules
  <1>7. ASSUME rules # <<>>
        PROVE  SetLine(SetLine(t, "Cache-Control", <<rules[1].value>>), "Expires",
                       <<rules[1].value>>) \in Hooks
    <2>1. rules[1] \in Rules
      <3> HIDE DEF Rules
      <3> QED
        BY <1>6, <1>7, EndsType
    <2>2. rules[1].value \in Elements
      BY <2>1, Parsed DEF WellTyped, ValuedTypes
    <2> DEFINE e == rules[1].value
    <2> HIDE DEF e
    <2>3. <<e>> \in Lines
      BY <2>2, Singleton DEF Lines, e
    <2>4. SetLine(t, "Cache-Control", <<e>>) \in Hooks
      BY <2>3, ConstantFields, SetLineType
    <2>5. SetLine(SetLine(t, "Cache-Control", <<e>>), "Expires", <<e>>) \in Hooks
      BY <2>3, <2>4, ConstantFields, SetLineType
    <2> QED
      BY <2>5 DEF e
  <1> QED
    BY <1>1, <1>7, Zenon

\* The whole hook.
LEMMA RespondType ==
  ASSUME NEW s \in Asks, NEW table, TableOK(table)
  PROVE  Respond(s, table) \in Hooks
  <1> DEFINE t0 == Begin(s, table)
             t1 == HeaderStage(s, t0)
             t2 == FilesStage(s, t1)
             t3 == FilesMatchStage(s, t2)
             t4 == TypeStage(s, t3)
             t5 == IfStage(s, t4)
             t6 == CacheStage(s, t5)
             t7 == ExpiresStage(s, t6)
             t8 == ErrorStage(s, t7)
  <1>0. Respond(s, table) = IF s.dirs = <<>> THEN t0 ELSE t8
    BY DEF Respond
  <1>1. t0 \in Hooks
    <2>1. table \in Seq(Entries)
      BY DEF TableOK, Entries
    <2> QED
      BY <2>1 DEF Begin, Hooks, Asks
  <1> HIDE DEF t0
  <1>2. t1 \in Hooks
    BY <1>1, LoopStagesType
  <1> HIDE DEF t1
  <1>3. t2 \in Hooks
    BY <1>2, BlockStagesType
  <1> HIDE DEF t2
  <1>4. t3 \in Hooks
    BY <1>3, BlockStagesType
  <1> HIDE DEF t3
  <1>5. t4 \in Hooks
    BY <1>4, TypeStageType
  <1> HIDE DEF t4
  <1>6. t5 \in Hooks
    BY <1>5, BlockStagesType
  <1> HIDE DEF t5
  <1>7. t6 \in Hooks
    BY <1>6, CacheStageType
  <1> HIDE DEF t6
  <1>8. t7 \in Hooks
    BY <1>7, ExpiresStageType
  <1> HIDE DEF t7
  <1>9. t8 \in Hooks
    BY <1>8, LoopStagesType
  <1> HIDE DEF t8
  <1> QED
    BY <1>0, <1>1, <1>9

----------------------------------------------------------------------------
(***************************************************************************)
(* The steps.                                                              *)
(***************************************************************************)
\* What other hooks have put into the table since on_uri_map has emptied it.
FoundWasMixed ==
  \A s \in Sessions : head[s].phase = "mapped" => NamesIn(shadow) \subseteq mixed[s]

HeadTyped ==
  /\ TableOK(shadow)
  /\ head \in [Sessions -> ResponseHeads]
  /\ mixed \in [Sessions -> SUBSET Fields]

HeadInv == HeadTyped /\ FoundWasMixed

LEMMA EmptyTable == TableOK(<<>>) /\ NamesIn(<<>>) = {}
  <1>1. <<>> \in Seq([name : Fields, value : Lines]) /\ Len(<<>>) = 0 /\ DOMAIN <<>> = {}
    OBVIOUS
  <1> QED
    BY <1>1, Sizes DEF TableOK, NamesIn

LEMMA NamesAreFields ==
  ASSUME NEW table, TableOK(table)
  PROVE  NamesIn(table) \subseteq Fields
  <1>1. table \in Seq(Entries)
    BY DEF TableOK, Entries
  <1>2. \A i \in DOMAIN table : table[i] \in Entries
    BY <1>1, LenProperties, ElementOfSeq
  <1> QED
    BY <1>2 DEF NamesIn, Entries

LEMMA NoHeadType == NoHead \in ResponseHeads /\ NoHead.phase = "none"
  BY DEF NoHead, ResponseHeads

LEMMA HeadInit == ResponseInit => HeadInv
  <1> SUFFICES ASSUME ResponseInit PROVE HeadInv
    OBVIOUS
  <1>1. HeadTyped
    BY EmptyTable, NoHeadType DEF ResponseInit, HeadTyped
  <1>2. FoundWasMixed
    BY EmptyTable DEF ResponseInit, FoundWasMixed
  <1> QED
    BY <1>1, <1>2 DEF HeadInv

\* on_uri_map empties the table.
LEMMA MapHeads ==
  ASSUME HeadInv, NEW s \in Sessions, NEW page, NEW on, NEW marker, NEW ask \in Asks,
         Map(s, page, on, marker, ask)
  PROVE  HeadInv'
  <1>1. shadow' = <<>>
    BY DEF Map, Emptied
  <1>2. [phase |-> "mapped", ask |-> ask] \in ResponseHeads
    BY DEF ResponseHeads
  <1>3. head' \in [Sessions -> ResponseHeads]
    BY <1>2, NoHeadType DEF Map, HeadInv, HeadTyped
  <1>4. mixed' \in [Sessions -> SUBSET Fields]
    BY DEF Map, HeadInv, HeadTyped
  <1>5. TableOK(shadow')
    BY <1>1, EmptyTable
  <1>6. HeadTyped'
    BY <1>3, <1>4, <1>5 DEF HeadTyped
  <1>7. NamesIn(shadow') = {}
    BY <1>1, EmptyTable
  <1>8. FoundWasMixed'
    BY <1>7 DEF FoundWasMixed
  <1> QED
    BY <1>6, <1>8 DEF HeadInv

\* The header hook fills it, with names that all others then find there.
LEMMA SendHeadHeads ==
  ASSUME HeadInv, NEW s \in Sessions, SendHead(s)
  PROVE  HeadInv'
  <1> DEFINE ask == head[s].ask
             t == Respond(ask, shadow)
             sent == [phase |-> "sent", ask |-> ask, lines |-> t.lines,
                      status |-> t.status, page |-> t.page, hint |-> t.hint]
  <1>1. head[s] \in ResponseHeads /\ head[s].phase = "mapped"
    BY DEF HeadInv, HeadTyped, SendHead
  <1>2. ask \in Asks
    BY <1>1, NoHeadType DEF ResponseHeads
  <1>3. TableOK(shadow)
    BY DEF HeadInv, HeadTyped
  <1>4. /\ shadow' = t.table
        /\ head' = [head EXCEPT ![s] = sent]
        /\ mixed' = [u \in Sessions |-> IF u = s THEN mixed[u] ELSE mixed[u] \cup NamesIn(t.table)]
    BY DEF SendHead
  <1> HIDE DEF ask
  <1>5. t \in Hooks
    BY <1>2, <1>3, RespondType
  <1> HIDE DEF t
  <1>6. sent \in ResponseHeads /\ sent.phase = "sent"
    <2>1. t.lines \in [Fields -> Seq(Lines)] /\ t.status \in Nat /\ t.page \in {"server", "text"}
          /\ t.hint \in {"none", "path"}
      BY <1>5 DEF Hooks
    <2>2. sent \in [phase : {"sent"}, ask : Asks, lines : [Fields -> Seq(Lines)], status : Nat,
                    page : {"server", "text"}, hint : {"none", "path"}]
      BY <1>2, <2>1
    <2> QED
      BY <2>2 DEF ResponseHeads
  <1>7. TableOK(t.table)
    BY <1>5 DEF Hooks
  <1>8. NamesIn(t.table) \subseteq Fields
    BY <1>7, NamesAreFields
  <1> HIDE DEF sent
  <1>9. HeadTyped'
    <2>1. TableOK(shadow')
      BY <1>4, <1>7
    <2>2. head' \in [Sessions -> ResponseHeads]
      BY <1>4, <1>6 DEF HeadInv, HeadTyped
    <2>3. mixed' \in [Sessions -> SUBSET Fields]
      BY <1>4, <1>8 DEF HeadInv, HeadTyped
    <2> QED
      BY <2>1, <2>2, <2>3 DEF HeadTyped
  <1>10. ASSUME NEW u \in Sessions, head'[u].phase = "mapped"
         PROVE  NamesIn(shadow') \subseteq mixed'[u]
    <2>1. u # s
      BY <1>4, <1>6, <1>10 DEF HeadInv, HeadTyped
    <2> QED
      BY <1>4, <2>1
  <1>11. FoundWasMixed'
    BY <1>10 DEF FoundWasMixed
  <1> QED
    BY <1>9, <1>11 DEF HeadInv

\* Any other hook leaves the table alone.
LEMMA FinishHeads ==
  ASSUME HeadInv, NEW s \in Sessions, NEW room, Finish(s, room)
  PROVE  HeadInv'
  <1>1. /\ shadow' = shadow
        /\ head' = [head EXCEPT ![s] = NoHead]
        /\ mixed' = [mixed EXCEPT ![s] = {}]
    BY DEF Finish
  <1>2. HeadTyped'
    BY <1>1, NoHeadType DEF HeadInv, HeadTyped
  <1>3. ASSUME NEW u \in Sessions, head'[u].phase = "mapped"
        PROVE  NamesIn(shadow') \subseteq mixed'[u]
    <2>1. u # s
      BY <1>1, <1>3, NoHeadType DEF HeadInv, HeadTyped
    <2>2. head'[u] = head[u] /\ mixed'[u] = mixed[u]
      BY <1>1, <2>1 DEF HeadInv, HeadTyped
    <2> QED
      BY <1>1, <1>3, <2>2 DEF HeadInv, FoundWasMixed
  <1>4. FoundWasMixed'
    BY <1>3 DEF FoundWasMixed
  <1> QED
    BY <1>2, <1>4 DEF HeadInv

LEMMA HeadUnchanged ==
  ASSUME HeadInv, UNCHANGED <<shadow, head, mixed>>
  PROVE  HeadInv'
  BY DEF HeadInv, HeadTyped, FoundWasMixed

LEMMA HeadNext == HeadInv /\ [ResponseNext]_rvars => HeadInv'
  <1> SUFFICES ASSUME HeadInv, [ResponseNext]_rvars PROVE HeadInv'
    OBVIOUS
  <1>1. ASSUME NEW s \in Sessions, NEW on \in BOOLEAN, NEW marker \in BOOLEAN, NEW ask \in Asks,
               NEW page, Map(s, page, on, marker, ask)
        PROVE  HeadInv'
    BY <1>1, MapHeads
  <1>2. ASSUME NEW s \in Sessions, SendHead(s) PROVE HeadInv'
    BY <1>2, SendHeadHeads
  <1>3. ASSUME NEW s \in Sessions, SendBare(s) PROVE HeadInv'
    BY <1>3, HeadUnchanged DEF SendBare
  <1>4. ASSUME NEW s \in Sessions, NEW n, NEW room, Body(s, n, room) PROVE HeadInv'
    BY <1>4, HeadUnchanged DEF Body
  <1>5. ASSUME NEW s \in Sessions, NEW room, Finish(s, room) PROVE HeadInv'
    BY <1>5, FinishHeads
  <1>6. CASE UNCHANGED rvars
    BY <1>6, HeadUnchanged DEF rvars
  <1> QED
    BY <1>1, <1>2, <1>3, <1>4, <1>5, <1>6 DEF ResponseNext

LEMMA AlwaysHead == ResponseSpec => []HeadInv
  <1>1. ResponseInit => HeadInv
    BY HeadInit
  <1>2. HeadInv /\ [ResponseNext]_rvars => HeadInv'
    BY HeadNext
  <1> QED
    BY <1>1, <1>2, PTL DEF ResponseSpec

----------------------------------------------------------------------------
(***************************************************************************)
(* The steps of Response are steps of EsiStream, or leave it as it is.     *)
(***************************************************************************)
LEMMA StreamStep == [ResponseNext]_rvars => [Next]_vars
  <1> SUFFICES ASSUME [ResponseNext]_rvars PROVE [Next]_vars
    OBVIOUS
  <1>1. ASSUME NEW s \in Sessions, NEW on \in BOOLEAN, NEW marker \in BOOLEAN, NEW ask \in Asks,
               seq < MaxRequests, marker => on, NEW page \in Pages[seq + 1],
               Map(s, page, on, marker, ask)
        PROVE  Next
    BY <1>1 DEF Map, Next
  <1>2. ASSUME NEW s \in Sessions, SendHead(s) PROVE [Next]_vars
    <2>1. SendRespHeader(s) \/ UNCHANGED vars
      BY <1>2 DEF SendHead
    <2> QED
      BY <2>1 DEF Next
  <1>3. ASSUME NEW s \in Sessions, SendBare(s) PROVE Next
    BY <1>3 DEF SendBare, Next
  <1>4. ASSUME NEW s \in Sessions, NEW room \in Rooms, Live(s), NEW n \in 0 .. PageLength(s),
               Body(s, n, room)
        PROVE  Next
    BY <1>4 DEF Body, Next
  <1>5. ASSUME NEW s \in Sessions, NEW room \in Rooms, Finish(s, room) PROVE Next
    BY <1>5 DEF Finish, Next
  <1>6. CASE UNCHANGED rvars
    BY <1>6 DEF rvars
  <1> QED
    BY <1>1, <1>2, <1>3, <1>4, <1>5, <1>6 DEF ResponseNext

(***************************************************************************)
(* Whatever the header hook does, the body hooks behave as EsiStream says: *)
(* it implements that specification.                                       *)
(***************************************************************************)
THEOREM StreamWithHeaders == ResponseSpec => Spec
  <1>1. ResponseInit => Init
    BY DEF ResponseInit
  <1>2. [ResponseNext]_rvars => [Next]_vars
    BY StreamStep
  <1> QED
    BY <1>1, <1>2, PTL DEF ResponseSpec, Spec

(***************************************************************************)
(* The table that the header hooks of all sessions share is well formed    *)
(* after any of them: no name twice, no more names than slots, no value    *)
(* longer than its buffer; and what the client is sent has its types.      *)
(***************************************************************************)
THEOREM ResponseTypeCorrect == ResponseSpec => []ResponseTypeOK
  <1>1. HeadInv /\ TypeOK => ResponseTypeOK
    BY DEF HeadInv, HeadTyped, ResponseTypeOK
  <1> QED
    BY <1>1, AlwaysHead, StreamWithHeaders, TypeCorrect, PTL

(***************************************************************************)
(* exec_header_reset_shadow at on_uri_map: what a request's header hook    *)
(* finds in the table are names that the hooks of other sessions have put  *)
(* there since.  A request with no hook in between finds it empty.         *)
(***************************************************************************)
THEOREM TableOnlyFromOthers == ResponseSpec => []FoundWasMixed
  BY AlwaysHead, PTL DEF HeadInv

(***************************************************************************)
(* The properties of the body hooks, with the header hook between them.    *)
(***************************************************************************)
THEOREM ResponseStreams ==
  ResponseSpec => []NoCrossTalk /\ []DeliveredOnce /\ NothingAfterEnd
  BY StreamWithHeaders, OwnBytesOnly, SentOnceInOrder, EndedIsOver, PTL

THEOREM ResponsePages ==
  ASSUME WellFormed
  PROVE  ResponseSpec => []WholePage
  BY StreamWithHeaders, WholePageSent, PTL
=============================================================================
