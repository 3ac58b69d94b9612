------------------------------ MODULE EsiProofs ------------------------------
(***************************************************************************)
(* Proofs about EsiStream, for any sessions, pages, chunks and networks,   *)
(* and any limits of the filter.                                           *)
(*                                                                         *)
(* Scan and Join are recursive functions over a sequence.  What they yield *)
(* is shown from their values: that such functions exist (ScanExists,      *)
(* JoinExists), and that a property of one value passes to the next one    *)
(* (there is no first index at which it fails: FirstFailure).              *)
(*                                                                         *)
(* First what holds of any page: what is sent, of whom and in which order. *)
(* Then, from `Reading` on, what holds of pages with well formed tags:     *)
(* nothing of them is lost.                                                *)
(***************************************************************************)
EXTENDS EsiStream, SequenceTheorems, WellFoundedInduction, TLAPS

USE EsiAssumption

(***************************************************************************)
(* Induction, for sets: a set of indexes that is not empty has a first     *)
(* element.                                                                *)
(***************************************************************************)
LEMMA FirstFailure ==
  ASSUME NEW S \in SUBSET Nat, S # {}
  PROVE  \E i \in S : \A j \in Nat : j < i => j \notin S
  <1>1. PICK i \in S : \A j \in S : ~ (<<j, i>> \in OpToRel(<, Nat))
    BY NatLessThanWellFounded, WFMin
  <1>2. \A j \in S : ~ (j < i)
    BY <1>1 DEF OpToRel
  <1> QED
    BY <1>2

(***************************************************************************)
(* The atoms of one response.                                              *)
(***************************************************************************)
EveryKind == Kinds \cup {"dyn", "gone", "fragment"}

ItemsOf(q) == [req : {q}, pos : Nat, kind : EveryKind]

CtxOf(q) ==
  [mode : {"pass", "strip", "vars"}, hold : Seq(ItemsOf(q)),
   parked : Seq(ItemsOf(q)), holding : BOOLEAN, held : Seq(ItemsOf(q)),
   subrequest : BOOLEAN]

(***************************************************************************)
(* The states of the scan of a chunk of response q with context ctx.  What *)
(* is held from earlier chunks is not touched, holding is not given up,    *)
(* and a partial tag is kept outside the removed regions and the like, and *)
(* begins with the head of a tag.                                          *)
(***************************************************************************)
Scanning(q, ctx) ==
  [mode : {"pass", "strip", "vars"}, hold : Seq(ItemsOf(q)),
   parked : {ctx.parked}, holding : {b \in BOOLEAN : ctx.holding => b},
   held : {ctx.held}, subrequest : BOOLEAN, out : Seq(ItemsOf(q)),
   last : EveryKind \cup {"long"}]

TagHeld(s) == s.hold # <<>> => s.mode = "pass" /\ Head(s.hold).kind \in Heads

(***************************************************************************)
(* What one atom does to the output and to the partial tag.                *)
(***************************************************************************)
Absorbed(q, s, a, t) ==
  \/ t.out = s.out /\ t.hold \in {s.hold, <<>>, Append(s.hold, a)}
  \/ t.out = Append(s.out, a) /\ s.hold = <<>> /\ t.hold = <<>>
  \/ /\ s.hold # <<>> /\ t.hold = <<>>
     /\ \E b \in ItemsOf(q) : b.pos = Head(s.hold).pos /\ t.out = Append(s.out, b)
  \/ t.out = Front(s.out) /\ s.hold = <<>> /\ t.hold = <<>>


\* One atom leads from one state of the scan to another.
LEMMA AbsorbType ==
  ASSUME NEW q, NEW ctx, NEW s \in Scanning(q, ctx), TagHeld(s),
         NEW a \in ItemsOf(q)
  PROVE  /\ Absorb(s, a) \in Scanning(q, ctx)
         /\ TagHeld(Absorb(s, a))
         /\ Absorbed(q, s, a, Absorb(s, a))
  <1> DEFINE Good(t) == t \in Scanning(q, ctx) /\ TagHeld(t)
  <1>1. /\ s.mode \in {"pass", "strip", "vars"}
        /\ s.hold \in Seq(ItemsOf(q)) /\ s.out \in Seq(ItemsOf(q))
        /\ a.kind \in EveryKind
    BY DEF Scanning, ItemsOf
  <1>2. \A m \in {"pass", "strip", "vars"} :
          Good(Enter(s, m)) /\ Enter(s, m).hold = <<>> /\ Enter(s, m).out = s.out
    <2>1. <<>> \in Seq(ItemsOf(q))
      BY EmptySeq
    <2> TAKE m \in {"pass", "strip", "vars"}
    <2>2. /\ Enter(s, m) \in Scanning(q, ctx) /\ Enter(s, m).hold = <<>>
          /\ Enter(s, m).out = s.out
      BY <2>1 DEF Enter, Scanning
    <2> QED
      BY <2>2 DEF TagHeld
  <1>3. \A t \in Scanning(q, ctx), b \in ItemsOf(q) :
          TagHeld(t) =>
            /\ Good(Emit(t, b)) /\ Emit(t, b).hold = t.hold
            /\ Emit(t, b).out = Append(t.out, b)
    <2> TAKE t \in Scanning(q, ctx), b \in ItemsOf(q)
    <2>1. Append(t.out, b) \in Seq(ItemsOf(q))
      BY AppendProperties DEF Scanning
    <2>2. /\ Emit(t, b) \in Scanning(q, ctx) /\ Emit(t, b).hold = t.hold
          /\ Emit(t, b).mode = t.mode /\ Emit(t, b).out = Append(t.out, b)
      BY <2>1 DEF Emit, Scanning
    <2> QED
      BY <2>2 DEF TagHeld
  <1>4. ASSUME s.mode = "pass"
        PROVE  Good(Passing(s, a)) /\ Absorbed(q, s, a, Passing(s, a))
    <2>1. CASE s.hold = <<>> /\ a.kind \notin Heads
      BY <1>3, <2>1 DEF Passing, Absorbed
    <2>2. CASE s.hold = <<>> /\ a.kind \in Heads
      <3>1. Passing(s, a) = [s EXCEPT !.hold = <<a>>]
        BY <2>2 DEF Passing
      <3>2. /\ <<a>> \in Seq(ItemsOf(q)) /\ Head(<<a>>) = a
            /\ <<a>> = Append(<<>>, a)
        BY SMT
      <3>3. /\ Passing(s, a) \in Scanning(q, ctx)
            /\ Passing(s, a).hold = <<a>> /\ Passing(s, a).mode = s.mode
            /\ Passing(s, a).out = s.out
        BY <3>1, <3>2 DEF Scanning
      <3> QED
        BY <1>4, <2>2, <3>2, <3>3 DEF TagHeld, Absorbed
    <2>3. CASE s.hold # <<>> /\ a.kind \notin Tails
      <3>1. Passing(s, a) = [s EXCEPT !.hold = Append(s.hold, a)]
        BY <2>3 DEF Passing
      <3>2. Append(s.hold, a) \in Seq(ItemsOf(q))
        BY <1>1
      <3>3. Head(Append(s.hold, a)) = Head(s.hold)
        BY <1>1, <2>3
      <3>4. /\ Passing(s, a) \in Scanning(q, ctx)
            /\ Passing(s, a).hold = Append(s.hold, a)
            /\ Passing(s, a).mode = s.mode /\ Passing(s, a).out = s.out
        BY <3>1, <3>2 DEF Scanning
      <3> QED
        BY <1>4, <2>3, <3>3, <3>4 DEF TagHeld, Absorbed
    <2>4. CASE s.hold # <<>> /\ a.kind \in Tails
      <3>1. Passing(s, a) = CloseTag(s)
        BY <2>4 DEF Passing
      <3>2. Head(s.hold) \in ItemsOf(q) /\ Head(s.hold).kind \in Heads
        BY <1>1, <2>4 DEF TagHeld
      <3> DEFINE b == Placeholder(Head(s.hold))
      <3>3. b \in ItemsOf(q) /\ b.pos = Head(s.hold).pos
        BY <3>2 DEF Placeholder, ItemsOf, EveryKind
      <3>4. Good(Include(s)) /\ Absorbed(q, s, a, Include(s))
        <4>1. CASE s.subrequest
          BY <1>2, <4>1 DEF Include, Absorbed
        <4>2. CASE ~ s.subrequest
          <5> DEFINE t == Emit(Enter(s, "pass"), b)
          <5>1. Good(t) /\ t.hold = <<>> /\ t.out = Append(s.out, b)
            BY <1>2, <1>3, <3>3
          <5>2. Include(s) = [t EXCEPT !.holding = TRUE]
            BY <4>2 DEF Include
          <5> HIDE DEF t, b
          <5>3. /\ Include(s) \in Scanning(q, ctx) /\ Include(s).hold = <<>>
                /\ Include(s).out = Append(s.out, b)
            BY <5>1, <5>2 DEF Scanning
          <5> QED
            BY <2>4, <3>3, <5>3 DEF TagHeld, Absorbed
        <4> QED
          BY <4>1, <4>2
      <3>5. \A m \in {"pass", "strip", "vars"} : Absorbed(q, s, a, Enter(s, m))
        BY <1>2 DEF Absorbed
      <3> QED
        BY <1>2, <3>1, <3>2, <3>4, <3>5 DEF CloseTag, Heads
    <2> QED
      BY <2>1, <2>2, <2>3, <2>4
  <1>5. Good(Stripping(s, a)) /\ Absorbed(q, s, a, Stripping(s, a))
    BY <1>2 DEF Stripping, Absorbed
  <1>6. ASSUME s.mode = "vars"
        PROVE  Good(Substituting(s, a)) /\ Absorbed(q, s, a, Substituting(s, a))
    <2>1. CASE s.last = "endvars<" /\ a.kind = "endvars>"
      <3> DEFINE t == Enter(s, "pass")
      <3>1. /\ Good(t) /\ t.out = s.out /\ t.hold = <<>>
            /\ Substituting(s, a) = [t EXCEPT !.out = Front(t.out)]
        BY <1>2, <2>1 DEF Substituting
      <3>2. Front(t.out) \in Seq(ItemsOf(q))
        <4>1. t.out \in Seq(ItemsOf(q))
          BY <3>1 DEF Scanning
        <4> QED
          BY <4>1, SubSeqProperties, LenProperties DEF Front
      <3> HIDE DEF t
      <3>3. /\ Substituting(s, a) \in Scanning(q, ctx)
            /\ Substituting(s, a).hold = <<>>
            /\ Substituting(s, a).out = Front(s.out)
        BY <3>1, <3>2 DEF Scanning
      <3> QED
        BY <1>6, <3>3 DEF TagHeld, Absorbed
    <2>2. CASE ~ (s.last = "endvars<" /\ a.kind = "endvars>")
      <3>1. Substituting(s, a) = Emit(s, a) /\ s.hold = <<>>
        BY <1>6, <2>2 DEF Substituting, TagHeld
      <3> QED
        BY <1>3, <3>1 DEF Absorbed
    <2> QED
      BY <2>1, <2>2
  <1> DEFINE next == CASE s.mode = "pass"  -> Passing(s, a)
                       [] s.mode = "strip" -> Stripping(s, a)
                       [] s.mode = "vars"  -> Substituting(s, a)
  <1>7. Good(next) /\ Absorbed(q, s, a, next)
    BY <1>1, <1>4, <1>5, <1>6
  <1>8. Absorb(s, a) = [next EXCEPT !.last = a.kind]
    BY DEF Absorb
  <1> QED
    <2> HIDE DEF next
    <2>1. /\ Absorb(s, a) \in Scanning(q, ctx) /\ Absorb(s, a).hold = next.hold
          /\ Absorb(s, a).mode = next.mode /\ Absorb(s, a).out = next.out
      BY <1>1, <1>7, <1>8 DEF Scanning
    <2> QED
      BY <1>7, <2>1 DEF TagHeld, Absorbed

(***************************************************************************)
(* The states of a scan, as a function of the number of atoms absorbed.    *)
(***************************************************************************)
ScanStart(ctx) ==
  [mode |-> ctx.mode, hold |-> <<>>, parked |-> ctx.parked,
   holding |-> ctx.holding, held |-> ctx.held,
   subrequest |-> ctx.subrequest, out |-> <<>>, last |-> "text"]

ScanUpTo(ctx, data, n, f) ==
  f = [i \in 0 .. n |-> IF i = 0 THEN ScanStart(ctx) ELSE Absorb(f[i - 1], data[i])]

\* There is such a function.
LEMMA ScanExists ==
  ASSUME NEW ctx, NEW data, NEW n \in Nat
  PROVE  \E f : ScanUpTo(ctx, data, n, f)
  <1> DEFINE S == {m \in Nat : ~ \E f : ScanUpTo(ctx, data, m, f)}
  <1>1. ASSUME S # {} PROVE FALSE
    <2>1. PICK m \in S : \A k \in Nat : k < m => k \notin S
      BY <1>1, FirstFailure
    <2>2. CASE m = 0
      <3> DEFINE f == [i \in 0 .. 0 |-> ScanStart(ctx)]
      <3>1. ScanUpTo(ctx, data, 0, f)
        BY DEF ScanUpTo
      <3> QED
        BY <2>1, <2>2, <3>1
    <2>3. CASE m > 0
      <3>1. m - 1 \in Nat /\ m - 1 < m
        BY <2>3
      <3>2. PICK f : ScanUpTo(ctx, data, m - 1, f)
        BY <2>1, <3>1
      <3> DEFINE g == [i \in 0 .. m |-> IF i < m THEN f[i] ELSE Absorb(f[m - 1], data[m])]
      <3>3. \A i \in 0 .. m - 1 :
              f[i] = IF i = 0 THEN ScanStart(ctx) ELSE Absorb(f[i - 1], data[i])
        BY <3>2 DEF ScanUpTo
      <3>4. \A i \in 0 .. m :
              g[i] = IF i = 0 THEN ScanStart(ctx) ELSE Absorb(g[i - 1], data[i])
        BY <2>3, <3>1, <3>3
      <3>5. ScanUpTo(ctx, data, m, g)
        <4>1. g = [i \in 0 .. m |-> g[i]]
          OBVIOUS
        <4> HIDE DEF g
        <4> QED
          BY <3>4, <4>1 DEF ScanUpTo
      <3> QED
        BY <2>1, <3>5
    <2> QED
      BY <2>1, <2>2, <2>3
  <1> QED
    BY <1>1

\* What holds of the start, and passes from each state to the next one, holds
\* at the end: the sets are those of the states that are good at each index.
LEMMA ScanInduction ==
  ASSUME NEW ctx, NEW data, Len(data) \in Nat, NEW Good,
         ScanStart(ctx) \in Good[0],
         \A i \in 1 .. Len(data) : \A s \in Good[i - 1] : Absorb(s, data[i]) \in Good[i]
  PROVE  \E s \in Good[Len(data)] : Scan(ctx, data) = FailOpen(s)
  <1>1. \E f : ScanUpTo(ctx, data, Len(data), f)
    BY ScanExists
  <1>2. \E f : Scan(ctx, data) = FailOpen(f[Len(data)]) /\ ScanUpTo(ctx, data, Len(data), f)
    BY <1>1 DEF Scan, ScanUpTo, ScanStart
  <1>3. PICK f : Scan(ctx, data) = FailOpen(f[Len(data)]) /\ ScanUpTo(ctx, data, Len(data), f)
    BY <1>2
  <1>4. \A i \in 0 .. Len(data) :
          f[i] = IF i = 0 THEN ScanStart(ctx) ELSE Absorb(f[i - 1], data[i])
    BY <1>3 DEF ScanUpTo
  <1> DEFINE S == {i \in 0 .. Len(data) : f[i] \notin Good[i]}
  <1>5. ASSUME S # {} PROVE FALSE
    <2> S \in SUBSET Nat
      OBVIOUS
    <2>1. PICK i \in S : \A k \in Nat : k < i => k \notin S
      <3> HIDE DEF S
      <3> QED
        BY <1>5, FirstFailure
    <2>2. i # 0
      BY <1>4
    <2>3. i - 1 \in 0 .. Len(data) /\ i \in 1 .. Len(data) /\ f[i - 1] \in Good[i - 1]
      BY <2>1, <2>2
    <2>4. f[i] = Absorb(f[i - 1], data[i])
      BY <1>4, <2>2, <2>3
    <2> QED
      BY <2>1, <2>3, <2>4
  <1>6. f[Len(data)] \in Good[Len(data)]
    BY <1>5
  <1> QED
    BY <1>3, <1>6

----------------------------------------------------------------------------
(***************************************************************************)
(* The order of atoms: that of the page, or only that none comes twice.    *)
(***************************************************************************)
Ways == {"order", "once"}

Pos(s) == {s[i].pos : i \in DOMAIN s}

Link(way, X, Y) == \A x \in X, y \in Y : x # y /\ (way = "order" => x < y)

Chain(way, s) ==
  \A i, j \in DOMAIN s : i < j => s[i].pos # s[j].pos /\ (way = "order" => s[i].pos < s[j].pos)

\* The two ways.
LEMMA TwoWays == "order" \in Ways /\ "once" \in Ways
  BY DEF Ways

\* The elements of two parts put together.
LEMMA ConcatParts ==
  ASSUME NEW S, NEW s \in Seq(S), NEW t \in Seq(S)
  PROVE  /\ s \o t \in Seq(S) /\ Len(s \o t) = Len(s) + Len(t)
         /\ Len(s) \in Nat /\ Len(t) \in Nat
         /\ DOMAIN s = 1 .. Len(s) /\ DOMAIN t = 1 .. Len(t)
         /\ DOMAIN (s \o t) = 1 .. Len(s) + Len(t)
         /\ \A i \in 1 .. Len(s) : (s \o t)[i] = s[i]
         /\ \A i \in 1 .. Len(t) : (s \o t)[Len(s) + i] = t[i]
  BY ConcatProperties, LenProperties

\* The first elements of a sequence.
LEMMA FirstPart ==
  ASSUME NEW S, NEW s \in Seq(S), NEW n \in 0 .. Len(s)
  PROVE  /\ SubSeq(s, 1, n) \in Seq(S) /\ Len(SubSeq(s, 1, n)) = n
         /\ \A i \in 1 .. n : SubSeq(s, 1, n)[i] = s[i]
  <1> 1 \in Int /\ n \in Int
    OBVIOUS
  <1>1. Len(s) \in Nat /\ \A i \in 1 .. n : s[i] \in S
    BY LenProperties, ElementOfSeq
  <1>2. SubSeq(s, 1, n) \in Seq(S)
    BY <1>1, SubSeqProperties
  <1>3. Len(SubSeq(s, 1, n)) = n
    BY <1>1
  <1>4. \A i \in 1 .. n : SubSeq(s, 1, n)[i] = s[i]
    BY <1>1
  <1> QED
    BY <1>2, <1>3, <1>4

\* The positions of two parts.
LEMMA PosConcat ==
  ASSUME NEW S, NEW s \in Seq(S), NEW t \in Seq(S)
  PROVE  Pos(s \o t) = Pos(s) \cup Pos(t)
  <1>1. /\ s \o t \in Seq(S) /\ Len(s \o t) = Len(s) + Len(t)
        /\ Len(s) \in Nat /\ Len(t) \in Nat
        /\ DOMAIN s = 1 .. Len(s) /\ DOMAIN t = 1 .. Len(t)
        /\ DOMAIN (s \o t) = 1 .. Len(s) + Len(t)
        /\ \A i \in 1 .. Len(s) : (s \o t)[i] = s[i]
        /\ \A i \in 1 .. Len(t) : (s \o t)[Len(s) + i] = t[i]
    BY ConcatParts
  <1>2. ASSUME NEW x \in Pos(s \o t) PROVE x \in Pos(s) \cup Pos(t)
    <2>1. PICK i \in 1 .. Len(s) + Len(t) : x = (s \o t)[i].pos
      BY <1>1 DEF Pos
    <2>2. CASE i <= Len(s)
      BY <1>1, <2>1, <2>2 DEF Pos
    <2>3. CASE i > Len(s)
      <3>1. i - Len(s) \in 1 .. Len(t) /\ i = Len(s) + (i - Len(s))
        BY <1>1, <2>3
      <3> QED
        BY <1>1, <2>1, <3>1 DEF Pos
    <2> QED
      BY <1>1, <2>2, <2>3
  <1>3. ASSUME NEW i \in 1 .. Len(s) PROVE s[i].pos \in Pos(s \o t)
    <2>1. i \in DOMAIN (s \o t)
      BY <1>1
    <2> QED
      BY <1>1, <2>1 DEF Pos
  <1>4. ASSUME NEW i \in 1 .. Len(t) PROVE t[i].pos \in Pos(s \o t)
    <2>1. Len(s) + i \in DOMAIN (s \o t)
      BY <1>1
    <2> QED
      BY <1>1, <2>1 DEF Pos
  <1>5. \A x \in Pos(s) \cup Pos(t) : x \in Pos(s \o t)
    BY <1>1, <1>3, <1>4 DEF Pos
  <1> QED
    BY <1>2, <1>5

\* Two parts are in order if each is, and the one comes before the other.
LEMMA ChainConcat ==
  ASSUME NEW S, NEW s \in Seq(S), NEW t \in Seq(S), NEW way \in Ways
  PROVE  Chain(way, s \o t) <=>
           Chain(way, s) /\ Chain(way, t) /\ Link(way, Pos(s), Pos(t))
  <1>1. /\ s \o t \in Seq(S) /\ Len(s \o t) = Len(s) + Len(t)
        /\ Len(s) \in Nat /\ Len(t) \in Nat
        /\ DOMAIN s = 1 .. Len(s) /\ DOMAIN t = 1 .. Len(t)
        /\ DOMAIN (s \o t) = 1 .. Len(s) + Len(t)
        /\ \A i \in 1 .. Len(s) : (s \o t)[i] = s[i]
        /\ \A i \in 1 .. Len(t) : (s \o t)[Len(s) + i] = t[i]
    BY ConcatParts
  <1> DEFINE B(x, y) == x.pos # y.pos /\ (way = "order" => x.pos < y.pos)
  <1>2. ASSUME Chain(way, s \o t)
        PROVE  Chain(way, s) /\ Chain(way, t) /\ Link(way, Pos(s), Pos(t))
    <2>1. \A i, j \in 1 .. Len(s) + Len(t) : i < j => B((s \o t)[i], (s \o t)[j])
      BY <1>1, <1>2 DEF Chain
    <2> HIDE DEF B
    <2>2. \A i, j \in 1 .. Len(s) : i < j => B(s[i], s[j])
      <3> TAKE i, j \in 1 .. Len(s)
      <3> HAVE i < j
      <3> i \in 1 .. Len(s) + Len(t) /\ j \in 1 .. Len(s) + Len(t)
        BY <1>1
      <3> QED
        BY <1>1, <2>1
    <2>3. \A i, j \in 1 .. Len(t) : i < j => B(t[i], t[j])
      <3> TAKE i, j \in 1 .. Len(t)
      <3> HAVE i < j
      <3> /\ Len(s) + i \in 1 .. Len(s) + Len(t)
          /\ Len(s) + j \in 1 .. Len(s) + Len(t)
          /\ Len(s) + i < Len(s) + j
        BY <1>1
      <3> B((s \o t)[Len(s) + i], (s \o t)[Len(s) + j])
        BY <2>1
      <3> QED
        BY <1>1
    <2>4. \A i \in 1 .. Len(s), j \in 1 .. Len(t) : B(s[i], t[j])
      <3> TAKE i \in 1 .. Len(s), j \in 1 .. Len(t)
      <3> /\ i \in 1 .. Len(s) + Len(t)
          /\ Len(s) + j \in 1 .. Len(s) + Len(t)
          /\ i < Len(s) + j
        BY <1>1
      <3> B((s \o t)[i], (s \o t)[Len(s) + j])
        BY <2>1
      <3> QED
        BY <1>1
    <2> QED
      BY <1>1, <2>2, <2>3, <2>4 DEF Chain, Link, Pos, B
  <1>3. ASSUME Chain(way, s), Chain(way, t), Link(way, Pos(s), Pos(t))
        PROVE  Chain(way, s \o t)
    <2>1. /\ \A i, j \in 1 .. Len(s) : i < j => B(s[i], s[j])
          /\ \A i, j \in 1 .. Len(t) : i < j => B(t[i], t[j])
          /\ \A i \in 1 .. Len(s), j \in 1 .. Len(t) : B(s[i], t[j])
      <3>1. /\ \A i \in 1 .. Len(s) : s[i].pos \in Pos(s)
            /\ \A j \in 1 .. Len(t) : t[j].pos \in Pos(t)
        BY <1>1 DEF Pos
      <3>2. \A i \in 1 .. Len(s), j \in 1 .. Len(t) : B(s[i], t[j])
        BY <1>3, <3>1 DEF Link
      <3> QED
        BY <1>1, <1>3, <3>2 DEF Chain
    <2> HIDE DEF B
    <2>2. ASSUME NEW i \in 1 .. Len(s) + Len(t), NEW j \in 1 .. Len(s) + Len(t), i < j
          PROVE  B((s \o t)[i], (s \o t)[j])
      <3>1. CASE j <= Len(s)
        <4>1. i \in 1 .. Len(s) /\ j \in 1 .. Len(s)
          BY <1>1, <2>2, <3>1
        <4> QED
          BY <1>1, <2>1, <2>2, <4>1
      <3>2. CASE i <= Len(s) /\ j > Len(s)
        <4>1. i \in 1 .. Len(s) /\ j - Len(s) \in 1 .. Len(t) /\ Len(s) + (j - Len(s)) = j
          BY <1>1, <3>2
        <4> QED
          BY <1>1, <2>1, <4>1
      <3>3. CASE i > Len(s)
        <4>1. /\ i - Len(s) \in 1 .. Len(t) /\ Len(s) + (i - Len(s)) = i
              /\ j - Len(s) \in 1 .. Len(t) /\ Len(s) + (j - Len(s)) = j
              /\ i - Len(s) < j - Len(s)
          BY <1>1, <2>2, <3>3
        <4> QED
          BY <1>1, <2>1, <4>1
      <3> QED
        BY <1>1, <2>2, <3>1, <3>2, <3>3
    <2> QED
      BY <1>1, <2>2 DEF Chain, B
  <1> QED
    BY <1>2, <1>3

\* A sequence is what is taken of it and what is left.
LEMMA TakeDrop ==
  ASSUME NEW S, NEW s \in Seq(S), NEW n \in Nat
  PROVE  /\ Take(n, s) \in Seq(S) /\ Drop(n, s) \in Seq(S)
         /\ s = Take(n, s) \o Drop(n, s)
         /\ Len(s) <= n => Take(n, s) = s /\ Drop(n, s) = <<>>
  <1>1. Len(s) \in Nat /\ DOMAIN s = 1 .. Len(s) /\ s = [i \in 1 .. Len(s) |-> s[i]]
    BY LenProperties
  <1>2. CASE Len(s) <= n
    <2>1. Take(n, s) = s
      BY <1>1, <1>2, SubSeqFull DEF Take
    <2>2. Drop(n, s) = <<>>
      BY <1>1, <1>2, SubSeqEmpty DEF Drop
    <2> QED
      BY <2>1, <2>2, EmptySeq, ConcatEmptySeq
  <1>3. CASE n < Len(s)
    <2>1. Take(n, s) = SubSeq(s, 1, n)
      BY <1>3 DEF Take
    <2>2. n \in 1 - 1 .. Len(s) /\ Len(s) \in n .. Len(s) /\ 1 \in 1 .. Len(s) + 1
      BY <1>1, <1>3
    <2>3. SubSeq(s, 1, n) \o SubSeq(s, n + 1, Len(s)) = SubSeq(s, 1, Len(s))
      BY <2>2, ConcatAdjacentSubSeq
    <2>4. SubSeq(s, 1, Len(s)) = s
      BY SubSeqFull
    <2>5. SubSeq(s, 1, n) \in Seq(S)
      BY <2>2, FirstPart, n \in 0 .. Len(s)
    <2>6. SubSeq(s, n + 1, Len(s)) \in Seq(S)
      <3>1. \A i \in n + 1 .. Len(s) : s[i] \in S
        BY <1>1, <1>3, ElementOfSeq
      <3> QED
        BY <1>1, <3>1, SubSeqProperties, n + 1 \in Int
    <2>7. Drop(n, s) = SubSeq(s, n + 1, Len(s))
      BY DEF Drop
    <2> QED
      <3>1. s = Take(n, s) \o Drop(n, s)
        BY <2>1, <2>3, <2>4, <2>7
      <3>2. ~ (Len(s) <= n)
        BY <1>1, <1>3
      <3> QED
        BY <2>1, <2>5, <2>6, <2>7, <3>1, <3>2
  <1>4. n \in Nat /\ Len(s) \in Nat => n < Len(s) \/ Len(s) <= n
    OBVIOUS
  <1> QED
    BY <1>1, <1>2, <1>3, <1>4

\* What is taken of two parts: all of the first, if there is room for it.
LEMMA TakeConcat ==
  ASSUME NEW S, NEW s \in Seq(S), NEW t \in Seq(S), NEW n \in Nat, Len(s) <= n
  PROVE  Left(n, s) \in Nat /\ Take(n, s \o t) = s \o Take(Left(n, s), t)
  <1> DEFINE k == Left(n, s)
  <1>1. k \in Nat /\ k = n - Len(s) /\ Len(s) \in Nat
    BY LenProperties DEF Left
  <1>2. /\ s \o t \in Seq(S) /\ Len(s \o t) = Len(s) + Len(t) /\ Len(t) \in Nat
        /\ DOMAIN s = 1 .. Len(s) /\ DOMAIN t = 1 .. Len(t)
        /\ \A i \in 1 .. Len(s) : (s \o t)[i] = s[i]
        /\ \A i \in 1 .. Len(t) : (s \o t)[Len(s) + i] = t[i]
    BY ConcatParts
  <1>3. CASE n < Len(s) + Len(t)
    <2> DEFINE u == SubSeq(s \o t, 1, n)
               w == SubSeq(t, 1, k)
    <2>1. Take(n, s \o t) = u /\ Take(k, t) = w
      BY <1>1, <1>2, <1>3 DEF Take
    <2>2. n \in 0 .. Len(s \o t) /\ k \in 0 .. Len(t)
      BY <1>1, <1>2, <1>3
    <2>3. u \in Seq(S) /\ Len(u) = n /\ \A i \in 1 .. n : u[i] = (s \o t)[i]
      BY <1>2, <2>2, FirstPart
    <2>4. w \in Seq(S) /\ Len(w) = k /\ \A i \in 1 .. k : w[i] = t[i]
      BY <2>2, FirstPart
    <2> HIDE DEF u, w, k
    <2>5. /\ s \o w \in Seq(S) /\ Len(s \o w) = n
          /\ \A i \in 1 .. Len(s) : (s \o w)[i] = s[i]
          /\ \A i \in 1 .. k : (s \o w)[Len(s) + i] = w[i]
      BY <1>1, <2>4, ConcatParts
    <2>6. ASSUME NEW i \in 1 .. n PROVE u[i] = (s \o w)[i]
      <3>1. CASE i <= Len(s)
        <4>1. i \in 1 .. Len(s)
          BY <1>1, <3>1
        <4> QED
          BY <1>2, <2>3, <2>5, <4>1
      <3>2. CASE i > Len(s)
        <4>1. i - Len(s) \in 1 .. k /\ i - Len(s) \in 1 .. Len(t)
              /\ Len(s) + (i - Len(s)) = i
          BY <1>1, <1>2, <1>3, <3>2
        <4> QED
          BY <1>2, <2>3, <2>4, <2>5, <4>1
      <3>3. i <= Len(s) \/ i > Len(s)
        BY <1>1
      <3> QED
        BY <3>1, <3>2, <3>3
    <2>7. u = s \o w
      BY <2>3, <2>5, <2>6, SeqEqual
    <2> QED
      BY <1>1, <2>1, <2>7 DEF k
  <1>4. CASE n >= Len(s) + Len(t)
    <2>1. Take(n, s \o t) = s \o t
      BY <1>2, <1>4, TakeDrop
    <2>2. Take(k, t) = t
      BY <1>1, <1>2, <1>4, TakeDrop
    <2> QED
      BY <1>1, <2>1, <2>2
  <1> QED
    BY <1>1, <1>2, <1>3, <1>4

\* One atom, and one more.
LEMMA ChainAppend ==
  ASSUME NEW S, NEW s \in Seq(S), NEW a \in S, NEW way \in Ways
  PROVE  /\ Append(s, a) \in Seq(S)
         /\ Pos(Append(s, a)) = Pos(s) \cup {a.pos}
         /\ Chain(way, Append(s, a)) <=>
              Chain(way, s) /\ Link(way, Pos(s), {a.pos})
  <1> DEFINE u == <<a>>
  <1>1. u \in Seq(S) /\ Append(s, a) = s \o u
    BY AppendIsConcat
  <1>2. Pos(u) = {a.pos} /\ Chain(way, u)
    BY DEF Pos, Chain
  <1>3. Append(s, a) \in Seq(S)
    BY AppendProperties
  <1> HIDE DEF u
  <1>4. Pos(s \o u) = Pos(s) \cup Pos(u)
    BY <1>1, PosConcat
  <1>5. Chain(way, s \o u) <=>
          Chain(way, s) /\ Chain(way, u) /\ Link(way, Pos(s), Pos(u))
    BY <1>1, ChainConcat
  <1> QED
    BY <1>1, <1>2, <1>3, <1>4, <1>5

\* The same, of the positions alone.
LEMMA PosAppend ==
  ASSUME NEW S, NEW s \in Seq(S), NEW a \in S
  PROVE  Append(s, a) \in Seq(S) /\ Pos(Append(s, a)) = Pos(s) \cup {a.pos}
  BY TwoWays, ChainAppend

\* Nothing has no position.
LEMMA ChainEmpty ==
  ASSUME NEW way \in Ways
  PROVE  Pos(<<>>) = {} /\ Chain(way, <<>>)
  BY DEF Pos, Chain

\* All but the last atom.
LEMMA ChainFront ==
  ASSUME NEW S, NEW s \in Seq(S), NEW way \in Ways
  PROVE  /\ Front(s) \in Seq(S)
         /\ Pos(Front(s)) \subseteq Pos(s)
         /\ Chain(way, s) => Chain(way, Front(s))
  <1>1. Len(s) \in Nat
    BY LenProperties
  <1>2. CASE s = <<>>
    <2>1. Len(s) = 0
      BY <1>2, EmptySeq
    <2>2. Front(s) = SubSeq(s, 1, Len(s) - 1) /\ Len(s) - 1 < 1 /\ Len(s) - 1 \in Int
      BY <2>1 DEF Front
    <2>3. Front(s) = <<>>
      BY <2>2, SubSeqEmpty
    <2> QED
      BY <1>2, <2>3, ChainEmpty
  <1>3. CASE s # <<>>
    <2> DEFINE n == Len(s) - 1
    <2>1. n \in Nat /\ n < Len(s)
      BY <1>1, <1>3, LenProperties
    <2>2. Take(n, s) = Front(s)
      BY <2>1 DEF Take, Front
    <2> HIDE DEF n
    <2>3. /\ Front(s) \in Seq(S) /\ Drop(n, s) \in Seq(S)
          /\ s = Front(s) \o Drop(n, s)
      <3>1. /\ Take(n, s) \in Seq(S) /\ Drop(n, s) \in Seq(S)
            /\ s = Take(n, s) \o Drop(n, s)
        BY <2>1, TakeDrop
      <3> QED
        BY <2>2, <3>1
    <2> DEFINE u == Front(s)
               w == Drop(n, s)
    <2>4. /\ Pos(u \o w) = Pos(u) \cup Pos(w)
          /\ Chain(way, u \o w) => Chain(way, u)
      BY <2>3, PosConcat, ChainConcat
    <2> HIDE DEF u, w
    <2>5. s = u \o w
      BY <2>3 DEF u, w
    <2>6. Pos(u) \subseteq Pos(s) /\ (Chain(way, s) => Chain(way, u))
      BY <2>4, <2>5
    <2> QED
      BY <2>3, <2>6 DEF u
  <1> QED
    BY <1>2, <1>3

\* The output and the partial tag stay in order, one atom after the other.
LEMMA AbsorbOrder ==
  ASSUME NEW q, NEW ctx, NEW s \in Scanning(q, ctx), TagHeld(s),
         NEW a \in ItemsOf(q),
         Chain("order", s.out \o s.hold), \A x \in Pos(s.out \o s.hold) : x < a.pos,
         NEW t, t = Absorb(s, a)
  PROVE  /\ Chain("order", t.out \o t.hold)
         /\ Pos(t.out \o t.hold) \subseteq Pos(s.out \o s.hold) \cup {a.pos}
  <1> DEFINE I == ItemsOf(q)
             O == s.out
             H == s.hold
  <1>1. t \in Scanning(q, ctx) /\ Absorbed(q, s, a, t)
    BY AbsorbType
  <1>2. O \in Seq(I) /\ H \in Seq(I) /\ t.out \in Seq(I) /\ t.hold \in Seq(I)
    BY <1>1 DEF Scanning
  <1>3. a.pos \in Nat /\ \A b \in I : b.pos \in Nat
    BY DEF ItemsOf
  <1>4. \A u \in Seq(I) : Pos(u) \subseteq Nat
    BY <1>3, LenProperties, ElementOfSeq DEF Pos
  <1> HIDE DEF I, O, H
  <1>5. /\ Chain("order", O) /\ Chain("order", H) /\ Link("order", Pos(O), Pos(H))
        /\ Pos(O \o H) = Pos(O) \cup Pos(H)
    BY <1>2, TwoWays, ChainConcat, PosConcat, Chain("order", O \o H) DEF O, H
  <1>6. Link("order", Pos(O), {a.pos}) /\ Link("order", Pos(H), {a.pos})
    <2>1. \A x \in Pos(O \o H) : x < a.pos
      BY DEF O, H
    <2> QED
      BY <1>2, <1>3, <1>4, <1>5, <2>1 DEF Link
  <1>7. a \in I
    BY DEF I
  <1> SUFFICES /\ Chain("order", t.out) /\ Chain("order", t.hold)
               /\ Link("order", Pos(t.out), Pos(t.hold))
               /\ Pos(t.out) \cup Pos(t.hold) \subseteq Pos(O) \cup Pos(H) \cup {a.pos}
    BY <1>2, <1>5, TwoWays, ChainConcat, PosConcat DEF O, H
  <1>8. Pos(<<>>) = {} /\ Chain("order", <<>>)
    BY TwoWays, ChainEmpty
  <1>9. CASE t.out = O /\ t.hold \in {H, <<>>}
    BY <1>5, <1>8, <1>9 DEF Link
  <1>10. CASE t.out = O /\ t.hold = Append(H, a)
    BY <1>2, <1>5, <1>6, <1>7, <1>10, TwoWays, ChainAppend DEF Link
  <1>11. CASE t.out = Append(O, a) /\ t.hold = <<>>
    BY <1>2, <1>5, <1>6, <1>7, <1>8, <1>11, TwoWays, ChainAppend DEF Link
  <1>12. CASE /\ H # <<>> /\ t.hold = <<>>
              /\ \E b \in I : b.pos = Head(H).pos /\ t.out = Append(O, b)
    <2>1. PICK b \in I : b.pos = Head(H).pos /\ t.out = Append(O, b)
      BY <1>12
    <2>2. Head(H).pos \in Pos(H)
      <3>1. Len(H) \in Nat /\ Len(H) # 0 /\ DOMAIN H = 1 .. Len(H) /\ Head(H) = H[1]
        BY <1>2, <1>12, LenProperties
      <3>2. 1 \in DOMAIN H
        BY <3>1
      <3> QED
        BY <3>1, <3>2 DEF Pos
    <2>3. Link("order", Pos(O), {b.pos})
      BY <1>5, <2>1, <2>2 DEF Link
    <2> QED
      BY <1>2, <1>5, <1>8, <1>12, <2>1, <2>2, <2>3, TwoWays, ChainAppend DEF Link
  <1>13. CASE t.out = Front(O) /\ t.hold = <<>>
    BY <1>2, <1>5, <1>8, <1>13, TwoWays, ChainFront DEF Link
  <1>14. \/ t.out = O /\ t.hold \in {H, <<>>}
         \/ t.out = O /\ t.hold = Append(H, a)
         \/ t.out = Append(O, a) /\ t.hold = <<>>
         \/ /\ H # <<>> /\ t.hold = <<>>
            /\ \E b \in I : b.pos = Head(H).pos /\ t.out = Append(O, b)
         \/ t.out = Front(O) /\ t.hold = <<>>
    BY <1>1 DEF Absorbed, O, H, I
  <1> QED
    BY <1>9, <1>10, <1>11, <1>12, <1>13, <1>14

\* What a scan yields: the atoms of its data, in their order, and no longer a
\* partial tag than allowed.
LEMMA ScanOrder ==
  ASSUME NEW q, NEW ctx \in CtxOf(q), NEW data \in Seq(ItemsOf(q)),
         Chain("order", data), NEW p, p = Scan(ctx, data)
  PROVE  /\ p \in Scanning(q, ctx) /\ Len(p.hold) <= HoldMax
         /\ Chain("order", p.out \o p.hold)
         /\ Pos(p.out \o p.hold) \subseteq Pos(data)
  <1> DEFINE n == Len(data)
             Seen(i) == {data[j].pos : j \in 1 .. i}
             Good == [i \in 0 .. n |->
                        {s \in Scanning(q, ctx) :
                           /\ TagHeld(s)
                           /\ Chain("order", s.out \o s.hold)
                           /\ Pos(s.out \o s.hold) \subseteq Seen(i)}]
  <1>1. n \in Nat /\ DOMAIN data = 1 .. n /\ \A i \in 1 .. n : data[i] \in ItemsOf(q)
    BY LenProperties, ElementOfSeq
  <1>2. <<>> \in Seq(ItemsOf(q)) /\ <<>> \o <<>> = <<>>
    BY EmptySeq, ConcatEmptySeq
  <1>3. ScanStart(ctx) \in Good[0]
    <2>1. ScanStart(ctx) \in Scanning(q, ctx)
      BY <1>2 DEF ScanStart, Scanning, CtxOf, EveryKind, Kinds
    <2>2. /\ TagHeld(ScanStart(ctx)) /\ ScanStart(ctx).out = <<>>
          /\ ScanStart(ctx).hold = <<>>
      BY DEF ScanStart, TagHeld
    <2> DEFINE s == ScanStart(ctx)
    <2>3. s.out \o s.hold = <<>>
      BY <1>2, <2>2
    <2>4. Chain("order", s.out \o s.hold) /\ Pos(s.out \o s.hold) = {}
      BY <2>3, TwoWays, ChainEmpty
    <2> HIDE DEF s, Seen
    <2>5. s \in Scanning(q, ctx) /\ TagHeld(s)
      BY <2>1, <2>2 DEF s
    <2>6. s \in Good[0]
      BY <1>1, <2>4, <2>5
    <2> QED
      BY <2>6 DEF s
  <1>4. ASSUME NEW i \in 1 .. n, NEW s \in Good[i - 1]
        PROVE  Absorb(s, data[i]) \in Good[i]
    <2> DEFINE a == data[i]
               t == Absorb(s, a)
    <2>1. /\ s \in Scanning(q, ctx) /\ TagHeld(s)
          /\ Chain("order", s.out \o s.hold)
          /\ Pos(s.out \o s.hold) \subseteq Seen(i - 1)
      BY <1>1, <1>4
    <2>2. a \in ItemsOf(q)
      BY <1>1
    <2>3. \A x \in Seen(i - 1) : x < a.pos
      <3>1. \A j \in 1 .. i - 1 : data[j].pos < data[i].pos
        BY <1>1 DEF Chain
      <3> QED
        BY <3>1
    <2>4. Seen(i - 1) \cup {a.pos} \subseteq Seen(i)
      BY <1>1
    <2> HIDE DEF a, Seen
    <2>5. t \in Scanning(q, ctx) /\ TagHeld(t)
      BY <2>1, <2>2, AbsorbType
    <2>6. /\ Chain("order", t.out \o t.hold)
          /\ Pos(t.out \o t.hold) \subseteq Pos(s.out \o s.hold) \cup {a.pos}
      BY <2>1, <2>2, <2>3, AbsorbOrder
    <2>7. Pos(t.out \o t.hold) \subseteq Seen(i)
      BY <2>1, <2>4, <2>6
    <2>8. t \in Good[i]
      BY <2>5, <2>6, <2>7
    <2> QED
      BY <2>8 DEF a
  <1>5. PICK s \in Good[n] : p = FailOpen(s)
    <2> HIDE DEF Good
    <2>1. \A i \in 1 .. Len(data) : \A s \in Good[i - 1] : Absorb(s, data[i]) \in Good[i]
      BY <1>4
    <2> QED
      BY <1>1, <1>3, <2>1, ScanInduction
  <1>6. /\ s \in Scanning(q, ctx)
        /\ Chain("order", s.out \o s.hold)
        /\ Pos(s.out \o s.hold) \subseteq Seen(n)
    BY <1>1, <1>5
  <1>7. Seen(n) = Pos(data)
    BY <1>1 DEF Pos
  <1>8. s.out \in Seq(ItemsOf(q)) /\ s.hold \in Seq(ItemsOf(q))
    BY <1>6 DEF Scanning
  <1>9. CASE Len(s.hold) > HoldMax
    <2> DEFINE o == s.out \o s.hold
    <2>1. o \in Seq(ItemsOf(q)) /\ o \o <<>> = o
      BY <1>8, ConcatParts, ConcatEmptySeq
    <2>2. p = [s EXCEPT !.out = o, !.hold = <<>>, !.last = "long"]
      BY <1>5, <1>9 DEF FailOpen
    <2> HIDE DEF o, Good, Seen
    <2>3. p \in Scanning(q, ctx) /\ p.out = o /\ p.hold = <<>>
      BY <1>2, <1>6, <2>1, <2>2 DEF Scanning
    <2>4. Len(p.hold) = 0
      BY <2>3, EmptySeq
    <2> QED
      BY <1>6, <1>7, <2>1, <2>3, <2>4 DEF o
  <1>10. CASE Len(s.hold) <= HoldMax
    <2>1. p = s
      BY <1>5, <1>8, <1>10, LenProperties DEF FailOpen
    <2> HIDE DEF Good, Seen
    <2> QED
      BY <1>6, <1>7, <1>10, <2>1
  <1>11. Len(s.hold) \in Nat
    BY <1>8, LenProperties
  <1> QED
    BY <1>9, <1>10, <1>11

(***************************************************************************)
(* The join, in the same way.                                              *)
(***************************************************************************)
JoinUpTo(held, n, f) ==
  f = [i \in 0 .. n |-> IF i = 0 THEN <<>> ELSE Spliced(f[i - 1], held[i])]

\* There is such a function.
LEMMA JoinExists ==
  ASSUME NEW held, NEW n \in Nat
  PROVE  \E f : JoinUpTo(held, n, f)
  <1> DEFINE S == {m \in Nat : ~ \E f : JoinUpTo(held, m, f)}
  <1>1. ASSUME S # {} PROVE FALSE
    <2>1. PICK m \in S : \A k \in Nat : k < m => k \notin S
      BY <1>1, FirstFailure
    <2>2. CASE m = 0
      <3> DEFINE f == [i \in 0 .. 0 |-> <<>>]
      <3>1. JoinUpTo(held, 0, f)
        BY DEF JoinUpTo
      <3> QED
        BY <2>1, <2>2, <3>1
    <2>3. CASE m > 0
      <3>1. m - 1 \in Nat /\ m - 1 < m
        BY <2>3
      <3>2. PICK f : JoinUpTo(held, m - 1, f)
        BY <2>1, <3>1
      <3> DEFINE g == [i \in 0 .. m |-> IF i < m THEN f[i] ELSE Spliced(f[m - 1], held[m])]
      <3>3. \A i \in 0 .. m - 1 : f[i] = IF i = 0 THEN <<>> ELSE Spliced(f[i - 1], held[i])
        BY <3>2 DEF JoinUpTo
      <3>4. \A i \in 0 .. m : g[i] = IF i = 0 THEN <<>> ELSE Spliced(g[i - 1], held[i])
        BY <2>3, <3>1, <3>3
      <3>5. JoinUpTo(held, m, g)
        <4>1. g = [i \in 0 .. m |-> g[i]]
          OBVIOUS
        <4> HIDE DEF g
        <4> QED
          BY <3>4, <4>1 DEF JoinUpTo
      <3> QED
        BY <2>1, <3>5
    <2> QED
      BY <2>1, <2>2, <2>3
  <1> QED
    BY <1>1

\* The atoms that are joined are those that were held, in their order.
LEMMA JoinOrder ==
  ASSUME NEW q, NEW held \in Seq(ItemsOf(q)), NEW way \in Ways
  PROVE  /\ Join(held) \in Seq(ItemsOf(q))
         /\ Pos(Join(held)) \subseteq Pos(held)
         /\ Chain(way, held) => Chain(way, Join(held))
  <1> DEFINE n == Len(held)
             Seen(i) == {held[j].pos : j \in 1 .. i}
             I == ItemsOf(q)
             Good(i, s) == /\ s \in Seq(I) /\ Pos(s) \subseteq Seen(i)
                           /\ Chain(way, held) => Chain(way, s)
  <1>1. n \in Nat /\ DOMAIN held = 1 .. n /\ \A i \in 1 .. n : held[i] \in I
    BY LenProperties, ElementOfSeq
  <1>2. \E f : JoinUpTo(held, n, f)
    BY <1>1, JoinExists
  <1>3. \E f : Join(held) = f[n] /\ JoinUpTo(held, n, f)
    BY <1>2 DEF Join, JoinUpTo
  <1>4. PICK f : Join(held) = f[n] /\ JoinUpTo(held, n, f)
    BY <1>3
  <1>5. f[0] = <<>> /\ \A i \in 1 .. n : f[i] = Spliced(f[i - 1], held[i])
    BY <1>1, <1>4 DEF JoinUpTo
  <1>6. Good(0, f[0])
    BY <1>5, EmptySeq, ChainEmpty
  <1>7. ASSUME NEW i \in 1 .. n, Good(i - 1, f[i - 1])
        PROVE  Good(i, f[i])
    <2> DEFINE s == f[i - 1]
               b == Fragment(held[i])
    <2>1. b \in I /\ b.pos = held[i].pos
      BY <1>1 DEF Fragment, ItemsOf, EveryKind
    <2>2. /\ Seen(i - 1) \subseteq Seen(i) /\ b.pos \in Seen(i)
      BY <1>1, <2>1
    <2>3. Chain(way, held) => Link(way, Seen(i - 1), {b.pos})
      BY <1>1, <2>1 DEF Chain, Link
    <2>4. f[i] = Spliced(s, held[i])
      BY <1>5
    <2>5. s \in Seq(I) /\ Pos(s) \subseteq Seen(i - 1) /\ (Chain(way, held) => Chain(way, s))
      BY <1>7
    <2> HIDE DEF I, Seen, b, s
    <2>6. Chain(way, held) => Link(way, Pos(s), {b.pos})
      BY <2>3, <2>5 DEF Link
    <2>7. CASE Resolved(held[i])
      <3>1. f[i] = Append(s, b)
        BY <2>4, <2>7 DEF Spliced, b
      <3> QED
        <4>1. /\ Append(s, b) \in Seq(I)
              /\ Pos(Append(s, b)) = Pos(s) \cup {b.pos}
          BY <2>1, <2>5, PosAppend
        <4>2. Chain(way, held) => Chain(way, Append(s, b))
          BY <2>1, <2>5, <2>6, ChainAppend
        <4> QED
          BY <2>2, <2>5, <3>1, <4>1, <4>2
    <2>8. CASE ~ Resolved(held[i])
      <3>1. f[i] = s
        BY <2>4, <2>8 DEF Spliced
      <3> QED
        BY <2>2, <2>5, <3>1
    <2> QED
      BY <2>7, <2>8
  <1> DEFINE S == {i \in 0 .. n : ~ Good(i, f[i])}
  <1>8. ASSUME S # {} PROVE FALSE
    <2> HIDE DEF Good
    <2> S \in SUBSET Nat
      OBVIOUS
    <2>1. PICK i \in S : \A k \in Nat : k < i => k \notin S
      <3> HIDE DEF S
      <3> QED
        BY <1>8, FirstFailure
    <2>2. i # 0
      BY <1>6
    <2>3. i \in 1 .. n /\ i - 1 \in 0 .. n /\ i - 1 \in Nat /\ i - 1 < i
      BY <1>1, <2>2
    <2>4. Good(i - 1, f[i - 1])
      BY <2>1, <2>3
    <2> QED
      BY <1>7, <2>3, <2>4
  <1>9. Good(n, f[n])
    <2> HIDE DEF Good
    <2> QED
      BY <1>1, <1>8
  <1>10. Seen(n) = Pos(held)
    BY <1>1 DEF Pos
  <1> QED
    BY <1>4, <1>9, <1>10

----------------------------------------------------------------------------
(***************************************************************************)
(* The inductive invariant.                                                *)
(*                                                                         *)
(* A response has a way of its own: once the filter gave up holding, its   *)
(* atoms are only never repeated.  Row: three parts of a stream, the first *)
(* before the second and both before the third.  Orderly: what was sent,   *)
(* what is parked and what is held are such parts; the partial tag is      *)
(* always in the order of the page and after all of them.                  *)
(***************************************************************************)
Allows(happened, way) == "gave up" \in happened => way = "once"

Row(way, a, b, c) ==
  /\ Chain(way, a) /\ Chain(way, b) /\ Chain(way, c)
  /\ Link(way, Pos(a), Pos(b)) /\ Link(way, Pos(a), Pos(c)) /\ Link(way, Pos(b), Pos(c))

Everything(sent, ctx) == Pos(sent) \cup Pos(ctx.parked) \cup Pos(ctx.held)

Orderly(way, sent, ctx) ==
  /\ Row(way, sent, ctx.parked, ctx.held)
  /\ Chain("order", ctx.hold)
  /\ Link("order", Everything(sent, ctx), Pos(ctx.hold))
  /\ way = "order" /\ ~ ctx.holding => ctx.held = <<>>

UpTo(n, X) == \A x \in X : x <= n

Filtered(s) == SlotIsFor(s) /\ slot.ctx # NoCtx

Requested == [page : Seq(Kinds), on : BOOLEAN, marker : BOOLEAN]

\* Types, with the owner of each atom.
Typed ==
  /\ TypeOK
  /\ reqs \in Seq(Requested)
  /\ \A q \in Requests : out[q] \in Seq(ItemsOf(q))

\* A request that has not come has received nothing, and none is answered on
\* two sessions.
Fresh ==
  /\ \A q \in Requests : q > seq => out[q] = <<>> /\ ends[q] = 0
  /\ \A s, t \in Sessions : Live(s) /\ resp[s].req = resp[t].req => s = t

\* The shared variables belong to the response that finds them its own.
Owned ==
  /\ \A s \in Sessions : cache.session = s /\ Live(s) => resp[s].req = cache.req
  /\ \A s \in Sessions : SlotIsFor(s) => Live(s)
  /\ \A s \in Sessions :
       Filtered(s) => slot.ctx \in CtxOf(resp[s].req) /\ reqs[resp[s].req].on

\* What has been sent is in order, and what the filter of a response keeps
\* comes after it, and before what has not been handed over yet.
InOrderSoFar ==
  /\ \A q \in Requests, way \in Ways : Allows(events[q], way) => Chain(way, out[q])
  /\ \A s \in Sessions : Live(s) => UpTo(resp[s].fed, Pos(out[resp[s].req]))
  /\ \A s \in Sessions : Filtered(s) =>
       /\ \A way \in Ways :
            Allows(events[resp[s].req], way) => Orderly(way, out[resp[s].req], slot.ctx)
       /\ UpTo(resp[s].fed, Everything(out[resp[s].req], slot.ctx) \cup Pos(slot.ctx.hold))

\* Without the filter, what has been consumed is what was sent.
Untouched ==
  /\ \A q \in Requests : q <= seq /\ ~ reqs[q].on => Positions(out[q]) = [i \in DOMAIN out[q] |-> i]
  /\ \A s \in Sessions :
       Live(s) /\ ~ reqs[resp[s].req].on => resp[s].fed = Len(out[resp[s].req])

\* An ended stream has no filter any more, and is not asked for another call.
Ended ==
  \A s \in Sessions :
    Live(s) /\ ends[resp[s].req] > 0 => resp[s].eof /\ ~ resp[s].buffered /\ ~ Filtered(s)

EsiInv == Typed /\ Fresh /\ Owned /\ InOrderSoFar /\ Untouched /\ Ended

----------------------------------------------------------------------------
(***************************************************************************)
(* What the hooks do to the parts of a stream.                             *)
(***************************************************************************)

\* What is taken of a part, and what is left.
LEMMA TakeOrder ==
  ASSUME NEW S, NEW s \in Seq(S), NEW n \in Nat, NEW way \in Ways
  PROVE  /\ Take(n, s) \in Seq(S) /\ Drop(n, s) \in Seq(S)
         /\ Pos(s) = Pos(Take(n, s)) \cup Pos(Drop(n, s))
         /\ Chain(way, s) =>
              /\ Chain(way, Take(n, s)) /\ Chain(way, Drop(n, s))
              /\ Link(way, Pos(Take(n, s)), Pos(Drop(n, s)))
  <1> DEFINE t == Take(n, s)
             d == Drop(n, s)
  <1>1. t \in Seq(S) /\ d \in Seq(S) /\ s = t \o d
    BY TakeDrop
  <1> HIDE DEF t, d
  <1>2. Pos(t \o d) = Pos(t) \cup Pos(d)
    BY <1>1, PosConcat
  <1>3. Chain(way, t \o d) => Chain(way, t) /\ Chain(way, d) /\ Link(way, Pos(t), Pos(d))
    BY <1>1, ChainConcat
  <1>4. /\ Pos(s) = Pos(t) \cup Pos(d)
        /\ Chain(way, s) => Chain(way, t) /\ Chain(way, d) /\ Link(way, Pos(t), Pos(d))
    BY <1>1, <1>2, <1>3
  <1> QED
    BY <1>1, <1>4 DEF t, d

\* Some of a part is sent.
LEMMA SendSome ==
  ASSUME NEW S, NEW a \in Seq(S), NEW x \in Seq(S), NEW n \in Nat, NEW way \in Ways,
         Chain(way, a), Chain(way, x), Link(way, Pos(a), Pos(x))
  PROVE  /\ Take(n, x) \in Seq(S) /\ Chain(way, a \o Take(n, x))
         /\ Pos(a \o Take(n, x)) \subseteq Pos(a) \cup Pos(x)
  <1> DEFINE t == Take(n, x)
  <1>1. t \in Seq(S) /\ Pos(t) \subseteq Pos(x) /\ Chain(way, t)
    BY TakeOrder
  <1>2. Link(way, Pos(a), Pos(t))
    BY <1>1 DEF Link
  <1> HIDE DEF t
  <1>3. Chain(way, a \o t) /\ Pos(a \o t) = Pos(a) \cup Pos(t)
    BY <1>1, <1>2, ChainConcat, PosConcat
  <1>4. Pos(a \o t) \subseteq Pos(a) \cup Pos(x)
    BY <1>1, <1>3
  <1> QED
    BY <1>1, <1>3, <1>4 DEF t

(***************************************************************************)
(* The parts when a chunk has been processed: what was sent, parked and    *)
(* held before, then the output and the partial tag.                       *)
(***************************************************************************)
Five(way, a, b, c, d, e) ==
  /\ Row(way, a, b, c)
  /\ Chain("order", d) /\ Chain("order", e) /\ Link("order", Pos(d), Pos(e))
  /\ Link("order", Pos(a) \cup Pos(b) \cup Pos(c), Pos(d) \cup Pos(e))

\* What is in the order of the page comes once; and once is symmetric.
LEMMA OrderIsOnce ==
  ASSUME NEW way \in Ways, NEW s, NEW X, NEW Y
  PROVE  /\ Chain("order", s) => Chain(way, s)
         /\ Link("order", X, Y) => Link(way, X, Y)
         /\ Link("once", X, Y) => Link("once", Y, X)
  BY DEF Chain, Link

\* StillBlocked: some of what is parked is sent.
LEMMA BlockedOrder ==
  ASSUME NEW S, NEW way \in Ways, NEW ctx,
         NEW a \in Seq(S), ctx.parked \in Seq(S), ctx.held \in Seq(S),
         Orderly(way, a, ctx), NEW n \in Nat,
         NEW next, next.parked = Drop(n, ctx.parked), next.held = ctx.held,
         next.hold = ctx.hold, next.holding = ctx.holding,
         NEW bytes, bytes = Take(n, ctx.parked)
  PROVE  /\ Orderly(way, a \o bytes, next)
         /\ Everything(a \o bytes, next) \subseteq Everything(a, ctx)
  <1> DEFINE b == ctx.parked
             d == Drop(n, b)
  <1>1. bytes \in Seq(S) /\ d \in Seq(S) /\ Pos(b) = Pos(bytes) \cup Pos(d)
    BY TakeOrder
  <1>2. Chain(way, bytes) /\ Chain(way, d) /\ Link(way, Pos(bytes), Pos(d))
    BY TakeOrder DEF Orderly, Row
  <1> HIDE DEF b, d
  <1>3. /\ Row(way, a, b, ctx.held) /\ Chain("order", ctx.hold)
        /\ Link("order", Pos(a) \cup Pos(b) \cup Pos(ctx.held), Pos(ctx.hold))
        /\ way = "order" /\ ~ ctx.holding => ctx.held = <<>>
    BY DEF Orderly, Everything, b
  <1>4. Link(way, Pos(a), Pos(bytes))
    BY <1>1, <1>3 DEF Row, Link
  <1>5. Chain(way, a \o bytes) /\ Pos(a \o bytes) = Pos(a) \cup Pos(bytes)
    BY <1>1, <1>2, <1>3, <1>4, ChainConcat, PosConcat DEF Row
  <1>6. Row(way, a \o bytes, d, ctx.held)
    BY <1>1, <1>2, <1>3, <1>5 DEF Row, Link
  <1>7. next.parked = d
    BY DEF b, d
  <1> QED
    BY <1>1, <1>3, <1>5, <1>6, <1>7 DEF Orderly, Everything, b

\* Hold: what is parked is sent, the output held.
LEMMA HoldOrder ==
  ASSUME NEW S, NEW way \in Ways, NEW a \in Seq(S), NEW b \in Seq(S), NEW c \in Seq(S),
         NEW d \in Seq(S), NEW e \in Seq(S), Five(way, a, b, c, d, e),
         NEW next, next.parked = <<>>, next.held = c \o d, next.hold = e,
         next.holding = TRUE
  PROVE  Orderly(way, a \o b, next)
  <1>1. Chain(way, a \o b) /\ Pos(a \o b) = Pos(a) \cup Pos(b)
    BY ChainConcat, PosConcat DEF Five, Row
  <1>2. Chain(way, d) /\ Link(way, Pos(a) \cup Pos(b) \cup Pos(c), Pos(d))
    BY OrderIsOnce DEF Five, Link
  <1>3. Link(way, Pos(c), Pos(d))
    BY <1>2 DEF Link
  <1>4. Chain(way, c \o d) /\ Pos(c \o d) = Pos(c) \cup Pos(d)
    BY <1>2, <1>3, ChainConcat, PosConcat DEF Five, Row
  <1>5. Row(way, a \o b, <<>>, c \o d)
    BY <1>1, <1>2, <1>4, ChainEmpty DEF Five, Row, Link
  <1>6. Pos(<<>>) = {}
    BY ChainEmpty, TwoWays
  <1>7. Everything(a \o b, next) = Pos(a) \cup Pos(b) \cup Pos(c) \cup Pos(d)
    BY <1>1, <1>4, <1>6 DEF Everything
  <1>8. Link("order", Everything(a \o b, next), Pos(e))
    BY <1>7 DEF Five, Link
  <1> QED
    BY <1>5, <1>7, <1>8 DEF Five, Orderly

\* Stream and EndStream: what is parked is sent, and some of the output; the
\* rest is parked.  Nothing may be held if the order is to be kept.
Streamed(S, way, a, b, c, d, bytes, next) ==
  /\ bytes \in Seq(S) /\ Orderly(way, a \o bytes, next)
  /\ Everything(a \o bytes, next) \subseteq Pos(a) \cup Pos(b) \cup Pos(c) \cup Pos(d)

\* The part of the output that is not sent comes after what is.
LEMMA StreamOrder ==
  ASSUME NEW S, NEW way \in Ways, NEW a \in Seq(S), NEW b \in Seq(S), NEW c \in Seq(S),
         NEW d \in Seq(S), NEW e \in Seq(S), Five(way, a, b, c, d, e),
         way = "order" => c = <<>>,
         NEW room \in Nat, Len(b) <= room,
         NEW next, next.parked = Drop(Left(room, b), d), next.held = c, next.hold = e,
         NEW bytes, bytes = Take(room, b \o d)
  PROVE  Streamed(S, way, a, b, c, d, bytes, next)
  <1> DEFINE k == Left(room, b)
             t == Take(k, d)
             r == Drop(k, d)
  <1>1. k \in Nat /\ bytes = b \o t
    BY TakeConcat, ZenonT(30)
  <1>2. Chain(way, d)
    BY OrderIsOnce DEF Five
  <1> HIDE DEF k
  <1>3. /\ t \in Seq(S) /\ r \in Seq(S) /\ Pos(d) = Pos(t) \cup Pos(r)
        /\ Chain(way, t) /\ Chain(way, r) /\ Link(way, Pos(t), Pos(r))
    BY <1>1, <1>2, TakeOrder
  <1>4. next.parked = r
    BY DEF k
  <1> HIDE DEF t, r
  <1>5. /\ Link(way, Pos(a), Pos(d)) /\ Link(way, Pos(b), Pos(d)) /\ Link(way, Pos(c), Pos(d))
    BY OrderIsOnce DEF Five, Link
  <1>6. Link(way, Pos(b), Pos(t)) /\ Link(way, Pos(b), Pos(r))
    BY <1>3, <1>5 DEF Link
  <1>7. bytes \in Seq(S) /\ Chain(way, bytes) /\ Pos(bytes) = Pos(b) \cup Pos(t)
    <2>1. b \o t \in Seq(S) /\ Chain(way, b \o t) /\ Pos(b \o t) = Pos(b) \cup Pos(t)
      BY <1>3, <1>6, ChainConcat, PosConcat, ConcatParts DEF Five, Row
    <2> QED
      BY <1>1, <2>1
  <1>8. Link(way, Pos(a), Pos(bytes))
    BY <1>3, <1>5, <1>7 DEF Five, Row, Link
  <1>9. Chain(way, a \o bytes) /\ Pos(a \o bytes) = Pos(a) \cup Pos(b) \cup Pos(t)
    <2>1. Chain(way, a)
      BY DEF Five, Row
    <2>2. Chain(way, a \o bytes)
      BY <1>7, <1>8, <2>1, ChainConcat
    <2>3. Pos(a \o bytes) = Pos(a) \cup Pos(bytes)
      BY <1>7, PosConcat
    <2> QED
      BY <1>7, <2>2, <2>3
  <1>10. Link(way, Pos(a \o bytes), Pos(r))
    BY <1>3, <1>5, <1>9 DEF Link
  <1>11. Link(way, Pos(a \o bytes), Pos(c)) /\ Link(way, Pos(r), Pos(c))
    <2>1. CASE c = <<>>
      <3>1. Pos(c) = {}
        BY <2>1, ChainEmpty, TwoWays
      <3> QED
        BY <3>1 DEF Link
    <2>2. CASE way = "once"
      <3>1. Link(way, Pos(d), Pos(c))
        BY <1>5, <2>2, OrderIsOnce
      <3> QED
        BY <1>3, <1>9, <3>1 DEF Five, Row, Link
    <2> QED
      BY <2>1, <2>2 DEF Ways
  <1>12. Row(way, a \o bytes, r, c)
    BY <1>3, <1>9, <1>10, <1>11 DEF Five, Row
  <1>13. Everything(a \o bytes, next) = Pos(a) \cup Pos(b) \cup Pos(c) \cup Pos(d)
    BY <1>3, <1>4, <1>9 DEF Everything
  <1>14. Link("order", Everything(a \o bytes, next), Pos(e))
    BY <1>13 DEF Five, Link
  <1> QED
    BY <1>4, <1>7, <1>12, <1>13, <1>14 DEF Orderly, Five, Streamed

\* The partial tag goes with the output at the end.
LEMMA TailOrder ==
  ASSUME NEW S, NEW way \in Ways, NEW a \in Seq(S), NEW b \in Seq(S), NEW c \in Seq(S),
         NEW d \in Seq(S), NEW e \in Seq(S), Five(way, a, b, c, d, e)
  PROVE  /\ Five(way, a, b, c, d \o e, <<>>)
         /\ Pos(d \o e) = Pos(d) \cup Pos(e)
  <1>1. Chain("order", d \o e) /\ Pos(d \o e) = Pos(d) \cup Pos(e)
    BY ChainConcat, PosConcat, TwoWays DEF Five
  <1>2. Pos(<<>>) = {} /\ Chain("order", <<>>)
    BY ChainEmpty, TwoWays
  <1> QED
    BY <1>1, <1>2 DEF Five, Link

\* The end of the stream: all that is parked and all of the output is sent.
Whole(S, way, a, b, d) ==
  /\ b \o d \in Seq(S) /\ Chain(way, a \o (b \o d))
  /\ Pos(a \o (b \o d)) \subseteq Pos(a) \cup Pos(b) \cup Pos(d)

\* Sent whole, the output still comes after all that was sent before.
LEMMA AllSent ==
  ASSUME NEW S, NEW way \in Ways, NEW a \in Seq(S), NEW b \in Seq(S), NEW c \in Seq(S),
         NEW d \in Seq(S), NEW e \in Seq(S), Five(way, a, b, c, d, e)
  PROVE  Whole(S, way, a, b, d)
  <1> DEFINE x == b \o d
  <1>1. /\ Chain(way, a) /\ Chain(way, b) /\ Chain(way, d) /\ Link(way, Pos(a), Pos(b))
        /\ Link(way, Pos(a), Pos(d)) /\ Link(way, Pos(b), Pos(d))
    BY OrderIsOnce DEF Five, Row, Link
  <1>2. x \in Seq(S) /\ Chain(way, x) /\ Pos(x) = Pos(b) \cup Pos(d)
    BY <1>1, ChainConcat, PosConcat, ConcatParts
  <1> HIDE DEF x
  <1>3. Link(way, Pos(a), Pos(x))
    BY <1>1, <1>2 DEF Link
  <1>4. Chain(way, a \o x) /\ Pos(a \o x) = Pos(a) \cup Pos(x)
    <2>1. Chain(way, a) /\ Chain(way, x) /\ x \in Seq(S)
      BY <1>1, <1>2
    <2>2. Chain(way, a \o x)
      BY <1>3, <2>1, ChainConcat
    <2> QED
      BY <2>1, <2>2, PosConcat
  <1>5. Pos(a \o x) \subseteq Pos(a) \cup Pos(b) \cup Pos(d)
    BY <1>2, <1>4
  <1> QED
    BY <1>2, <1>4, <1>5 DEF x, Whole

\* What is parked and then what was held, with the tail or without, is in
\* order: it may be sent.
LEMMA JoinedOrder ==
  ASSUME NEW q, NEW way \in Ways, NEW a \in Seq(ItemsOf(q)), NEW b \in Seq(ItemsOf(q)),
         NEW c \in Seq(ItemsOf(q)), Row(way, a, b, c), NEW n \in Nat
  PROVE  LET bytes == Take(n, b \o Join(c)) IN
         /\ bytes \in Seq(ItemsOf(q)) /\ Chain(way, a \o bytes)
         /\ Pos(a \o bytes) \subseteq Pos(a) \cup Pos(b) \cup Pos(c)
  <1> DEFINE j == Join(c)
             x == b \o j
             bytes == Take(n, x)
  <1>1. j \in Seq(ItemsOf(q)) /\ Pos(j) \subseteq Pos(c) /\ Chain(way, j)
    BY JoinOrder DEF Row
  <1> HIDE DEF j
  <1>2. Link(way, Pos(b), Pos(j))
    BY <1>1 DEF Row, Link
  <1>3. x \in Seq(ItemsOf(q)) /\ Chain(way, x) /\ Pos(x) = Pos(b) \cup Pos(j)
    BY <1>1, <1>2, ChainConcat, PosConcat, ConcatParts DEF Row
  <1> HIDE DEF x
  <1>4. Link(way, Pos(a), Pos(x))
    BY <1>1, <1>3 DEF Row, Link
  <1>5. /\ bytes \in Seq(ItemsOf(q)) /\ Chain(way, a \o bytes)
        /\ Pos(a \o bytes) \subseteq Pos(a) \cup Pos(x)
    BY <1>3, <1>4, SendSome DEF Row
  <1>6. Pos(a \o bytes) \subseteq Pos(a) \cup Pos(b) \cup Pos(c)
    BY <1>1, <1>3, <1>5
  <1> QED
    BY <1>5, <1>6 DEF x, j

\* The parts a hook finds, before a chunk is processed and if none is.
LEMMA RowWithTail ==
  ASSUME NEW S, NEW way \in Ways, NEW a \in Seq(S), NEW b \in Seq(S), NEW c \in Seq(S),
         NEW e \in Seq(S), Row(way, a, b, c), Chain("order", e),
         Link("order", Pos(a) \cup Pos(b) \cup Pos(c), Pos(e))
  PROVE  /\ c \o e \in Seq(S) /\ Row(way, a, b, c \o e)
         /\ Pos(c \o e) = Pos(c) \cup Pos(e)
  <1>1. Chain(way, e) /\ Link(way, Pos(a) \cup Pos(b) \cup Pos(c), Pos(e))
    BY OrderIsOnce
  <1>2. Link(way, Pos(c), Pos(e))
    BY <1>1 DEF Link
  <1>3. c \o e \in Seq(S) /\ Chain(way, c \o e) /\ Pos(c \o e) = Pos(c) \cup Pos(e)
    BY <1>1, <1>2, ChainConcat, PosConcat, ConcatParts DEF Row
  <1> QED
    BY <1>1, <1>3 DEF Row, Link

\* At the end, what is held takes the output and the tail in if there is room.
Joinable(S, way, a, b, c, d, e) ==
  \A all \in {c, c \o d, c \o e, (c \o d) \o e} :
    /\ all \in Seq(S) /\ Row(way, a, b, all)
    /\ Pos(all) \subseteq Pos(c) \cup Pos(d) \cup Pos(e)

\* Each of the four is a part that comes after what was sent and parked.
LEMMA FiveWithTail ==
  ASSUME NEW S, NEW way \in Ways, NEW a \in Seq(S), NEW b \in Seq(S), NEW c \in Seq(S),
         NEW d \in Seq(S), NEW e \in Seq(S), Five(way, a, b, c, d, e)
  PROVE  Joinable(S, way, a, b, c, d, e)
  <1>1. /\ Row(way, a, b, c) /\ Chain("order", d) /\ Chain("order", e)
        /\ Link("order", Pos(a) \cup Pos(b) \cup Pos(c), Pos(d))
        /\ Link("order", Pos(a) \cup Pos(b) \cup Pos(c), Pos(e))
        /\ Link("order", Pos(d), Pos(e))
    BY DEF Five, Link
  <1>2. /\ c \o d \in Seq(S) /\ Row(way, a, b, c \o d)
        /\ Pos(c \o d) = Pos(c) \cup Pos(d)
    BY <1>1, RowWithTail
  <1>3. /\ c \o e \in Seq(S) /\ Row(way, a, b, c \o e)
        /\ Pos(c \o e) = Pos(c) \cup Pos(e)
    BY <1>1, RowWithTail
  <1> DEFINE l == c \o d
  <1>4. l \in Seq(S) /\ Row(way, a, b, l) /\ Pos(l) = Pos(c) \cup Pos(d)
    BY <1>2
  <1> HIDE DEF l
  <1>5. Link("order", Pos(a) \cup Pos(b) \cup Pos(l), Pos(e))
    BY <1>1, <1>4 DEF Link
  <1>6. l \o e \in Seq(S) /\ Row(way, a, b, l \o e) /\ Pos(l \o e) = Pos(l) \cup Pos(e)
    <2>1. Chain("order", e)
      BY <1>1
    <2>2. l \in Seq(S) /\ Row(way, a, b, l)
      BY <1>4
    <2> HIDE <1>1, <1>4
    <2> QED
      BY <2>1, <2>2, <1>5, RowWithTail
  <1>7. \A all \in {c, l, c \o e, l \o e} :
           /\ all \in Seq(S) /\ Row(way, a, b, all)
           /\ Pos(all) \subseteq Pos(c) \cup Pos(d) \cup Pos(e)
    BY <1>1, <1>3, <1>4, <1>6
  <1> QED
    BY <1>7 DEF l, Joinable

----------------------------------------------------------------------------
(***************************************************************************)
(* A hook that has sent bytes and consumed n atoms.  The slot is kept with *)
(* the context next, or reset as the stream is ended.                      *)
(***************************************************************************)
Sent(s, bytes) == out[resp[s].req] \o bytes

WayAfter(s, what, way) == Allows(events[resp[s].req] \cup what, way)

GoodBytes(s, bytes, n, what) ==
  /\ bytes \in Seq(ItemsOf(resp[s].req))
  /\ \A way \in Ways : WayAfter(s, what, way) => Chain(way, Sent(s, bytes))
  /\ UpTo(resp[s].fed + n, Pos(Sent(s, bytes)))
  /\ ~ reqs[resp[s].req].on =>
       /\ Positions(Sent(s, bytes)) = [i \in DOMAIN Sent(s, bytes) |-> i]
       /\ n = Len(bytes)

GoodNext(s, bytes, n, what, next) ==
  /\ next \in CtxOf(resp[s].req) /\ reqs[resp[s].req].on
  /\ Len(next.hold) <= HoldMax /\ Len(next.held) <= BufferMax
  /\ \A way \in Ways : WayAfter(s, what, way) => Orderly(way, Sent(s, bytes), next)
  /\ UpTo(resp[s].fed + n, Everything(Sent(s, bytes), next) \cup Pos(next.hold))

Hook(s, bytes, n, eof, buffered, what) ==
  /\ Live(s) /\ ends[resp[s].req] = 0
  /\ n \in Nat /\ eof \in BOOLEAN /\ buffered \in BOOLEAN /\ what \in SUBSET Events
  /\ UNCHANGED <<reqs, cache>> /\ fragment' \in BOOLEAN
  /\ GoodBytes(s, bytes, n, what)
  /\ Deliver(s, bytes) /\ Consumed(s, n, eof, buffered) /\ Happened(resp[s].req, what)
  /\ \/ /\ UNCHANGED ends
        /\ \E next : Keep(s, next) /\ (next = NoCtx \/ GoodNext(s, bytes, n, what, next))
     \/ End(s) /\ Reset /\ eof /\ ~ buffered

\* The atoms of a response are atoms.
LEMMA OwnItems ==
  ASSUME NEW q \in Requests
  PROVE  /\ Seq(ItemsOf(q)) \subseteq Seq(Items)
         /\ CtxOf(q) \subseteq Contexts /\ NoCtx \notin CtxOf(q)
  <1>1. ItemsOf(q) \subseteq Items
    BY DEF ItemsOf, Items, EveryKind
  <1>2. Seq(ItemsOf(q)) \subseteq Seq(Items)
    BY <1>1, SeqMonotonic
  <1>3. CtxOf(q) \subseteq Contexts
    BY <1>2 DEF CtxOf, Contexts
  <1>4. NoCtx \notin CtxOf(q)
    BY DEF CtxOf, NoCtx
  <1> QED
    BY <1>2, <1>3, <1>4

\* What is known of a live session.
LEMMA LiveFacts ==
  ASSUME Typed, NEW s \in Sessions, Live(s)
  PROVE  /\ resp[s].req \in 1 .. seq /\ resp[s].req \in Requests
         /\ seq \in Nat /\ resp[s].fed \in Nat
         /\ reqs[resp[s].req] \in Requested
         /\ resp[s].eof \in BOOLEAN /\ resp[s].buffered \in BOOLEAN
         /\ out[resp[s].req] \in Seq(ItemsOf(resp[s].req))
  <1>1. seq \in Nat /\ seq <= MaxRequests
    BY LenProperties DEF Typed, TypeOK, seq
  <1>2. resp[s] \in [req : 0 .. seq, fed : Nat, eof : BOOLEAN, buffered : BOOLEAN]
    BY DEF Typed, TypeOK
  <1>3. resp[s].req \in 1 .. seq /\ resp[s].req \in Requests
    BY <1>1, <1>2 DEF Live, Requests
  <1>4. reqs[resp[s].req] \in Requested
    BY <1>3, ElementOfSeq DEF Typed, seq
  <1> QED
    BY <1>1, <1>2, <1>3, <1>4 DEF Typed

\* A hook keeps the types, and each atom with its owner.
LEMMA HookTyped ==
  ASSUME EsiInv, NEW s \in Sessions, NEW bytes, NEW n, NEW eof, NEW buffered, NEW what,
         Hook(s, bytes, n, eof, buffered, what)
  PROVE  Typed'
  <1> DEFINE q == resp[s].req
  <1>1. /\ q \in 1 .. seq /\ q \in Requests /\ seq \in Nat /\ resp[s].fed \in Nat
        /\ out[q] \in Seq(ItemsOf(q))
    BY LiveFacts DEF EsiInv, Hook
  <1>2. /\ bytes \in Seq(ItemsOf(q)) /\ n \in Nat /\ eof \in BOOLEAN /\ buffered \in BOOLEAN
        /\ what \in SUBSET Events
    BY DEF Hook, GoodBytes
  <1>3. reqs' = reqs /\ cache' = cache /\ seq' = seq /\ fragment' \in BOOLEAN
    BY DEF Hook, seq
  <1>4. out[q] \o bytes \in Seq(ItemsOf(q))
    BY <1>1, <1>2, ConcatParts
  <1>5. out' = [out EXCEPT ![q] = out[q] \o bytes]
    BY DEF Hook, Deliver
  <1>6. \A p \in Requests : out[p] \in Seq(ItemsOf(p))
    BY DEF EsiInv, Typed
  <1>7. out \in [Requests -> Seq(Items)]
    BY DEF EsiInv, Typed, TypeOK
  <1>8. \A p \in Requests : out'[p] \in Seq(ItemsOf(p))
    BY <1>1, <1>4, <1>5, <1>6, <1>7
  <1>9. out' \in [Requests -> Seq(Items)]
    <2>1. out[q] \o bytes \in Seq(Items)
      BY <1>1, <1>4, OwnItems
    <2> QED
      BY <1>1, <1>5, <1>7, <2>1
  <1>10. resp' \in [Sessions -> [req : 0 .. seq, fed : Nat, eof : BOOLEAN, buffered : BOOLEAN]]
    <2>1. resp \in [Sessions -> [req : 0 .. seq, fed : Nat, eof : BOOLEAN, buffered : BOOLEAN]]
      BY DEF EsiInv, Typed, TypeOK
    <2>2. resp' = [resp EXCEPT ![s].fed = resp[s].fed + n, ![s].eof = eof, ![s].buffered = buffered]
      BY DEF Hook, Consumed
    <2>3. resp[s].fed + n \in Nat
      BY <1>1, <1>2
    <2> QED
      BY <1>2, <2>1, <2>2, <2>3, ZenonT(30)
  <1>11. events' \in [Requests -> SUBSET Events]
    <2>1. events \in [Requests -> SUBSET Events]
      BY DEF EsiInv, Typed, TypeOK
    <2>2. events' = [events EXCEPT ![q] = events[q] \cup what]
      BY DEF Hook, Happened
    <2> QED
      BY <1>1, <1>2, <2>1, <2>2
  <1>12. ends \in [Requests -> Nat]
    BY DEF EsiInv, Typed, TypeOK
  <1>13. /\ ends' \in [Requests -> Nat]
         /\ slot' \in [session : Sessions \cup {NoSession}, req : 0 .. seq,
                       ctx : Contexts \cup {NoCtx}]
         /\ slot'.ctx # NoCtx => Len(slot'.ctx.hold) <= HoldMax /\ Len(slot'.ctx.held) <= BufferMax
    <2>1. CASE /\ UNCHANGED ends
               /\ \E next : Keep(s, next) /\ (next = NoCtx \/ GoodNext(s, bytes, n, what, next))
      <3>1. PICK next : /\ slot' = [session |-> s, req |-> seq, ctx |-> next]
                        /\ next = NoCtx \/ GoodNext(s, bytes, n, what, next)
        BY <2>1 DEF Keep
      <3>2. next \in Contexts \cup {NoCtx}
        BY <1>1, <3>1, OwnItems DEF GoodNext
      <3>3. slot' \in [session : Sessions \cup {NoSession}, req : 0 .. seq,
                       ctx : Contexts \cup {NoCtx}]
        BY <1>1, <3>1, <3>2
      <3>4. slot'.ctx = next
        BY <3>1
      <3> QED
        BY <1>12, <2>1, <3>1, <3>3, <3>4 DEF GoodNext
    <2>2. CASE End(s) /\ Reset
      <3>1. ends' = [ends EXCEPT ![q] = ends[q] + 1] /\ slot' = NoSlot
        BY <2>2 DEF End, Reset
      <3>2. slot' \in [session : Sessions \cup {NoSession}, req : 0 .. seq,
                       ctx : Contexts \cup {NoCtx}]
        BY <1>1, <3>1 DEF NoSlot
      <3>3. slot'.ctx = NoCtx
        BY <3>1 DEF NoSlot
      <3> QED
        BY <1>1, <1>12, <3>1, <3>2, <3>3
    <2> QED
      BY <2>1, <2>2 DEF Hook
  <1>14. TypeOK'
    BY <1>3, <1>9, <1>10, <1>11, <1>13 DEF EsiInv, Typed, TypeOK
  <1> QED
    BY <1>3, <1>8, <1>14 DEF EsiInv, Typed

\* What a hook changes, of its own response and of the others.
LEMMA HookFrame ==
  ASSUME EsiInv, NEW s \in Sessions, NEW bytes, NEW n, NEW eof, NEW buffered, NEW what,
         Hook(s, bytes, n, eof, buffered, what)
  PROVE  /\ \A t \in Sessions : resp'[t].req = resp[t].req /\ (t # s => resp'[t] = resp[t])
         /\ resp'[s].fed = resp[s].fed + n /\ resp'[s].eof = eof /\ resp'[s].buffered = buffered
         /\ out'[resp[s].req] = Sent(s, bytes)
         /\ events'[resp[s].req] = events[resp[s].req] \cup what
         /\ \A p \in Requests : p # resp[s].req =>
              out'[p] = out[p] /\ events'[p] = events[p] /\ ends'[p] = ends[p]
         /\ reqs' = reqs /\ seq' = seq /\ cache' = cache
         /\ \A t \in Sessions : Live(t)' <=> Live(t)
         /\ \A t \in Sessions : SlotIsFor(t)' => t = s
         /\ \A t \in Sessions : Filtered(t)' =>
              t = s /\ GoodNext(s, bytes, n, what, slot'.ctx)
         /\ ends'[resp[s].req] > 0 => eof /\ ~ buffered /\ ~ Filtered(s)'
  <1> DEFINE q == resp[s].req
  <1>1. /\ q \in 1 .. seq /\ q \in Requests /\ seq \in Nat
    BY LiveFacts DEF EsiInv, Hook
  <1>2. /\ out \in [Requests -> Seq(Items)] /\ ends \in [Requests -> Nat]
        /\ events \in [Requests -> SUBSET Events]
        /\ resp \in [Sessions -> [req : 0 .. seq, fed : Nat, eof : BOOLEAN, buffered : BOOLEAN]]
    BY DEF EsiInv, Typed, TypeOK
  <1>3. resp' = [resp EXCEPT ![s].fed = resp[s].fed + n, ![s].eof = eof, ![s].buffered = buffered]
    BY DEF Hook, Consumed
  <1>4. /\ \A t \in Sessions : resp'[t].req = resp[t].req /\ (t # s => resp'[t] = resp[t])
        /\ resp'[s].fed = resp[s].fed + n /\ resp'[s].eof = eof /\ resp'[s].buffered = buffered
    BY <1>2, <1>3
  <1>5. /\ out' = [out EXCEPT ![q] = out[q] \o bytes]
        /\ events' = [events EXCEPT ![q] = events[q] \cup what]
    BY DEF Hook, Deliver, Happened
  <1>6. /\ out'[q] = Sent(s, bytes) /\ events'[q] = events[q] \cup what
        /\ \A p \in Requests : p # q => out'[p] = out[p] /\ events'[p] = events[p]
    BY <1>1, <1>2, <1>5 DEF Sent
  <1>7. reqs' = reqs /\ seq' = seq /\ cache' = cache
    BY DEF Hook, seq
  <1>8. \A t \in Sessions : Live(t)' <=> Live(t)
    BY <1>4 DEF Live
  <1>9. NoSession \notin Sessions
    OBVIOUS
  <1>10. CASE /\ UNCHANGED ends
              /\ \E next : Keep(s, next) /\ (next = NoCtx \/ GoodNext(s, bytes, n, what, next))
    <2>1. PICK next : /\ slot' = [session |-> s, req |-> seq, ctx |-> next]
                      /\ next = NoCtx \/ GoodNext(s, bytes, n, what, next)
      BY <1>10 DEF Keep
    <2>2. slot'.session = s /\ slot'.ctx = next
      BY <2>1
    <2>3. \A t \in Sessions : SlotIsFor(t)' => t = s
      BY <2>2 DEF SlotIsFor
    <2>4. \A t \in Sessions : Filtered(t)' => t = s /\ GoodNext(s, bytes, n, what, slot'.ctx)
      BY <2>1, <2>2, <2>3 DEF Filtered
    <2>5. ends' = ends /\ ends[q] = 0
      BY <1>10 DEF Hook
    <2> QED
      BY <1>4, <1>6, <1>7, <1>8, <2>3, <2>4, <2>5
  <1>11. CASE End(s) /\ Reset /\ eof /\ ~ buffered
    <2>1. slot'.session = NoSession
      BY <1>11 DEF Reset, NoSlot
    <2>2. \A t \in Sessions : ~ SlotIsFor(t)'
      BY <1>9, <2>1 DEF SlotIsFor
    <2>3. \A t \in Sessions : ~ Filtered(t)'
      BY <2>2 DEF Filtered
    <2>4. ends' = [ends EXCEPT ![q] = ends[q] + 1]
      BY <1>11 DEF End
    <2>5. \A p \in Requests : p # q => ends'[p] = ends[p]
      BY <1>2, <2>4
    <2> QED
      BY <1>4, <1>6, <1>7, <1>8, <1>11, <2>2, <2>3, <2>5
  <1> QED
    BY <1>10, <1>11 DEF Hook

\* A hook preserves the invariant.
LEMMA HookInv ==
  ASSUME EsiInv, NEW s \in Sessions, NEW bytes, NEW n, NEW eof, NEW buffered, NEW what,
         Hook(s, bytes, n, eof, buffered, what)
  PROVE  EsiInv'
  <1> DEFINE q == resp[s].req
  <1>1. /\ q \in 1 .. seq /\ q \in Requests /\ seq \in Nat /\ resp[s].fed \in Nat
        /\ Live(s) /\ ends[q] = 0
    BY LiveFacts DEF EsiInv, Hook
  <1>2. \A t \in Sessions : resp'[t].req = resp[t].req /\ (t # s => resp'[t] = resp[t])
    BY HookFrame
  <1>3. resp'[s].fed = resp[s].fed + n /\ resp'[s].eof = eof /\ resp'[s].buffered = buffered
    BY HookFrame
  <1>4. out'[q] = Sent(s, bytes) /\ events'[q] = events[q] \cup what
    BY HookFrame
  <1>5. \A p \in Requests : p # q =>
              out'[p] = out[p] /\ events'[p] = events[p] /\ ends'[p] = ends[p]
    BY HookFrame
  <1>6. reqs' = reqs /\ seq' = seq /\ cache' = cache
    BY HookFrame
  <1>7. \A t \in Sessions : Live(t)' <=> Live(t)
    BY HookFrame
  <1>8. /\ \A t \in Sessions : SlotIsFor(t)' => t = s
        /\ \A t \in Sessions : Filtered(t)' =>
             t = s /\ GoodNext(s, bytes, n, what, slot'.ctx)
    BY HookFrame
  <1>9. ends'[q] > 0 => eof /\ ~ buffered /\ ~ Filtered(s)'
    BY HookFrame
  <1>10. GoodBytes(s, bytes, n, what)
    BY DEF Hook
  <1>11. \A t \in Sessions : Live(t) => resp[t].req \in Requests /\ (t # s => resp[t].req # q)
    BY <1>1, LiveFacts DEF EsiInv, Fresh
  <1>12. Typed'
    BY HookTyped
  <1>13. Fresh'
    BY <1>1, <1>2, <1>5, <1>6, <1>7 DEF EsiInv, Fresh
  <1>14. Owned'
    <2>1. \A t \in Sessions : Filtered(t)' => slot'.ctx \in CtxOf(resp'[t].req) /\ reqs'[resp'[t].req].on
      BY <1>2, <1>6, <1>8 DEF GoodNext
    <2> QED
      BY <1>1, <1>2, <1>6, <1>7, <1>8, <2>1 DEF EsiInv, Owned
  <1>15. \A way : Allows(events'[q], way) <=> WayAfter(s, what, way)
    BY <1>4 DEF WayAfter
  <1>16. InOrderSoFar'
    <2>1. ASSUME NEW p \in Requests, NEW way \in Ways, Allows(events'[p], way)
          PROVE  Chain(way, out'[p])
      <3>1. CASE p = q
        BY <1>4, <1>10, <1>15, <2>1, <3>1 DEF GoodBytes
      <3>2. CASE p # q
        BY <1>5, <2>1, <3>2 DEF EsiInv, InOrderSoFar
      <3> QED
        BY <3>1, <3>2
    <2>2. \A t \in Sessions : Live(t)' => UpTo(resp'[t].fed, Pos(out'[resp'[t].req]))
      <3> TAKE t \in Sessions
      <3>1. CASE t = s
        BY <1>2, <1>3, <1>4, <1>10, <3>1 DEF GoodBytes
      <3>2. CASE t # s
        BY <1>2, <1>5, <1>7, <1>11, <3>2 DEF EsiInv, InOrderSoFar
      <3> QED
        BY <3>1, <3>2
    <2>3. ASSUME NEW t \in Sessions, Filtered(t)'
          PROVE  /\ \A way \in Ways :
                      Allows(events'[resp'[t].req], way) => Orderly(way, out'[resp'[t].req], slot'.ctx)
                 /\ UpTo(resp'[t].fed, Everything(out'[resp'[t].req], slot'.ctx) \cup Pos(slot'.ctx.hold))
      <3>1. t = s /\ GoodNext(s, bytes, n, what, slot'.ctx) /\ resp'[t].req = q
        BY <1>2, <1>8, <2>3
      <3>2. \A way \in Ways : Allows(events'[q], way) => Orderly(way, out'[q], slot'.ctx)
        BY <1>1, <1>4, <1>15, <3>1 DEF GoodNext
      <3>3. UpTo(resp'[t].fed, Everything(out'[q], slot'.ctx) \cup Pos(slot'.ctx.hold))
        BY <1>3, <1>4, <3>1 DEF GoodNext
      <3> QED
        BY <3>1, <3>2, <3>3
    <2> QED
      BY <2>1, <2>2, <2>3 DEF InOrderSoFar
  <1>17. Untouched'
    <2>1. \A p \in Requests : p <= seq /\ ~ reqs[p].on => Positions(out'[p]) = [i \in DOMAIN out'[p] |-> i]
      BY <1>4, <1>5, <1>10 DEF EsiInv, Untouched, GoodBytes
    <2>2. ASSUME NEW t \in Sessions, Live(t), ~ reqs[resp[t].req].on
          PROVE  resp'[t].fed = Len(out'[resp[t].req])
      <3>1. CASE t = s
        <4>1. n = Len(bytes) /\ bytes \in Seq(ItemsOf(q)) /\ out[q] \in Seq(ItemsOf(q))
          BY <1>10, <2>2, <3>1, LiveFacts DEF GoodBytes, EsiInv
        <4>2. Len(Sent(s, bytes)) = Len(out[q]) + Len(bytes)
          BY <4>1, ConcatParts DEF Sent
        <4>3. resp[s].fed = Len(out[q])
          BY <2>2, <3>1 DEF EsiInv, Untouched
        <4> QED
          BY <1>3, <1>4, <3>1, <4>1, <4>2, <4>3
      <3>2. CASE t # s
        BY <1>2, <1>5, <1>11, <2>2, <3>2 DEF EsiInv, Untouched
      <3> QED
        BY <3>1, <3>2
    <2> QED
      BY <1>2, <1>6, <1>7, <2>1, <2>2 DEF Untouched
  <1>18. Ended'
    <2>1. ASSUME NEW t \in Sessions, Live(t), ends'[resp[t].req] > 0
          PROVE  resp'[t].eof /\ ~ resp'[t].buffered /\ ~ Filtered(t)'
      <3>1. CASE t = s
        BY <1>3, <1>9, <2>1, <3>1
      <3>2. CASE t # s
        BY <1>2, <1>5, <1>8, <1>11, <2>1, <3>2 DEF EsiInv, Ended
      <3> QED
        BY <3>1, <3>2
    <2> QED
      BY <1>2, <1>7, <2>1 DEF Ended
  <1> QED
    BY <1>12, <1>13, <1>14, <1>16, <1>17, <1>18 DEF EsiInv

\* The flag is a flag.
LEMMA FragmentType ==
  ASSUME Typed, NEW s \in Sessions
  PROVE  FragmentSeen(s) \in BOOLEAN
  <1>1. fragment \in BOOLEAN
    BY DEF Typed, TypeOK
  <1> QED
    BY <1>1 DEF FragmentSeen

\* A call of the body hook: nothing has ended, and the chunk is the part of the
\* page that comes next.
LEMMA ReceivesFacts ==
  ASSUME EsiInv, NEW s \in Sessions, NEW n \in Nat, NEW eof, Receives(s, n, eof),
         NEW x, x = Chunk(s, n)
  PROVE  /\ Live(s) /\ ends[resp[s].req] = 0
         /\ UNCHANGED <<reqs, cache>> /\ fragment' \in BOOLEAN
         /\ x \in Seq(ItemsOf(resp[s].req)) /\ Len(x) = n
         /\ \A i \in 1 .. n : x[i].pos = resp[s].fed + i
         /\ Chain("order", x)
         /\ \A y \in Pos(x) : resp[s].fed < y /\ y <= resp[s].fed + n
  <1> DEFINE q == resp[s].req
             f == resp[s].fed
  <1>1. Live(s)
    BY DEF Receives
  <1>2. /\ q \in Requests /\ f \in Nat /\ reqs[q] \in Requested
    BY <1>1, LiveFacts DEF EsiInv
  <1>3. ends[q] = 0
    <2>1. ends[q] \in Nat
      BY <1>2 DEF EsiInv, Typed, TypeOK
    <2>2. ends[q] > 0 => resp[s].eof /\ ~ resp[s].buffered
      BY <1>1 DEF EsiInv, Ended
    <2>3. resp[s].eof => resp[s].buffered
      BY DEF Receives
    <2> QED
      BY <2>1, <2>2, <2>3
  <1>4. UNCHANGED <<reqs, cache>> /\ fragment' \in BOOLEAN
    BY FragmentType DEF Receives, EsiInv
  <1> DEFINE page == reqs[q].page
  <1>5. page \in Seq(Kinds) /\ f + n <= Len(page)
    BY <1>2 DEF Requested, Receives, PageLength
  <1>6. x = [i \in 1 .. n |-> [req |-> q, pos |-> f + i, kind |-> page[f + i]]]
    <2>1. f + n - (f + 1) + 1 = n /\ \A i \in 1 .. n : f + 1 + i - 1 = f + i
      BY <1>2
    <2> QED
      BY <1>2, <2>1 DEF Chunk, Atoms
  <1> HIDE DEF f, page
  <1>7. \A i \in 1 .. n : page[f + i] \in Kinds
    <2> TAKE i \in 1 .. n
    <2>1. Len(page) \in Nat /\ f + i \in 1 .. Len(page)
      BY <1>2, <1>5, LenProperties
    <2> QED
      BY <1>5, <2>1, ElementOfSeq
  <1>8. \A i \in 1 .. n :
          /\ x[i].pos = f + i
          /\ x[i] \in ItemsOf(q)
    <2> TAKE i \in 1 .. n
    <2>1. x[i] = [req |-> q, pos |-> f + i, kind |-> page[f + i]]
      BY <1>6
    <2>2. f + i \in Nat /\ page[f + i] \in EveryKind
      BY <1>2, <1>7 DEF EveryKind
    <2> QED
      BY <2>1, <2>2 DEF ItemsOf
  <1>9. x \in Seq(ItemsOf(q)) /\ Len(x) = n /\ DOMAIN x = 1 .. n
    BY <1>6, <1>8
  <1>10. Chain("order", x)
    BY <1>2, <1>8, <1>9 DEF Chain
  <1>11. \A y \in Pos(x) : f < y /\ y <= f + n
    BY <1>2, <1>8, <1>9 DEF Pos
  <1> QED
    BY <1>1, <1>3, <1>4, <1>8, <1>9, <1>10, <1>11 DEF f

\* The context a hook finds, or begins with.
LEMMA ContextGood ==
  ASSUME EsiInv, NEW s \in Sessions, Live(s), Filters(s)
  PROVE  /\ Context(s) \in CtxOf(resp[s].req) /\ reqs[resp[s].req].on
         /\ Len(Context(s).hold) <= HoldMax /\ Len(Context(s).held) <= BufferMax
         /\ \A way \in Ways : Allows(events[resp[s].req], way) =>
              Orderly(way, out[resp[s].req], Context(s))
         /\ UpTo(resp[s].fed,
                 Everything(out[resp[s].req], Context(s)) \cup Pos(Context(s).hold))
  <1> DEFINE q == resp[s].req
  <1>1. CASE SlotIsFor(s)
    <2>1. Context(s) = slot.ctx /\ Filtered(s)
      BY <1>1 DEF Context, Filters, Filtered
    <2>2. slot.ctx \in CtxOf(q) /\ reqs[q].on
      BY <2>1 DEF EsiInv, Owned
    <2>3. Len(slot.ctx.hold) <= HoldMax /\ Len(slot.ctx.held) <= BufferMax
      BY <2>1 DEF EsiInv, Typed, TypeOK, Filtered
    <2>4. /\ \A way \in Ways : Allows(events[q], way) => Orderly(way, out[q], slot.ctx)
          /\ UpTo(resp[s].fed, Everything(out[q], slot.ctx) \cup Pos(slot.ctx.hold))
      BY <2>1 DEF EsiInv, InOrderSoFar
    <2> QED
      BY <2>1, <2>2, <2>3, <2>4
  <1>2. CASE ~ SlotIsFor(s)
    <2>1. Gate(s) /\ Context(s) = NewCtx(FragmentSeen(s))
      BY <1>2 DEF Context, Filters
    <2> DEFINE c == Context(s)
    <2>2. /\ c.mode = "pass" /\ c.hold = <<>> /\ c.parked = <<>> /\ c.held = <<>>
          /\ c.holding = FALSE
      BY <2>1 DEF NewCtx
    <2>3. c \in CtxOf(q)
      BY <2>1, EmptySeq, FragmentType DEF NewCtx, CtxOf, EsiInv
    <2>4. reqs[q].on
      BY <2>1 DEF Gate, CacheIsFor, EsiInv, Owned
    <2> HIDE DEF c
    <2>5. Len(c.hold) <= HoldMax /\ Len(c.held) <= BufferMax
      BY <2>2, EmptySeq
    <2>6. q \in Requests
      BY LiveFacts DEF EsiInv
    <2>7. Pos(<<>>) = {} /\ \A way \in Ways : Chain(way, <<>>)
      BY ChainEmpty, TwoWays
    <2>8. /\ \A way \in Ways : Allows(events[q], way) => Chain(way, out[q])
          /\ UpTo(resp[s].fed, Pos(out[q]))
      BY <2>6 DEF EsiInv, InOrderSoFar
    <2>9. \A way \in Ways : Allows(events[q], way) => Orderly(way, out[q], c)
      BY <2>2, <2>7, <2>8, TwoWays DEF Orderly, Row, Everything, Link
    <2>10. Everything(out[q], c) \cup Pos(c.hold) = Pos(out[q])
      BY <2>2, <2>7 DEF Everything
    <2> QED
      BY <2>3, <2>4, <2>5, <2>8, <2>9, <2>10 DEF c
  <1> QED
    BY <1>1, <1>2

(***************************************************************************)
(* p is what the filter with context c makes of the next n atoms: the      *)
(* output and the new partial tag come after everything sent and kept, and *)
(* are of what has been handed over.                                       *)
(***************************************************************************)
GoodOutput(s, n, c, p) ==
  LET q == resp[s].req
      a == out[q]
  IN  /\ Ctx(p) \in CtxOf(q) /\ p.out \in Seq(ItemsOf(q))
      /\ p.held = c.held /\ p.parked = <<>> /\ (c.holding => p.holding)
      /\ Len(p.hold) <= HoldMax /\ p.last \in EveryKind \cup {"long"}
      /\ \A way \in Ways : Allows(events[q], way) =>
           /\ Five(way, a, c.parked, c.held, p.out, p.hold)
           /\ way = "order" /\ ~ c.holding => c.held = <<>>
      /\ UpTo(resp[s].fed + n, Everything(a, c) \cup Pos(p.out) \cup Pos(p.hold))

\* So it is in every call that processes its chunk.
LEMMA ProcessedGood ==
  ASSUME EsiInv, NEW s \in Sessions, NEW n \in Nat, NEW eof, NEW room,
         Filtering(s, n, eof, room)
  PROVE  GoodOutput(s, n, Context(s), Processed(s, n))
  <1> DEFINE q == resp[s].req
             a == out[q]
             c == Context(s)
             p == Processed(s, n)
             f == resp[s].fed
             x == Chunk(s, n)
             d == [c EXCEPT !.parked = <<>>]
             data == c.hold \o x
  <1>1. Receives(s, n, eof) /\ Filters(s)
    BY DEF Filtering
  <1>2. /\ Live(s) /\ x \in Seq(ItemsOf(q)) /\ Chain("order", x)
        /\ \A y \in Pos(x) : f < y /\ y <= f + n
    BY <1>1, ReceivesFacts
  <1>3. /\ c \in CtxOf(q) /\ Len(c.held) <= BufferMax
        /\ \A way \in Ways : Allows(events[q], way) => Orderly(way, a, c)
        /\ UpTo(f, Everything(a, c) \cup Pos(c.hold))
    BY <1>1, <1>2, ContextGood
  <1>4. /\ q \in Requests /\ f \in Nat /\ a \in Seq(ItemsOf(q))
    BY <1>2, LiveFacts DEF EsiInv
  <1>5. \A y \in Seq(ItemsOf(q)) : Pos(y) \subseteq Nat
    <2> TAKE y \in Seq(ItemsOf(q))
    <2>1. DOMAIN y = 1 .. Len(y) /\ \A i \in 1 .. Len(y) : y[i] \in ItemsOf(q)
      BY LenProperties, ElementOfSeq
    <2> QED
      BY <2>1 DEF Pos, ItemsOf
  <1>6. c.hold \in Seq(ItemsOf(q)) /\ c.parked \in Seq(ItemsOf(q)) /\ c.held \in Seq(ItemsOf(q))
    BY <1>3 DEF CtxOf
  <1>7. /\ d \in CtxOf(q) /\ d.parked = <<>> /\ d.held = c.held /\ d.hold = c.hold
        /\ d.holding = c.holding
    BY <1>3, EmptySeq DEF CtxOf
  <1>8. Allows(events[q], "once")
    BY DEF Allows
  <1>9. Orderly("once", a, c)
    BY <1>3, <1>8, TwoWays
  <1>10. /\ Chain("order", c.hold) /\ Link("order", Everything(a, c), Pos(c.hold))
    BY <1>9 DEF Orderly
  <1>11. p = Scan(d, data)
    BY <1>7 DEF Processed, Process
  <1> HIDE DEF x, d, f, a, c, p
  <1>12. Pos(a) \subseteq Nat /\ Pos(c.parked) \subseteq Nat /\ Pos(c.held) \subseteq Nat
         /\ Pos(c.hold) \subseteq Nat /\ Pos(x) \subseteq Nat
    BY <1>2, <1>4, <1>5, <1>6
  <1>13. Link("order", Pos(c.hold), Pos(x)) /\ Link("order", Everything(a, c), Pos(x))
    BY <1>2, <1>3, <1>4, <1>12 DEF Link, UpTo, Everything
  <1>14. /\ data \in Seq(ItemsOf(q)) /\ Chain("order", data)
         /\ Pos(data) = Pos(c.hold) \cup Pos(x)
    BY <1>2, <1>6, <1>10, <1>13, TwoWays, ChainConcat, PosConcat, ConcatParts
  <1> HIDE DEF data
  <1>15. /\ p \in Scanning(q, d) /\ Len(p.hold) <= HoldMax
         /\ Chain("order", p.out \o p.hold)
         /\ Pos(p.out \o p.hold) \subseteq Pos(data)
    BY <1>7, <1>11, <1>14, ScanOrder
  <1>16. /\ p.hold \in Seq(ItemsOf(q)) /\ p.out \in Seq(ItemsOf(q))
         /\ p.held = c.held /\ p.parked = <<>> /\ (c.holding => p.holding)
         /\ p.last \in EveryKind \cup {"long"}
    BY <1>7, <1>15 DEF Scanning
  <1>17. Ctx(p) \in CtxOf(q)
    BY <1>6, <1>15, <1>16, EmptySeq DEF Ctx, CtxOf, Scanning
  <1>18. /\ Chain("order", p.out) /\ Chain("order", p.hold)
         /\ Link("order", Pos(p.out), Pos(p.hold))
         /\ Pos(p.out) \cup Pos(p.hold) \subseteq Pos(c.hold) \cup Pos(x)
    <2> DEFINE o == p.out
               h == p.hold
    <2>1. o \in Seq(ItemsOf(q)) /\ h \in Seq(ItemsOf(q)) /\ Chain("order", o \o h)
      BY <1>15, <1>16
    <2>2. Pos(o \o h) \subseteq Pos(c.hold) \cup Pos(x)
      BY <1>14, <1>15
    <2> HIDE DEF o, h
    <2>3. /\ Chain("order", o) /\ Chain("order", h) /\ Link("order", Pos(o), Pos(h))
      BY <2>1, TwoWays, ChainConcat
    <2>4. Pos(o) \cup Pos(h) \subseteq Pos(c.hold) \cup Pos(x)
      BY <2>1, <2>2, PosConcat
    <2> QED
      BY <2>3, <2>4 DEF o, h
  <1>19. Link("order", Everything(a, c), Pos(p.out) \cup Pos(p.hold))
    BY <1>10, <1>13, <1>18 DEF Link
  <1>20. \A way \in Ways : Allows(events[q], way) =>
              /\ Five(way, a, c.parked, c.held, p.out, p.hold)
              /\ way = "order" /\ ~ c.holding => c.held = <<>>
    BY <1>3, <1>18, <1>19 DEF Orderly, Five, Everything
  <1>21. UpTo(f + n, Everything(a, c) \cup Pos(p.out) \cup Pos(p.hold))
    <2>1. \A y \in Everything(a, c) \cup Pos(c.hold) : y \in Nat /\ y <= f + n
      BY <1>3, <1>4, <1>12 DEF UpTo, Everything
    <2> QED
      BY <1>2, <1>18, <2>1 DEF UpTo
  <1> QED
    BY <1>15, <1>16, <1>17, <1>20, <1>21 DEF GoodOutput, f, a, c, p

----------------------------------------------------------------------------
(***************************************************************************)
(* Every hook preserves the invariant.                                     *)
(***************************************************************************)

\* The elements that are taken.
LEMMA TakeElements ==
  ASSUME NEW S, NEW s \in Seq(S), NEW n \in Nat
  PROVE  /\ Len(Take(n, s)) \in Nat /\ Len(Take(n, s)) <= Len(s)
         /\ \A i \in 1 .. Len(Take(n, s)) : Take(n, s)[i] = s[i]
  <1> DEFINE t == Take(n, s)
             d == Drop(n, s)
  <1>1. t \in Seq(S) /\ d \in Seq(S) /\ s = t \o d
    BY TakeDrop
  <1> HIDE DEF t, d
  <1>2. /\ Len(t \o d) = Len(t) + Len(d) /\ Len(t) \in Nat /\ Len(d) \in Nat
        /\ \A i \in 1 .. Len(t) : (t \o d)[i] = t[i]
    BY <1>1, ConcatParts
  <1>3. /\ Len(s) = Len(t) + Len(d)
        /\ \A i \in 1 .. Len(t) : s[i] = t[i]
    BY <1>1, <1>2
  <1>4. Len(t) \in Nat /\ Len(t) <= Len(s) /\ \A i \in 1 .. Len(t) : t[i] = s[i]
    BY <1>2, <1>3
  <1> QED
    BY <1>4 DEF t

\* Bypass: what is consumed is what is sent.
LEMMA ForwardInv ==
  ASSUME EsiInv, NEW s \in Sessions, NEW n \in Nat, NEW eof \in BOOLEAN, NEW room \in Nat,
         Forward(s, n, eof, room)
  PROVE  EsiInv'
  <1> DEFINE q == resp[s].req
             f == resp[s].fed
             a == out[q]
             x == Chunk(s, n)
             b == Take(room, x)
  <1>1. Receives(s, n, eof)
    BY DEF Forward
  <1>2. /\ Live(s) /\ ends[q] = 0 /\ UNCHANGED <<reqs, cache>> /\ fragment' \in BOOLEAN
        /\ x \in Seq(ItemsOf(q)) /\ Len(x) = n /\ Chain("order", x)
        /\ \A i \in 1 .. n : x[i].pos = f + i
        /\ \A y \in Pos(x) : f < y
    BY <1>1, ReceivesFacts
  <1>3. q \in Requests /\ f \in Nat /\ a \in Seq(ItemsOf(q)) /\ q <= seq
    BY <1>2, LiveFacts DEF EsiInv
  <1>4. /\ \A way \in Ways : Allows(events[q], way) => Chain(way, a)
        /\ UpTo(f, Pos(a))
    BY <1>2, <1>3 DEF EsiInv, InOrderSoFar
  <1>5. /\ b \in Seq(ItemsOf(q)) /\ Len(b) \in Nat /\ Len(b) <= n
        /\ \A i \in 1 .. Len(b) : b[i].pos = f + i
    <2> HIDE DEF x
    <2>1. b \in Seq(ItemsOf(q))
      BY <1>2, TakeDrop
    <2>2. Len(b) \in Nat /\ Len(b) <= n /\ \A i \in 1 .. Len(b) : b[i] = x[i]
      BY <1>2, TakeElements
    <2> QED
      BY <1>2, <2>1, <2>2
  <1>6. DOMAIN a = 1 .. Len(a) /\ Len(a) \in Nat /\ \A i \in 1 .. Len(a) : a[i].pos \in Nat
    <2>1. DOMAIN a = 1 .. Len(a) /\ Len(a) \in Nat /\ \A i \in 1 .. Len(a) : a[i] \in ItemsOf(q)
      BY <1>3, LenProperties, ElementOfSeq
    <2> QED
      BY <2>1 DEF ItemsOf
  <1> HIDE DEF x, b, f, a
  <1>7. \A y \in Pos(a) : y \in Nat /\ y <= f
    BY <1>4, <1>6 DEF Pos, UpTo
  <1>8. \A y \in Pos(b) : y \in Nat /\ f < y /\ y <= f + Len(b)
    <2>1. DOMAIN b = 1 .. Len(b)
      BY <1>5, LenProperties
    <2> QED
      BY <1>3, <1>5, <2>1 DEF Pos
  <1>9. Chain("order", b) /\ Link("order", Pos(a), Pos(b))
    <2>1. DOMAIN b = 1 .. Len(b)
      BY <1>5, LenProperties
    <2>2. Chain("order", b)
      BY <1>3, <1>5, <2>1 DEF Chain
    <2> QED
      BY <1>3, <1>5, <1>7, <1>8, <2>2 DEF Link
  <1>10. \A way \in Ways : Allows(events[q], way) => Chain(way, a \o b)
    <2> TAKE way \in Ways
    <2> HAVE Allows(events[q], way)
    <2>1. Chain(way, a) /\ Chain(way, b) /\ Link(way, Pos(a), Pos(b))
      BY <1>4, <1>9, OrderIsOnce
    <2> QED
      BY <1>3, <1>5, <2>1, ChainConcat
  <1>11. UpTo(f + Len(b), Pos(a \o b))
    <2>1. Pos(a \o b) = Pos(a) \cup Pos(b)
      BY <1>3, <1>5, PosConcat
    <2> QED
      BY <1>3, <1>5, <1>7, <1>8, <2>1 DEF UpTo
  <1>12. ASSUME ~ reqs[q].on
         PROVE  Positions(a \o b) = [i \in DOMAIN (a \o b) |-> i]
    <2>1. /\ Positions(a) = [i \in DOMAIN a |-> i]
          /\ f = Len(a)
      BY <1>2, <1>3, <1>12 DEF EsiInv, Untouched, a, f
    <2>2. /\ DOMAIN (a \o b) = 1 .. Len(a) + Len(b)
          /\ \A i \in 1 .. Len(a) : (a \o b)[i] = a[i]
          /\ \A i \in 1 .. Len(b) : (a \o b)[Len(a) + i] = b[i]
      BY <1>3, <1>5, ConcatParts
    <2>3. \A i \in 1 .. Len(a) : a[i].pos = i
      BY <1>6, <2>1 DEF Positions
    <2>4. ASSUME NEW i \in 1 .. Len(a) + Len(b) PROVE (a \o b)[i].pos = i
      <3>1. CASE i <= Len(a)
        <4>1. i \in 1 .. Len(a)
          BY <1>6, <3>1
        <4> QED
          BY <2>2, <2>3, <4>1
      <3>2. CASE i > Len(a)
        <4>1. i - Len(a) \in 1 .. Len(b) /\ Len(a) + (i - Len(a)) = i
          BY <1>5, <1>6, <3>2
        <4>2. (a \o b)[i] = b[i - Len(a)]
          BY <2>2, <4>1
        <4> QED
          BY <1>5, <2>1, <4>1, <4>2
      <3>3. i <= Len(a) \/ i > Len(a)
        BY <1>5, <1>6
      <3> QED
        BY <3>1, <3>2, <3>3
    <2> QED
      BY <2>2, <2>4 DEF Positions
  <1>13. GoodBytes(s, b, Len(b), {})
    <2>1. events[q] \cup {} = events[q]
      OBVIOUS
    <2>2. Sent(s, b) = a \o b
      BY DEF Sent, a
    <2> QED
      BY <1>5, <1>10, <1>11, <1>12, <2>1, <2>2 DEF GoodBytes, WayAfter, f
  <1>14. /\ Deliver(s, b) /\ Consumed(s, Len(b), eof /\ Len(b) = n, FALSE)
         /\ Keep(s, NoCtx) /\ UNCHANGED <<ends, events>>
    BY DEF Forward, b, x
  <1>15. Happened(q, {})
    <2>1. events \in [Requests -> SUBSET Events]
      BY DEF EsiInv, Typed, TypeOK
    <2>2. events' = events
      BY <1>14
    <2> QED
      BY <1>3, <2>1, <2>2 DEF Happened
  <1>16. Hook(s, b, Len(b), eof /\ Len(b) = n, FALSE, {})
    BY <1>2, <1>5, <1>13, <1>14, <1>15 DEF Hook
  <1> QED
    BY <1>16, HookInv

\* The network still does not take what is parked: no more is processed.
LEMMA StillBlockedInv ==
  ASSUME EsiInv, NEW s \in Sessions, NEW n \in Nat, NEW eof \in BOOLEAN, NEW room \in Nat,
         StillBlocked(s, n, eof, room)
  PROVE  EsiInv'
  <1> DEFINE q == resp[s].req
             a == out[q]
             c == Context(s)
             b == Take(room, c.parked)
             d == [c EXCEPT !.parked = Drop(room, c.parked)]
             what == IF n = 0 THEN {} ELSE {"blocked"}
  <1>1. Receives(s, n, eof) /\ Filters(s)
    BY DEF StillBlocked
  <1>2. Live(s) /\ ends[q] = 0 /\ UNCHANGED <<reqs, cache>> /\ fragment' \in BOOLEAN
    BY <1>1, ReceivesFacts
  <1>3. q \in Requests /\ resp[s].fed \in Nat /\ a \in Seq(ItemsOf(q))
    BY <1>2, LiveFacts DEF EsiInv
  <1>4. /\ c \in CtxOf(q) /\ reqs[q].on
        /\ Len(c.hold) <= HoldMax /\ Len(c.held) <= BufferMax
        /\ \A way \in Ways : Allows(events[q], way) => Orderly(way, a, c)
        /\ UpTo(resp[s].fed, Everything(a, c) \cup Pos(c.hold))
    BY <1>1, <1>2, ContextGood
  <1>5. c.parked \in Seq(ItemsOf(q)) /\ c.held \in Seq(ItemsOf(q)) /\ c.hold \in Seq(ItemsOf(q))
    BY <1>4 DEF CtxOf
  <1>6. /\ b \in Seq(ItemsOf(q)) /\ Drop(room, c.parked) \in Seq(ItemsOf(q))
    BY <1>5, TakeDrop
  <1>7. /\ d \in CtxOf(q) /\ d.parked = Drop(room, c.parked)
        /\ d.held = c.held /\ d.hold = c.hold /\ d.holding = c.holding
    BY <1>4, <1>6 DEF CtxOf
  <1>8. /\ Deliver(s, b) /\ Keep(s, d) /\ Consumed(s, n, eof, TRUE)
        /\ Happened(q, what) /\ UNCHANGED ends
    BY DEF StillBlocked
  <1>9. b = Take(room, c.parked)
    OBVIOUS
  <1> HIDE DEF a, b, c, d
  <1>10. ASSUME NEW way \in Ways, Allows(events[q], way)
         PROVE  /\ Orderly(way, a \o b, d)
                /\ Everything(a \o b, d) \subseteq Everything(a, c)
    <2>1. Orderly(way, a, c)
      BY <1>4, <1>10
    <2> QED
      BY <1>3, <1>5, <1>7, <1>9, <2>1, BlockedOrder
  <1>11. Allows(events[q], "once") /\ "once" \in Ways
    BY TwoWays DEF Allows
  <1>12. Everything(a \o b, d) \subseteq Everything(a, c)
    BY <1>10, <1>11
  <1>13. UpTo(resp[s].fed + n, Everything(a, c) \cup Pos(c.hold))
    <2>1. \A y \in Everything(a, c) \cup Pos(c.hold) : y \in Nat
      <3>1. \A z \in Seq(ItemsOf(q)) : Pos(z) \subseteq Nat
        <4> TAKE z \in Seq(ItemsOf(q))
        <4>1. DOMAIN z = 1 .. Len(z) /\ \A i \in 1 .. Len(z) : z[i] \in ItemsOf(q)
          BY LenProperties, ElementOfSeq
        <4> QED
          BY <4>1 DEF Pos, ItemsOf
      <3> QED
        BY <1>3, <1>5, <3>1 DEF Everything
    <2> QED
      BY <1>3, <1>4, <2>1 DEF UpTo
  <1>14. /\ UpTo(resp[s].fed + n, Pos(a \o b))
         /\ UpTo(resp[s].fed + n, Everything(a \o b, d) \cup Pos(d.hold))
    BY <1>7, <1>12, <1>13 DEF UpTo, Everything
  <1>15. Sent(s, b) = a \o b
    BY DEF Sent, a
  <1>16. ASSUME NEW way \in Ways, WayAfter(s, what, way)
         PROVE  Orderly(way, a \o b, d) /\ Chain(way, a \o b)
    <2>1. Allows(events[q], way)
      BY <1>16 DEF WayAfter, Allows
    <2> QED
      BY <1>10, <2>1 DEF Orderly, Row
  <1>17. GoodBytes(s, b, n, what)
    BY <1>4, <1>6, <1>14, <1>15, <1>16 DEF GoodBytes
  <1>18. GoodNext(s, b, n, what, d)
    BY <1>4, <1>7, <1>14, <1>15, <1>16 DEF GoodNext
  <1>19. what \in SUBSET Events
    BY DEF Events
  <1>20. Hook(s, b, n, eof, TRUE, what)
    <2> HIDE DEF what
    <2> QED
      BY <1>2, <1>8, <1>17, <1>18, <1>19 DEF Hook
  <1> QED
    BY <1>20, HookInv

\* What may go wrong is told.
LEMMA MishapsType ==
  ASSUME NEW s, NEW p
  PROVE  Mishaps(s, p) \in SUBSET Events
  BY DEF Mishaps, Events

\* A hook that has processed a chunk and keeps its context.
LEMMA KeepsOn ==
  ASSUME EsiInv, NEW s \in Sessions, NEW n \in Nat, NEW eof \in BOOLEAN, NEW room \in Nat,
         Filtering(s, n, eof, room),
         NEW bytes, NEW next, NEW buffered \in BOOLEAN, NEW what \in SUBSET Events,
         bytes \in Seq(ItemsOf(resp[s].req)), next \in CtxOf(resp[s].req),
         Len(next.hold) <= HoldMax, Len(next.held) <= BufferMax,
         \A way \in Ways : WayAfter(s, what, way) => Orderly(way, Sent(s, bytes), next),
         UpTo(resp[s].fed + n, Everything(Sent(s, bytes), next) \cup Pos(next.hold)),
         Deliver(s, bytes), Keep(s, next), Consumed(s, n, eof, buffered),
         Happened(resp[s].req, what), UNCHANGED ends
  PROVE  EsiInv'
  <1>1. Receives(s, n, eof) /\ Filters(s)
    BY DEF Filtering
  <1>2. Live(s) /\ ends[resp[s].req] = 0 /\ UNCHANGED <<reqs, cache>> /\ fragment' \in BOOLEAN
    BY <1>1, ReceivesFacts
  <1>3. reqs[resp[s].req].on
    BY <1>1, <1>2, ContextGood
  <1>4. GoodNext(s, bytes, n, what, next)
    BY <1>3 DEF GoodNext
  <1>5. \A way \in Ways : WayAfter(s, what, way) => Chain(way, Sent(s, bytes))
    BY DEF Orderly, Row
  <1>6. GoodBytes(s, bytes, n, what)
    BY <1>3, <1>5 DEF GoodBytes, UpTo, Everything
  <1>7. Hook(s, bytes, n, eof, buffered, what)
    BY <1>2, <1>4, <1>6 DEF Hook
  <1> QED
    BY <1>7, HookInv

\* A hook that has processed the last chunk and ends the stream.
LEMMA EndsHere ==
  ASSUME EsiInv, NEW s \in Sessions, NEW n \in Nat, NEW room \in Nat,
         Filtering(s, n, TRUE, room),
         NEW bytes, NEW what \in SUBSET Events, bytes \in Seq(ItemsOf(resp[s].req)),
         \A way \in Ways : WayAfter(s, what, way) => Chain(way, Sent(s, bytes)),
         UpTo(resp[s].fed + n, Pos(Sent(s, bytes))),
         Deliver(s, bytes), Reset, End(s), Consumed(s, n, TRUE, FALSE),
         Happened(resp[s].req, what)
  PROVE  EsiInv'
  <1>1. Receives(s, n, TRUE) /\ Filters(s)
    BY DEF Filtering
  <1>2. Live(s) /\ ends[resp[s].req] = 0 /\ UNCHANGED <<reqs, cache>> /\ fragment' \in BOOLEAN
    BY <1>1, ReceivesFacts
  <1>3. reqs[resp[s].req].on
    BY <1>1, <1>2, ContextGood
  <1>4. GoodBytes(s, bytes, n, what)
    BY <1>3 DEF GoodBytes
  <1>5. Hook(s, bytes, n, TRUE, FALSE, what)
    BY <1>2, <1>4 DEF Hook
  <1> QED
    BY <1>5, HookInv

\* A chunk whose output is held for the join.
LEMMA HoldInv ==
  ASSUME EsiInv, NEW s \in Sessions, NEW n \in Nat, NEW room \in Nat, Hold(s, n, room)
  PROVE  EsiInv'
  <1> DEFINE q == resp[s].req
             a == out[q]
             c == Context(s)
             p == Processed(s, n)
             d == [Ctx(p) EXCEPT !.held = p.held \o p.out]
             what == Mishaps(s, p)
  <1>1. Filtering(s, n, FALSE, room)
    BY DEF Hold
  <1>2. /\ Ctx(p) \in CtxOf(q) /\ p.out \in Seq(ItemsOf(q))
        /\ p.held = c.held /\ p.parked = <<>> /\ (c.holding => p.holding)
        /\ Len(p.hold) <= HoldMax
        /\ \A way \in Ways : Allows(events[q], way) =>
              /\ Five(way, a, c.parked, c.held, p.out, p.hold)
              /\ way = "order" /\ ~ c.holding => c.held = <<>>
        /\ UpTo(resp[s].fed + n, Everything(a, c) \cup Pos(p.out) \cup Pos(p.hold))
    BY <1>1, ProcessedGood DEF GoodOutput
  <1>3. Receives(s, n, FALSE) /\ Filters(s)
    BY <1>1 DEF Filtering
  <1>4. Live(s)
    BY <1>3, ReceivesFacts
  <1>5. q \in Requests /\ resp[s].fed \in Nat /\ a \in Seq(ItemsOf(q))
    BY <1>4, LiveFacts DEF EsiInv
  <1>6. c.parked \in Seq(ItemsOf(q)) /\ c.held \in Seq(ItemsOf(q))
    BY <1>3, <1>4, ContextGood DEF CtxOf
  <1>7. /\ p.holding /\ Fits(p.held, p.out)
        /\ Keep(s, d) /\ Happened(q, what) /\ Deliver(s, c.parked)
        /\ Consumed(s, n, FALSE, FALSE) /\ UNCHANGED ends
    <2>1. [Ctx(p) EXCEPT !.held = @ \o p.out] = d
      BY DEF Ctx
    <2> QED
      BY <2>1 DEF Hold
  <1>8. p.hold \in Seq(ItemsOf(q)) /\ p.held \o p.out \in Seq(ItemsOf(q))
        /\ Len(p.held \o p.out) <= BufferMax
    <2>1. p.hold \in Seq(ItemsOf(q))
      BY <1>2 DEF Ctx, CtxOf
    <2>2. /\ p.held \o p.out \in Seq(ItemsOf(q))
          /\ Len(p.held \o p.out) = Len(p.held) + Len(p.out)
      BY <1>2, <1>6, ConcatParts
    <2> QED
      BY <1>7, <2>1, <2>2 DEF Fits
  <1>9. /\ d \in CtxOf(q) /\ d.held = p.held \o p.out /\ d.hold = p.hold
        /\ d.parked = <<>> /\ d.holding = TRUE
    BY <1>2, <1>7, <1>8 DEF Ctx, CtxOf
  <1>10. what \in SUBSET Events
    BY MishapsType
  <1> HIDE DEF a, c, p, d, what
  <1>11. ASSUME NEW way \in Ways, Allows(events[q], way)
         PROVE  /\ Orderly(way, a \o c.parked, d)
                /\ Everything(a \o c.parked, d) \subseteq
                     Pos(a) \cup Pos(c.parked) \cup Pos(c.held) \cup Pos(p.out)
    <2> DEFINE b == c.parked
               h == c.held
               o == p.out
               e == p.hold
    <2>1. Five(way, a, b, h, o, e)
      BY <1>2, <1>11
    <2>2. /\ a \in Seq(ItemsOf(q)) /\ b \in Seq(ItemsOf(q)) /\ h \in Seq(ItemsOf(q))
          /\ o \in Seq(ItemsOf(q)) /\ e \in Seq(ItemsOf(q))
      BY <1>2, <1>5, <1>6, <1>8
    <2>3. d.held = h \o o /\ d.parked = <<>> /\ d.hold = e /\ d.holding = TRUE
      BY <1>2, <1>9
    <2> HIDE DEF b, h, o, e
    <2>4. Orderly(way, a \o b, d)
      BY <2>1, <2>2, <2>3, HoldOrder
    <2>5. Everything(a \o b, d) = Pos(a) \cup Pos(b) \cup Pos(h) \cup Pos(o)
      <3>1. Pos(a \o b) = Pos(a) \cup Pos(b) /\ Pos(h \o o) = Pos(h) \cup Pos(o)
        BY <2>2, PosConcat
      <3>2. Pos(d.parked) = {} /\ Pos(d.held) = Pos(h \o o)
        BY <2>3, ChainEmpty, TwoWays
      <3> QED
        BY <3>1, <3>2 DEF Everything
    <2> QED
      BY <2>4, <2>5 DEF b, h, o, e
  <1>12. Allows(events[q], "once") /\ "once" \in Ways
    BY TwoWays DEF Allows
  <1>13. UpTo(resp[s].fed + n, Everything(a \o c.parked, d) \cup Pos(d.hold))
    <2>1. Everything(a \o c.parked, d) \subseteq
            Pos(a) \cup Pos(c.parked) \cup Pos(c.held) \cup Pos(p.out)
      BY <1>11, <1>12
    <2>2. Everything(a, c) = Pos(a) \cup Pos(c.parked) \cup Pos(c.held)
      BY DEF Everything
    <2> QED
      BY <1>2, <1>9, <2>1, <2>2 DEF UpTo
  <1>14. Sent(s, c.parked) = a \o c.parked
    BY DEF Sent, a
  <1>15. \A way \in Ways : WayAfter(s, what, way) => Orderly(way, Sent(s, c.parked), d)
    BY <1>11, <1>14 DEF WayAfter, Allows
  <1>16. Len(d.hold) <= HoldMax /\ Len(d.held) <= BufferMax
    BY <1>2, <1>8, <1>9
  <1> QED
    BY <1>1, <1>6, <1>7, <1>9, <1>10, <1>13, <1>14, <1>15, <1>16, KeepsOn

\* A chunk whose output is sent; a filter that was holding gives up.
LEMMA StreamInv ==
  ASSUME EsiInv, NEW s \in Sessions, NEW n \in Nat, NEW room \in Nat, Stream(s, n, room)
  PROVE  EsiInv'
  <1> DEFINE q == resp[s].req
             a == out[q]
             c == Context(s)
             p == Processed(s, n)
             rest == Drop(Left(room, c.parked), p.out)
             bytes == Take(room, c.parked \o p.out)
             d == [Ctx(p) EXCEPT !.holding = FALSE, !.parked = rest]
             what == Mishaps(s, p) \cup (IF p.holding THEN {"gave up"} ELSE {})
  <1>1. Filtering(s, n, FALSE, room)
    BY DEF Stream
  <1>2. /\ Ctx(p) \in CtxOf(q) /\ p.out \in Seq(ItemsOf(q))
        /\ p.held = c.held /\ p.parked = <<>> /\ (c.holding => p.holding)
        /\ Len(p.hold) <= HoldMax
        /\ \A way \in Ways : Allows(events[q], way) =>
              /\ Five(way, a, c.parked, c.held, p.out, p.hold)
              /\ way = "order" /\ ~ c.holding => c.held = <<>>
        /\ UpTo(resp[s].fed + n, Everything(a, c) \cup Pos(p.out) \cup Pos(p.hold))
    BY <1>1, ProcessedGood DEF GoodOutput
  <1>3. Receives(s, n, FALSE) /\ Filters(s) /\ Len(c.parked) <= room
    BY <1>1 DEF Filtering
  <1>4. Live(s)
    BY <1>3, ReceivesFacts
  <1>5. q \in Requests /\ resp[s].fed \in Nat /\ a \in Seq(ItemsOf(q))
    BY <1>4, LiveFacts DEF EsiInv
  <1>6. c.parked \in Seq(ItemsOf(q)) /\ c.held \in Seq(ItemsOf(q)) /\ Len(c.held) <= BufferMax
    BY <1>3, <1>4, ContextGood DEF CtxOf
  <1>7. /\ Keep(s, d) /\ Happened(q, what) /\ Deliver(s, bytes)
        /\ Consumed(s, n, FALSE, rest # <<>>) /\ UNCHANGED ends
    BY DEF Stream
  <1>8. p.hold \in Seq(ItemsOf(q)) /\ rest \in Seq(ItemsOf(q))
    <2>1. p.hold \in Seq(ItemsOf(q))
      BY <1>2 DEF Ctx, CtxOf
    <2>2. Left(room, c.parked) \in Nat
      BY <1>3, <1>6, LenProperties DEF Left
    <2> QED
      BY <1>2, <2>1, <2>2, TakeDrop
  <1>9. /\ d \in CtxOf(q) /\ d.held = c.held /\ d.hold = p.hold
        /\ d.parked = rest /\ d.holding = FALSE
    BY <1>2, <1>8 DEF Ctx, CtxOf
  <1>10. what \in SUBSET Events /\ ("gave up" \notin what => ~ p.holding)
    BY MishapsType DEF Events
  <1>11. rest = Drop(Left(room, c.parked), p.out) /\ bytes = Take(room, c.parked \o p.out)
         /\ (rest # <<>>) \in BOOLEAN
    OBVIOUS
  <1> HIDE DEF a, c, p, d, what, rest, bytes
  <1>12. ASSUME NEW way \in Ways, Allows(events[q], way), way = "order" => c.held = <<>>
         PROVE  /\ bytes \in Seq(ItemsOf(q)) /\ Orderly(way, a \o bytes, d)
                /\ Everything(a \o bytes, d) \subseteq
                     Pos(a) \cup Pos(c.parked) \cup Pos(c.held) \cup Pos(p.out)
    <2>1. Five(way, a, c.parked, c.held, p.out, p.hold)
      BY <1>2, <1>12
    <2>2. Streamed(ItemsOf(q), way, a, c.parked, c.held, p.out, bytes, d)
      BY <1>2, <1>3, <1>5, <1>6, <1>8, <1>9, <1>11, <1>12, <2>1, StreamOrder
    <2> QED
      BY <2>2 DEF Streamed
  <1>13. Allows(events[q], "once") /\ "once" \in Ways
    BY TwoWays DEF Allows
  <1>14. /\ bytes \in Seq(ItemsOf(q))
         /\ Everything(a \o bytes, d) \subseteq
              Pos(a) \cup Pos(c.parked) \cup Pos(c.held) \cup Pos(p.out)
    BY <1>12, <1>13
  <1>15. UpTo(resp[s].fed + n, Everything(a \o bytes, d) \cup Pos(d.hold))
    <2>1. Everything(a, c) = Pos(a) \cup Pos(c.parked) \cup Pos(c.held)
      BY DEF Everything
    <2> QED
      BY <1>2, <1>9, <1>14, <2>1 DEF UpTo
  <1>16. Sent(s, bytes) = a \o bytes
    BY DEF Sent, a
  <1>17. ASSUME NEW way \in Ways, WayAfter(s, what, way)
         PROVE  Orderly(way, Sent(s, bytes), d)
    <2>1. Allows(events[q], way)
      BY <1>17 DEF WayAfter, Allows
    <2>2. way = "order" => c.held = <<>>
      BY <1>2, <1>10, <1>17, <2>1 DEF WayAfter, Allows
    <2> QED
      BY <1>12, <1>16, <2>1, <2>2
  <1>18. Len(d.hold) <= HoldMax /\ Len(d.held) <= BufferMax
    BY <1>2, <1>6, <1>9
  <1> QED
    BY <1>1, <1>7, <1>9, <1>10, <1>11, <1>14, <1>15, <1>16, <1>17, <1>18, KeepsOn

\* The last chunk with output held.
LEMMA EndHeldInv ==
  ASSUME EsiInv, NEW s \in Sessions, NEW n \in Nat, NEW room \in Nat, EndHeld(s, n, room)
  PROVE  EsiInv'
  <1> DEFINE q == resp[s].req
             a == out[q]
             c == Context(s)
             p == Processed(s, n)
             last == IF Fits(p.held, p.out) THEN p.held \o p.out ELSE p.held
             all == IF last # <<>> /\ Fits(last, p.hold) THEN last \o p.hold ELSE last
             bytes == Take(room, c.parked \o Join(all))
             what == Mishaps(s, p)
                       \cup (IF Len(all) < Len(p.held \o p.out \o p.hold)
                               THEN {"gave up"} ELSE {})
                       \cup (IF Len(c.parked \o Join(all)) > room THEN {"blocked"} ELSE {})
  <1>1. Filtering(s, n, TRUE, room)
    BY DEF EndHeld
  <1>2. /\ Ctx(p) \in CtxOf(q) /\ p.out \in Seq(ItemsOf(q))
        /\ p.held = c.held
        /\ \A way \in Ways : Allows(events[q], way) =>
              Five(way, a, c.parked, c.held, p.out, p.hold)
        /\ UpTo(resp[s].fed + n, Everything(a, c) \cup Pos(p.out) \cup Pos(p.hold))
    BY <1>1, ProcessedGood DEF GoodOutput
  <1>3. Receives(s, n, TRUE) /\ Filters(s)
    BY <1>1 DEF Filtering
  <1>4. Live(s)
    BY <1>3, ReceivesFacts
  <1>5. q \in Requests /\ resp[s].fed \in Nat /\ a \in Seq(ItemsOf(q))
    BY <1>4, LiveFacts DEF EsiInv
  <1>6. c.parked \in Seq(ItemsOf(q)) /\ c.held \in Seq(ItemsOf(q))
    BY <1>3, <1>4, ContextGood DEF CtxOf
  <1>7. /\ Happened(q, what) /\ Deliver(s, bytes)
        /\ Consumed(s, n, TRUE, FALSE) /\ End(s) /\ Reset
    BY DEF EndHeld
  <1>8. p.hold \in Seq(ItemsOf(q))
    BY <1>2 DEF Ctx, CtxOf
  <1>9. what \in SUBSET Events
    <2>1. Mishaps(s, p) \in SUBSET Events
      BY MishapsType
    <2>2. "gave up" \in Events /\ "blocked" \in Events
      BY DEF Events
    <2> HIDE DEF all, p, c
    <2> QED
      BY <2>1, <2>2
  <1>10. all \in {c.held, c.held \o p.out, c.held \o p.hold, (c.held \o p.out) \o p.hold}
    <2> HIDE DEF p, c
    <2> QED
      BY <1>2
  <1>11. bytes = Take(room, c.parked \o Join(all))
    OBVIOUS
  <1> HIDE DEF a, c, p, all, what, bytes
  <1>12. ASSUME NEW way \in Ways, Allows(events[q], way)
         PROVE  /\ bytes \in Seq(ItemsOf(q)) /\ Chain(way, a \o bytes)
                /\ Pos(a \o bytes) \subseteq
                     Pos(a) \cup Pos(c.parked) \cup Pos(c.held) \cup Pos(p.out) \cup Pos(p.hold)
    <2> DEFINE b == c.parked
               h == c.held
               o == p.out
               e == p.hold
    <2>1. Five(way, a, b, h, o, e)
      BY <1>2, <1>12
    <2>2. /\ a \in Seq(ItemsOf(q)) /\ b \in Seq(ItemsOf(q)) /\ h \in Seq(ItemsOf(q))
          /\ o \in Seq(ItemsOf(q)) /\ e \in Seq(ItemsOf(q))
      BY <1>2, <1>5, <1>6, <1>8
    <2>3. all \in {h, h \o o, h \o e, (h \o o) \o e}
      BY <1>10
    <2>4. bytes = Take(room, b \o Join(all))
      BY <1>11
    <2> HIDE DEF b, h, o, e
    <2>5. Joinable(ItemsOf(q), way, a, b, h, o, e)
      BY <2>1, <2>2, FiveWithTail
    <2>6. /\ all \in Seq(ItemsOf(q)) /\ Row(way, a, b, all)
          /\ Pos(all) \subseteq Pos(h) \cup Pos(o) \cup Pos(e)
      BY <2>3, <2>5 DEF Joinable
    <2>7. /\ bytes \in Seq(ItemsOf(q)) /\ Chain(way, a \o bytes)
          /\ Pos(a \o bytes) \subseteq Pos(a) \cup Pos(b) \cup Pos(all)
      BY <2>2, <2>4, <2>6, JoinedOrder
    <2>8. Pos(a \o bytes) \subseteq Pos(a) \cup Pos(b) \cup Pos(h) \cup Pos(o) \cup Pos(e)
      BY <2>6, <2>7
    <2> QED
      BY <2>7, <2>8 DEF b, h, o, e
  <1>13. Allows(events[q], "once") /\ "once" \in Ways
    BY TwoWays DEF Allows
  <1>14. /\ bytes \in Seq(ItemsOf(q))
         /\ Pos(a \o bytes) \subseteq
              Pos(a) \cup Pos(c.parked) \cup Pos(c.held) \cup Pos(p.out) \cup Pos(p.hold)
    BY <1>12, <1>13
  <1>15. UpTo(resp[s].fed + n, Pos(a \o bytes))
    BY <1>2, <1>14 DEF UpTo, Everything
  <1>16. Sent(s, bytes) = a \o bytes
    BY DEF Sent, a
  <1>17. \A way \in Ways : WayAfter(s, what, way) => Chain(way, Sent(s, bytes))
    BY <1>12, <1>16 DEF WayAfter, Allows
  <1> QED
    BY <1>1, <1>7, <1>9, <1>14, <1>15, <1>16, <1>17, EndsHere

(***************************************************************************)
(* The last chunk of a filter that is not holding: the output and the      *)
(* partial tag come after what was sent and parked; nothing is held,       *)
(* unless the filter gave up holding before.                               *)
(***************************************************************************)
LastChunk(s, n, room, c, p) ==
  LET q == resp[s].req
      a == out[q]
  IN  /\ Filtering(s, n, TRUE, room) /\ Len(c.parked) <= room /\ Left(room, c.parked) \in Nat
      /\ Ctx(p) \in CtxOf(q) /\ p.held = c.held /\ Len(c.held) <= BufferMax
      /\ a \in Seq(ItemsOf(q)) /\ c.parked \in Seq(ItemsOf(q)) /\ c.held \in Seq(ItemsOf(q))
      /\ p.out \in Seq(ItemsOf(q)) /\ p.hold \in Seq(ItemsOf(q)) /\ Len(p.hold) <= HoldMax
      /\ \A way \in Ways : Allows(events[q], way) =>
           /\ Five(way, a, c.parked, c.held, p.out, p.hold)
           /\ way = "order" => c.held = <<>>
      /\ UpTo(resp[s].fed + n,
              Pos(a) \cup Pos(c.parked) \cup Pos(c.held) \cup Pos(p.out) \cup Pos(p.hold))

\* So it is whenever EndStream is taken.
LEMMA LastChunkFacts ==
  ASSUME EsiInv, NEW s \in Sessions, NEW n \in Nat, NEW room \in Nat, EndStream(s, n, room)
  PROVE  LastChunk(s, n, room, Context(s), Processed(s, n))
  <1> DEFINE q == resp[s].req
             a == out[q]
             c == Context(s)
             p == Processed(s, n)
  <1>1. Filtering(s, n, TRUE, room) /\ ~ p.holding
    BY DEF EndStream
  <1>2. /\ Ctx(p) \in CtxOf(q) /\ p.out \in Seq(ItemsOf(q))
        /\ p.held = c.held /\ (c.holding => p.holding) /\ Len(p.hold) <= HoldMax
        /\ \A way \in Ways : Allows(events[q], way) =>
              /\ Five(way, a, c.parked, c.held, p.out, p.hold)
              /\ way = "order" /\ ~ c.holding => c.held = <<>>
        /\ UpTo(resp[s].fed + n, Everything(a, c) \cup Pos(p.out) \cup Pos(p.hold))
    BY <1>1, ProcessedGood DEF GoodOutput
  <1>3. Receives(s, n, TRUE) /\ Filters(s) /\ Len(c.parked) <= room
    BY <1>1 DEF Filtering
  <1>4. Live(s)
    BY <1>3, ReceivesFacts
  <1>5. a \in Seq(ItemsOf(q))
    BY <1>4, LiveFacts DEF EsiInv
  <1>6. c.parked \in Seq(ItemsOf(q)) /\ c.held \in Seq(ItemsOf(q)) /\ Len(c.held) <= BufferMax
    BY <1>3, <1>4, ContextGood DEF CtxOf
  <1>7. p.hold \in Seq(ItemsOf(q))
    BY <1>2 DEF Ctx, CtxOf
  <1>8. Left(room, c.parked) \in Nat
    BY <1>3, <1>6, LenProperties DEF Left
  <1>9. Everything(a, c) = Pos(a) \cup Pos(c.parked) \cup Pos(c.held)
    BY DEF Everything
  <1> HIDE DEF a, c, p
  <1>10. \A way \in Ways : Allows(events[q], way) =>
           /\ Five(way, a, c.parked, c.held, p.out, p.hold)
           /\ way = "order" => c.held = <<>>
    BY <1>1, <1>2
  <1>11. UpTo(resp[s].fed + n,
              Pos(a) \cup Pos(c.parked) \cup Pos(c.held) \cup Pos(p.out) \cup Pos(p.hold))
    BY <1>2, <1>9
  <1> QED
    BY <1>1, <1>2, <1>3, <1>5, <1>6, <1>7, <1>8, <1>10, <1>11 DEF LastChunk, a, c, p

\* Of o, the output with the partial tag or without it, the rest is parked.
Remainder(s, room, c, p, o, e, rest, bytes, d) ==
  LET q == resp[s].req IN
  /\ o \in Seq(ItemsOf(q)) /\ e \in Seq(ItemsOf(q)) /\ Len(e) <= HoldMax
  /\ Pos(o) \cup Pos(e) \subseteq Pos(p.out) \cup Pos(p.hold)
  /\ \A way \in Ways : Allows(events[q], way) => Five(way, out[q], c.parked, c.held, o, e)
  /\ rest = Drop(Left(room, c.parked), o)
  /\ bytes = Take(room, c.parked \o o)
  /\ d = [Ctx(p) EXCEPT !.parked = rest, !.hold = e]

\* The stream goes on, with the rest parked.
LEMMA EndStreamRest ==
  ASSUME EsiInv, NEW s \in Sessions, NEW n \in Nat, NEW room \in Nat, NEW c, NEW p,
         LastChunk(s, n, room, c, p),
         NEW o, NEW e, NEW rest, NEW bytes, NEW d, Remainder(s, room, c, p, o, e, rest, bytes, d),
         Deliver(s, bytes), Keep(s, d), Consumed(s, n, TRUE, TRUE),
         Happened(resp[s].req, Mishaps(s, p)), UNCHANGED ends
  PROVE  EsiInv'
  <1> DEFINE q == resp[s].req
             a == out[q]
             b == c.parked
             h == c.held
  <1>1. Filtering(s, n, TRUE, room)
    BY DEF LastChunk
  <1>2. /\ a \in Seq(ItemsOf(q)) /\ b \in Seq(ItemsOf(q)) /\ h \in Seq(ItemsOf(q))
        /\ Len(b) <= room /\ Len(h) <= BufferMax /\ Left(room, b) \in Nat
    BY DEF LastChunk
  <1>3. /\ Ctx(p) \in CtxOf(q) /\ p.held = h
        /\ o \in Seq(ItemsOf(q)) /\ e \in Seq(ItemsOf(q)) /\ Len(e) <= HoldMax
    BY DEF LastChunk, Remainder
  <1>4. \A way \in Ways : Allows(events[q], way) =>
           Five(way, a, b, h, o, e) /\ (way = "order" => h = <<>>)
    BY DEF LastChunk, Remainder
  <1>5. UpTo(resp[s].fed + n, Pos(a) \cup Pos(b) \cup Pos(h) \cup Pos(o) \cup Pos(e))
    BY DEF LastChunk, Remainder, UpTo
  <1>6. Mishaps(s, p) \in SUBSET Events
    BY MishapsType
  <1>7. rest = Drop(Left(room, b), o) /\ bytes = Take(room, b \o o)
    BY DEF Remainder
  <1> HIDE DEF a, b, h
  <1>8. rest \in Seq(ItemsOf(q))
    BY <1>2, <1>3, <1>7, TakeDrop
  <1>9. /\ d \in CtxOf(q) /\ d.held = h /\ d.hold = e /\ d.parked = rest
    BY <1>3, <1>8 DEF Remainder, Ctx, CtxOf
  <1>10. ASSUME NEW way \in Ways, Allows(events[q], way)
         PROVE  /\ bytes \in Seq(ItemsOf(q)) /\ Orderly(way, a \o bytes, d)
                /\ Everything(a \o bytes, d) \subseteq Pos(a) \cup Pos(b) \cup Pos(h) \cup Pos(o)
    <2>1. Five(way, a, b, h, o, e) /\ (way = "order" => h = <<>>)
      BY <1>4, <1>10
    <2>2. d.parked = Drop(Left(room, b), o) /\ d.held = h /\ d.hold = e
      BY <1>7, <1>9
    <2>3. Streamed(ItemsOf(q), way, a, b, h, o, bytes, d)
      BY <1>2, <1>3, <1>7, <2>1, <2>2, StreamOrder
    <2> QED
      BY <2>3 DEF Streamed
  <1>11. Allows(events[q], "once") /\ "once" \in Ways
    BY TwoWays DEF Allows
  <1>12. /\ bytes \in Seq(ItemsOf(q))
         /\ Everything(a \o bytes, d) \subseteq Pos(a) \cup Pos(b) \cup Pos(h) \cup Pos(o)
    BY <1>10, <1>11
  <1>13. UpTo(resp[s].fed + n, Everything(a \o bytes, d) \cup Pos(d.hold))
    BY <1>5, <1>9, <1>12 DEF UpTo
  <1>14. Sent(s, bytes) = a \o bytes
    BY DEF Sent, a
  <1>15. \A way \in Ways : WayAfter(s, Mishaps(s, p), way) => Orderly(way, Sent(s, bytes), d)
    BY <1>10, <1>14 DEF WayAfter, Allows
  <1>16. Len(d.hold) <= HoldMax /\ Len(d.held) <= BufferMax
    BY <1>2, <1>3, <1>9
  <1> QED
    BY <1>1, <1>6, <1>9, <1>12, <1>13, <1>14, <1>15, <1>16, KeepsOn

\* The last chunk of a filter that is not holding.
LEMMA EndStreamInv ==
  ASSUME EsiInv, NEW s \in Sessions, NEW n \in Nat, NEW room \in Nat, EndStream(s, n, room)
  PROVE  EsiInv'
  <1> DEFINE q == resp[s].req
             a == out[q]
             c == Context(s)
             p == Processed(s, n)
             b == c.parked
             h == c.held
             o == p.out
             e == p.hold
             w == o \o e
             k == Left(room, b)
             rest == Drop(k, o)
             tail == Drop(k, w)
  <1>1. LastChunk(s, n, room, c, p)
    BY LastChunkFacts
  <1>2. /\ a \in Seq(ItemsOf(q)) /\ b \in Seq(ItemsOf(q)) /\ h \in Seq(ItemsOf(q))
        /\ o \in Seq(ItemsOf(q)) /\ e \in Seq(ItemsOf(q)) /\ Len(e) <= HoldMax
        /\ Len(b) <= room /\ k \in Nat
        /\ Filtering(s, n, TRUE, room) /\ Ctx(p) \in CtxOf(q)
    BY <1>1 DEF LastChunk
  <1>3. \A way \in Ways : Allows(events[q], way) => Five(way, a, b, h, o, e)
    BY <1>1 DEF LastChunk
  <1>4. UpTo(resp[s].fed + n, Pos(a) \cup Pos(b) \cup Pos(h) \cup Pos(o) \cup Pos(e))
    BY <1>1 DEF LastChunk
  <1>5. Happened(q, Mishaps(s, p))
    BY DEF EndStream
  <1>6. \/ /\ Deliver(s, Take(room, b \o o)) /\ Keep(s, [Ctx(p) EXCEPT !.parked = rest])
           /\ Consumed(s, n, TRUE, TRUE) /\ UNCHANGED ends
        \/ /\ Deliver(s, Take(room, b \o o \o e))
           /\ Keep(s, [Ctx(p) EXCEPT !.parked = tail, !.hold = <<>>])
           /\ Consumed(s, n, TRUE, TRUE) /\ UNCHANGED ends
        \/ /\ tail = <<>> /\ Deliver(s, b \o o \o e) /\ Reset
           /\ Consumed(s, n, TRUE, FALSE) /\ End(s)
    <2>1. \/ rest # <<>>
          \/ rest = <<>> /\ tail # <<>>
          \/ tail = <<>>
      OBVIOUS
    <2> QED
      BY <2>1 DEF EndStream
  <1>7. Ctx(p).hold = e
    BY DEF Ctx
  <1>8. [Ctx(p) EXCEPT !.parked = rest] = [Ctx(p) EXCEPT !.parked = rest, !.hold = e]
    BY <1>2, <1>7 DEF CtxOf
  <1>9. b = c.parked /\ h = c.held /\ o = p.out /\ e = p.hold /\ a = out[q]
        /\ rest = Drop(k, o) /\ tail = Drop(k, w) /\ w = o \o e /\ k = Left(room, b)
    OBVIOUS
  <1> HIDE DEF a, b, c, h, o, e, p, w, k, rest, tail
  <1>10. w \in Seq(ItemsOf(q)) /\ b \o o \o e = b \o w
    <2>1. o \o e \in Seq(ItemsOf(q))
      BY <1>2, ConcatParts
    <2>2. (b \o o) \o e = b \o (o \o e)
      <3>1. b \in Seq(ItemsOf(q)) /\ o \in Seq(ItemsOf(q)) /\ e \in Seq(ItemsOf(q))
        BY <1>2
      <3> QED
        BY <3>1, ConcatAssociative
    <2> QED
      BY <1>9, <2>1, <2>2
  <1>11. Pos(w) = Pos(o) \cup Pos(e) /\ Pos(<<>>) = {} /\ <<>> \in Seq(ItemsOf(q))
    BY <1>2, <1>9, PosConcat, ChainEmpty, TwoWays, EmptySeq
  <1>12. \A way \in Ways : Allows(events[q], way) => Five(way, a, b, h, w, <<>>)
    <2> TAKE way \in Ways
    <2> HAVE Allows(events[q], way)
    <2>1. Five(way, a, b, h, o, e)
      BY <1>3
    <2> QED
      BY <1>2, <1>9, <2>1, TailOrder
  <1>13. CASE /\ Deliver(s, Take(room, b \o o)) /\ Keep(s, [Ctx(p) EXCEPT !.parked = rest])
              /\ Consumed(s, n, TRUE, TRUE) /\ UNCHANGED ends
    <2> DEFINE bytes == Take(room, b \o o)
               d == [Ctx(p) EXCEPT !.parked = rest, !.hold = e]
    <2>1. Remainder(s, room, c, p, o, e, rest, bytes, d)
      BY <1>2, <1>3, <1>9 DEF Remainder
    <2>2. Deliver(s, bytes) /\ Keep(s, d) /\ Consumed(s, n, TRUE, TRUE) /\ UNCHANGED ends
      BY <1>8, <1>13
    <2> HIDE DEF bytes, d
    <2> QED
      BY <1>1, <1>5, <2>1, <2>2, EndStreamRest
  <1>14. CASE /\ Deliver(s, Take(room, b \o o \o e))
              /\ Keep(s, [Ctx(p) EXCEPT !.parked = tail, !.hold = <<>>])
              /\ Consumed(s, n, TRUE, TRUE) /\ UNCHANGED ends
    <2> DEFINE bytes == Take(room, b \o w)
               d == [Ctx(p) EXCEPT !.parked = tail, !.hold = <<>>]
    <2>1. Len(<<>>) <= HoldMax
      OBVIOUS
    <2>2. Remainder(s, room, c, p, w, <<>>, tail, bytes, d)
      BY <1>2, <1>9, <1>10, <1>11, <1>12, <2>1 DEF Remainder
    <2>3. Deliver(s, bytes) /\ Keep(s, d) /\ Consumed(s, n, TRUE, TRUE) /\ UNCHANGED ends
      BY <1>10, <1>14
    <2> HIDE DEF bytes, d
    <2> QED
      BY <1>1, <1>5, <2>2, <2>3, EndStreamRest
  <1>15. CASE /\ tail = <<>> /\ Deliver(s, b \o o \o e) /\ Reset
              /\ Consumed(s, n, TRUE, FALSE) /\ End(s)
    <2> DEFINE bytes == b \o w
    <2>1. Deliver(s, bytes) /\ Reset /\ Consumed(s, n, TRUE, FALSE) /\ End(s)
      BY <1>10, <1>15
    <2>2. ASSUME NEW way \in Ways, Allows(events[q], way)
          PROVE  /\ bytes \in Seq(ItemsOf(q)) /\ Chain(way, a \o bytes)
                 /\ Pos(a \o bytes) \subseteq Pos(a) \cup Pos(b) \cup Pos(w)
      <3>1. Five(way, a, b, h, w, <<>>)
        BY <1>12, <2>2
      <3>2. Whole(ItemsOf(q), way, a, b, w)
        BY <1>2, <1>10, <1>11, <3>1, AllSent
      <3> QED
        BY <3>2 DEF Whole
    <2> HIDE DEF bytes
    <2>3. Allows(events[q], "once") /\ "once" \in Ways
      BY TwoWays DEF Allows
    <2>4. bytes \in Seq(ItemsOf(q)) /\ Pos(a \o bytes) \subseteq Pos(a) \cup Pos(b) \cup Pos(w)
      BY <2>2, <2>3
    <2>5. UpTo(resp[s].fed + n, Pos(a \o bytes))
      BY <1>4, <1>11, <2>4 DEF UpTo
    <2>6. Sent(s, bytes) = a \o bytes
      BY <1>9 DEF Sent
    <2>7. \A way \in Ways : WayAfter(s, Mishaps(s, p), way) => Chain(way, Sent(s, bytes))
      BY <2>2, <2>6 DEF WayAfter, Allows
    <2>8. Mishaps(s, p) \in SUBSET Events
      BY MishapsType
    <2> QED
      BY <1>2, <1>5, <2>1, <2>4, <2>5, <2>6, <2>7, <2>8, EndsHere
  <1> QED
    BY <1>6, <1>13, <1>14, <1>15

(***************************************************************************)
(* The end of a response: the session is free again and the slot reset.    *)
(***************************************************************************)
Closes(s, what) ==
  LET q == resp[s].req IN
  /\ Live(s) /\ what \in SUBSET Events
  /\ out' \in [Requests -> Seq(Items)] /\ out'[q] \in Seq(ItemsOf(q))
  /\ ends' \in [Requests -> Nat]
  /\ \A p \in Requests : p # q => out'[p] = out[p] /\ ends'[p] = ends[p]
  /\ \A way \in Ways : WayAfter(s, what, way) => Chain(way, out'[q])
  /\ ~ reqs[q].on => out'[q] = out[q]
  /\ resp' = [resp EXCEPT ![s] = Idle] /\ slot' = NoSlot /\ Happened(q, what)
  /\ UNCHANGED <<reqs, cache, fragment>>

\* The end of a response preserves the invariant.
LEMMA ClosesInv ==
  ASSUME EsiInv, NEW s \in Sessions, NEW what, Closes(s, what)
  PROVE  EsiInv'
  <1> DEFINE q == resp[s].req
  <1>1. q \in 1 .. seq /\ q \in Requests /\ seq \in Nat /\ Live(s)
    BY LiveFacts DEF EsiInv, Closes
  <1>2. /\ resp \in [Sessions -> [req : 0 .. seq, fed : Nat, eof : BOOLEAN, buffered : BOOLEAN]]
        /\ events \in [Requests -> SUBSET Events]
    BY DEF EsiInv, Typed, TypeOK
  <1>3. /\ what \in SUBSET Events /\ out' \in [Requests -> Seq(Items)]
        /\ out'[q] \in Seq(ItemsOf(q)) /\ ends' \in [Requests -> Nat]
        /\ \A p \in Requests : p # q => out'[p] = out[p] /\ ends'[p] = ends[p]
        /\ \A way \in Ways : WayAfter(s, what, way) => Chain(way, out'[q])
        /\ ~ reqs[q].on => out'[q] = out[q]
    BY DEF Closes
  <1>4. /\ resp' = [resp EXCEPT ![s] = Idle] /\ slot' = NoSlot
        /\ reqs' = reqs /\ seq' = seq /\ cache' = cache /\ fragment' = fragment
    BY DEF Closes, seq
  <1>5. events' = [events EXCEPT ![q] = events[q] \cup what]
    BY DEF Closes, Happened
  <1>6. /\ \A t \in Sessions : t # s => resp'[t] = resp[t]
        /\ ~ Live(s)' /\ \A t \in Sessions : Live(t)' => t # s /\ Live(t)
    BY <1>2, <1>4 DEF Live, Idle
  <1>7. \A t \in Sessions : ~ SlotIsFor(t)' /\ ~ Filtered(t)'
    BY <1>4 DEF SlotIsFor, Filtered, NoSlot
  <1>8. \A t \in Sessions : Live(t)' => resp'[t] = resp[t] /\ resp[t].req # q /\ resp[t].req \in Requests
    BY <1>1, <1>6, LiveFacts DEF EsiInv, Fresh
  <1>9. /\ events' \in [Requests -> SUBSET Events] /\ events'[q] = events[q] \cup what
        /\ \A p \in Requests : p # q => events'[p] = events[p]
    BY <1>1, <1>2, <1>3, <1>5
  <1>10. Typed'
    <2>1. resp' \in [Sessions -> [req : 0 .. seq, fed : Nat, eof : BOOLEAN, buffered : BOOLEAN]]
      BY <1>1, <1>2, <1>4 DEF Idle
    <2>2. /\ slot' \in [session : Sessions \cup {NoSession}, req : 0 .. seq,
                        ctx : Contexts \cup {NoCtx}]
          /\ slot'.ctx = NoCtx
      BY <1>1, <1>4 DEF NoSlot
    <2>3. TypeOK'
      BY <1>3, <1>4, <1>9, <2>1, <2>2 DEF EsiInv, Typed, TypeOK
    <2>4. \A p \in Requests : out'[p] \in Seq(ItemsOf(p))
      BY <1>3 DEF EsiInv, Typed
    <2> QED
      BY <1>4, <2>3, <2>4 DEF EsiInv, Typed
  <1>11. Fresh'
    <2>1. \A p \in Requests : p > seq => out'[p] = <<>> /\ ends'[p] = 0
      <3> TAKE p \in Requests
      <3> HAVE p > seq
      <3>1. p # q
        BY <1>1
      <3>2. out[p] = <<>> /\ ends[p] = 0
        BY DEF EsiInv, Fresh
      <3> QED
        BY <1>3, <3>1, <3>2
    <2>2. ASSUME NEW t \in Sessions, NEW u \in Sessions, Live(t)', resp'[t].req = resp'[u].req
          PROVE  t = u
      <3>1. Live(u)'
        BY <2>2 DEF Live
      <3>2. Live(t) /\ resp[t].req = resp[u].req
        BY <1>6, <2>2, <3>1
      <3> QED
        BY <3>2 DEF EsiInv, Fresh
    <2> QED
      BY <1>4, <2>1, <2>2 DEF Fresh
  <1>12. Owned'
    BY <1>4, <1>6, <1>7, <1>8 DEF EsiInv, Owned
  <1>13. InOrderSoFar'
    <2>1. ASSUME NEW p \in Requests, NEW way \in Ways, Allows(events'[p], way)
          PROVE  Chain(way, out'[p])
      <3>1. CASE p = q
        BY <1>3, <1>9, <2>1, <3>1 DEF WayAfter
      <3>2. CASE p # q
        BY <1>3, <1>9, <2>1, <3>2 DEF EsiInv, InOrderSoFar
      <3> QED
        BY <3>1, <3>2
    <2>2. \A t \in Sessions : Live(t)' => UpTo(resp'[t].fed, Pos(out'[resp'[t].req]))
      BY <1>3, <1>6, <1>8, SMTT(30) DEF EsiInv, InOrderSoFar
    <2> QED
      BY <1>7, <2>1, <2>2 DEF InOrderSoFar
  <1>14. Untouched'
    <2>1. \A p \in Requests : p <= seq /\ ~ reqs[p].on => Positions(out'[p]) = [i \in DOMAIN out'[p] |-> i]
      BY <1>3 DEF EsiInv, Untouched
    <2>2. \A t \in Sessions : Live(t)' /\ ~ reqs[resp'[t].req].on => resp'[t].fed = Len(out'[resp'[t].req])
      <3> TAKE t \in Sessions
      <3> HAVE Live(t)' /\ ~ reqs[resp'[t].req].on
      <3>1. /\ Live(t) /\ resp'[t] = resp[t]
            /\ resp[t].req \in Requests /\ resp[t].req # q
        BY <1>6, <1>8
      <3>2. out'[resp[t].req] = out[resp[t].req]
        BY <1>3, <3>1
      <3>3. resp[t].fed = Len(out[resp[t].req])
        BY <3>1 DEF EsiInv, Untouched
      <3> QED
        BY <3>1, <3>2, <3>3
    <2> QED
      BY <1>4, <2>1, <2>2 DEF Untouched
  <1>15. Ended'
    <2>1. ASSUME NEW t \in Sessions, Live(t)', ends'[resp'[t].req] > 0
          PROVE  resp'[t].eof /\ ~ resp'[t].buffered
      <3>1. /\ Live(t) /\ resp'[t] = resp[t]
            /\ resp[t].req \in Requests /\ resp[t].req # q
        BY <1>6, <1>8, <2>1
      <3>2. ends'[resp[t].req] = ends[resp[t].req]
        BY <1>3, <3>1
      <3>3. ends[resp[t].req] > 0
        BY <2>1, <3>1, <3>2
      <3>4. resp[t].eof /\ ~ resp[t].buffered
        BY <3>1, <3>3 DEF EsiInv, Ended
      <3> QED
        BY <3>1, <3>4
    <2> QED
      BY <1>7, <2>1 DEF Ended
  <1> QED
    BY <1>10, <1>11, <1>12, <1>13, <1>14, <1>15 DEF EsiInv

\* What the safety net sends of a filter's context is in order.
LEMMA LeftoverOrder ==
  ASSUME EsiInv, NEW s \in Sessions, Filtered(s), NEW room \in Nat
  PROVE  LET bytes == Take(room, Leftover(slot.ctx)) IN
         /\ bytes \in Seq(ItemsOf(resp[s].req))
         /\ \A way \in Ways :
              Allows(events[resp[s].req], way) => Chain(way, out[resp[s].req] \o bytes)
  <1> DEFINE q == resp[s].req
             a == out[q]
             c == slot.ctx
             b == c.parked
             h == c.held
             e == c.hold
             bytes == Take(room, Leftover(c))
  <1>1. Live(s) /\ c \in CtxOf(q)
    BY DEF EsiInv, Owned, Filtered
  <1>2. q \in Requests /\ a \in Seq(ItemsOf(q))
    BY <1>1, LiveFacts DEF EsiInv
  <1>3. b \in Seq(ItemsOf(q)) /\ h \in Seq(ItemsOf(q)) /\ e \in Seq(ItemsOf(q))
    BY <1>1 DEF CtxOf
  <1>4. \A way \in Ways : Allows(events[q], way) => Orderly(way, a, c)
    BY DEF EsiInv, InOrderSoFar
  <1>5. \/ bytes = Take(room, b \o e)
        \/ bytes = Take(room, b \o Join(h))
        \/ bytes = Take(room, b \o Join(h \o e))
    BY DEF Leftover
  <1>6. \A way \in Ways : Allows(events[q], way) =>
          /\ Row(way, a, b, h) /\ Chain("order", e)
          /\ Link("order", Pos(a) \cup Pos(b) \cup Pos(h), Pos(e))
    BY <1>4 DEF Orderly, Everything
  <1> HIDE DEF a, b, c, h, e, bytes
  <1>7. ASSUME NEW way \in Ways, Allows(events[q], way)
        PROVE  bytes \in Seq(ItemsOf(q)) /\ Chain(way, a \o bytes)
    <2>1. /\ Row(way, a, b, h) /\ Chain("order", e)
          /\ Link("order", Pos(a) \cup Pos(b) \cup Pos(h), Pos(e))
      BY <1>6, <1>7
    <2>2. CASE bytes = Take(room, b \o e)
      <3> DEFINE x == b \o e
      <3>1. /\ Chain(way, a) /\ Chain(way, b) /\ Chain(way, e) /\ Link(way, Pos(a), Pos(b))
            /\ Link(way, Pos(a), Pos(e)) /\ Link(way, Pos(b), Pos(e))
        BY <2>1, OrderIsOnce DEF Row, Link
      <3>2. x \in Seq(ItemsOf(q)) /\ Chain(way, x) /\ Pos(x) = Pos(b) \cup Pos(e)
        BY <1>3, <3>1, ChainConcat, PosConcat, ConcatParts
      <3>3. bytes = Take(room, x)
        BY <2>2
      <3> HIDE DEF x
      <3>4. Link(way, Pos(a), Pos(x)) /\ Chain(way, a)
        BY <3>1, <3>2 DEF Link
      <3> QED
        BY <1>2, <3>2, <3>3, <3>4, SendSome
    <2>3. CASE bytes = Take(room, b \o Join(h))
      BY <1>2, <1>3, <2>1, <2>3, JoinedOrder
    <2>4. CASE bytes = Take(room, b \o Join(h \o e))
      <3> DEFINE x == h \o e
      <3>1. x \in Seq(ItemsOf(q)) /\ Row(way, a, b, x)
        BY <1>2, <1>3, <2>1, RowWithTail
      <3>2. bytes = Take(room, b \o Join(x))
        BY <2>4
      <3> HIDE DEF x
      <3> QED
        BY <1>2, <1>3, <3>1, <3>2, JoinedOrder
    <2> QED
      BY <1>5, <2>2, <2>3, <2>4
  <1>8. Allows(events[q], "once") /\ "once" \in Ways
    BY TwoWays DEF Allows
  <1>9. bytes \in Seq(ItemsOf(q)) /\ \A way \in Ways : Allows(events[q], way) => Chain(way, a \o bytes)
    BY <1>7, <1>8
  <1> QED
    BY <1>9 DEF a, bytes, c

\* The body is over or was aborted.
LEMMA RcvdInv ==
  ASSUME EsiInv, NEW s \in Sessions, NEW room \in Nat, Rcvd(s, room)
  PROVE  EsiInv'
  <1> DEFINE q == resp[s].req
             finished == IF resp[s].eof THEN {"finished"} ELSE {}
             bytes == Take(room, Leftover(slot.ctx))
             what == finished \cup EndMishaps(slot.ctx, room)
  <1>1. /\ Live(s) /\ resp' = [resp EXCEPT ![s] = Idle] /\ slot' = NoSlot
        /\ UNCHANGED <<reqs, cache, fragment>>
    BY DEF Rcvd, Reset
  <1>2. q \in Requests /\ out[q] \in Seq(ItemsOf(q))
    BY <1>1, LiveFacts DEF EsiInv
  <1>3. out \in [Requests -> Seq(Items)] /\ ends \in [Requests -> Nat]
    BY DEF EsiInv, Typed, TypeOK
  <1>4. \A way \in Ways : Allows(events[q], way) => Chain(way, out[q])
    BY <1>2 DEF EsiInv, InOrderSoFar
  <1>5. finished \in SUBSET Events /\ what \in SUBSET Events
    BY DEF Events, EndMishaps
  <1>6. CASE Filtered(s)
    <2>1. /\ out' = [out EXCEPT ![q] = out[q] \o bytes]
          /\ ends' = [ends EXCEPT ![q] = ends[q] + 1]
          /\ Happened(q, what)
      BY <1>6 DEF Rcvd, Deliver, End, Filtered
    <2>2. /\ bytes \in Seq(ItemsOf(q))
          /\ \A way \in Ways : Allows(events[q], way) => Chain(way, out[q] \o bytes)
      BY <1>6, LeftoverOrder
    <2>3. reqs[q].on
      BY <1>6 DEF EsiInv, Owned
    <2> HIDE DEF bytes, what
    <2>4. out[q] \o bytes \in Seq(ItemsOf(q)) /\ out[q] \o bytes \in Seq(Items)
      BY <1>2, <2>2, ConcatParts, OwnItems
    <2>5. /\ out' \in [Requests -> Seq(Items)] /\ out'[q] = out[q] \o bytes
          /\ \A p \in Requests : p # q => out'[p] = out[p]
      BY <1>2, <1>3, <2>1, <2>4
    <2>6. /\ ends' \in [Requests -> Nat] /\ \A p \in Requests : p # q => ends'[p] = ends[p]
      BY <1>2, <1>3, <2>1
    <2>7. \A way \in Ways : WayAfter(s, what, way) => Chain(way, out'[q])
      BY <2>2, <2>5 DEF WayAfter, Allows
    <2>8. Closes(s, what)
      BY <1>1, <1>5, <2>1, <2>3, <2>4, <2>5, <2>6, <2>7 DEF Closes
    <2> QED
      BY <2>8, ClosesInv
  <1>7. CASE ~ Filtered(s)
    <2>1. out' = out /\ ends' = ends /\ Happened(q, finished)
      BY <1>7 DEF Rcvd, Filtered
    <2> HIDE DEF finished
    <2>2. \A way \in Ways : WayAfter(s, finished, way) => Chain(way, out'[q])
      BY <1>4, <2>1 DEF WayAfter, Allows
    <2>3. Closes(s, finished)
      BY <1>1, <1>2, <1>3, <1>5, <2>1, <2>2 DEF Closes
    <2> QED
      BY <2>3, ClosesInv
  <1> QED
    BY <1>6, <1>7

\* A new request: the slot, if any, is another request's.
LEMMA UriMapInv ==
  ASSUME EsiInv, NEW s \in Sessions, NEW on \in BOOLEAN, NEW marker \in BOOLEAN,
         seq < MaxRequests, NEW page \in Pages[seq + 1], UriMap(s, page, on, marker)
  PROVE  EsiInv'
  <1> DEFINE q == seq + 1
             new == [page |-> page, on |-> on, marker |-> marker]
  <1>1. /\ resp \in [Sessions -> [req : 0 .. seq, fed : Nat, eof : BOOLEAN, buffered : BOOLEAN]]
        /\ events \in [Requests -> SUBSET Events] /\ reqs \in Seq(Requested)
        /\ slot.req \in 0 .. seq
    BY DEF EsiInv, Typed, TypeOK
  <1>2. seq \in Nat /\ q \in Nat /\ q \in Requests /\ MaxRequests \in Nat
    BY <1>1, LenProperties DEF seq, Requests
  <1>3. /\ reqs' = Append(reqs, new) /\ resp' = [resp EXCEPT ![s] = [Idle EXCEPT !.req = q]]
        /\ cache' = [session |-> s, req |-> q]
        /\ slot' = slot /\ fragment' = fragment /\ out' = out /\ ends' = ends
    BY DEF UriMap
  <1>4. new \in Requested /\ new \in [page : Pages[q], on : BOOLEAN, marker : BOOLEAN]
    BY <1>2 DEF Requested, Requests
  <1>5. /\ reqs' \in Seq(Requested) /\ seq' = q /\ reqs'[q] = new
        /\ \A p \in 1 .. seq : reqs'[p] = reqs[p]
    <2> HIDE DEF new
    <2>1. Len(reqs) = seq
      BY DEF seq
    <2>2. Append(reqs, new) \in Seq(Requested) /\ Len(Append(reqs, new)) = Len(reqs) + 1
          /\ \A p \in 1 .. Len(reqs) : Append(reqs, new)[p] = reqs[p]
          /\ Append(reqs, new)[Len(reqs) + 1] = new
      BY <1>1, <1>4, AppendProperties
    <2>3. seq' = Len(reqs')
      BY DEF seq
    <2> QED
      BY <1>3, <2>1, <2>2, <2>3
  <1>6. /\ resp'[s].req = q /\ resp'[s].fed = 0
        /\ \A t \in Sessions : t # s => resp'[t] = resp[t]
    BY <1>1, <1>3 DEF Idle
  <1>7. \A t \in Sessions : ~ SlotIsFor(t)' /\ ~ Filtered(t)'
    BY <1>1, <1>2, <1>3, <1>5 DEF SlotIsFor, Filtered
  <1>8. /\ events' \in [Requests -> SUBSET Events]
        /\ \A p \in Requests : events[p] \subseteq events'[p]
    <2>1. "shared" \in Events
      BY DEF Events
    <2> DEFINE others == {resp[t].req : t \in {t \in Sessions \ {s} : Live(t)}}
    <2>2. events' = IF others = {}
                      THEN events
                      ELSE [p \in Requests |->
                              IF p \in others \cup {q} THEN events[p] \cup {"shared"} ELSE events[p]]
      BY DEF UriMap
    <2> HIDE DEF others
    <2>3. CASE others = {}
      BY <1>1, <2>2, <2>3
    <2>4. CASE others # {}
      BY <1>1, <2>1, <2>2, <2>4
    <2> QED
      BY <2>3, <2>4
  <1>9. \A p \in Requests : \A way : Allows(events'[p], way) => Allows(events[p], way)
    BY <1>8 DEF Allows
  <1>10. \A t \in Sessions : t # s => resp[t].req \in 0 .. seq /\ resp[t].req # q
    BY <1>1, <1>2
  <1>11. out[q] = <<>> /\ ends[q] = 0 /\ seq < q
    BY <1>2 DEF EsiInv, Fresh
  <1>12. Typed'
    <2>1. resp' \in [Sessions -> [req : 0 .. q, fed : Nat, eof : BOOLEAN, buffered : BOOLEAN]]
      <3>1. [Idle EXCEPT !.req = q] \in [req : 0 .. q, fed : Nat, eof : BOOLEAN, buffered : BOOLEAN]
        <4>1. q \in 0 .. q /\ 0 \in 0 .. q
          BY <1>2
        <4> HIDE DEF q
        <4>2. Idle \in [req : 0 .. q, fed : Nat, eof : BOOLEAN, buffered : BOOLEAN]
          BY <4>1 DEF Idle
        <4> QED
          BY <4>1, <4>2
      <3>2. \A t \in Sessions :
              resp[t] \in [req : 0 .. q, fed : Nat, eof : BOOLEAN, buffered : BOOLEAN]
        BY <1>1, <1>2
      <3> QED
        BY <1>1, <1>3, <3>1, <3>2
    <2>2. cache' \in [session : Sessions \cup {NoSession}, req : 0 .. q]
      BY <1>2, <1>3
    <2>3. slot' \in [session : Sessions \cup {NoSession}, req : 0 .. q, ctx : Contexts \cup {NoCtx}]
      <3>1. slot \in [session : Sessions \cup {NoSession}, req : 0 .. seq,
                      ctx : Contexts \cup {NoCtx}]
        BY DEF EsiInv, Typed, TypeOK
      <3> QED
        BY <1>2, <1>3, <3>1
    <2>4. \A p \in 1 .. q : reqs'[p] \in [page : Pages[p], on : BOOLEAN, marker : BOOLEAN]
      <3> TAKE p \in 1 .. q
      <3>1. CASE p = q
        BY <1>4, <1>5, <3>1
      <3>2. CASE p # q
        <4>1. p \in 1 .. seq
          BY <1>2, <3>2
        <4>2. reqs[p] \in [page : Pages[p], on : BOOLEAN, marker : BOOLEAN]
          BY <4>1 DEF EsiInv, Typed, TypeOK
        <4> QED
          BY <1>5, <4>1, <4>2
      <3> QED
        BY <3>1, <3>2
    <2>5. q <= MaxRequests
      BY <1>2
    <2>6. TypeOK'
      <3> HIDE DEF q
      <3> QED
        BY <1>3, <1>5, <1>8, <2>1, <2>2, <2>3, <2>4, <2>5 DEF EsiInv, Typed, TypeOK
    <2> QED
      BY <1>3, <1>5, <2>6 DEF EsiInv, Typed
  <1>13. Fresh'
    <2>1. \A p \in Requests : p > q => out'[p] = <<>> /\ ends'[p] = 0
      <3> TAKE p \in Requests
      <3> HAVE p > q
      <3>1. p > seq
        BY <1>2 DEF Requests
      <3> QED
        BY <1>3, <3>1 DEF EsiInv, Fresh
    <2>2. ASSUME NEW t \in Sessions, NEW u \in Sessions, Live(t)', resp'[t].req = resp'[u].req
          PROVE  t = u
      <3>1. CASE t = s \/ u = s
        BY <1>6, <1>10, <2>2, <3>1
      <3>2. CASE t # s /\ u # s
        <4>1. Live(t) /\ resp[t].req = resp[u].req
          BY <1>6, <2>2, <3>2 DEF Live
        <4> QED
          BY <4>1 DEF EsiInv, Fresh
      <3> QED
        BY <3>1, <3>2
    <2> QED
      BY <1>5, <2>1, <2>2 DEF Fresh
  <1>14. Owned'
    <2>1. \A t \in Sessions : cache'.session = t => resp'[t].req = cache'.req
      BY <1>3, <1>6
    <2> QED
      BY <1>7, <2>1 DEF Owned
  <1>15. InOrderSoFar'
    <2>1. \A p \in Requests, way \in Ways : Allows(events'[p], way) => Chain(way, out'[p])
      BY <1>3, <1>9 DEF EsiInv, InOrderSoFar
    <2>2. \A t \in Sessions : Live(t)' => UpTo(resp'[t].fed, Pos(out'[resp'[t].req]))
      <3> TAKE t \in Sessions
      <3> HAVE Live(t)'
      <3>1. CASE t = s
        <4>1. Pos(out[q]) = {}
          BY <1>11, ChainEmpty, TwoWays
        <4> QED
          BY <1>3, <1>6, <3>1, <4>1 DEF UpTo
      <3>2. CASE t # s
        BY <1>3, <1>6, <3>2 DEF EsiInv, InOrderSoFar, Live
      <3> QED
        BY <3>1, <3>2
    <2> QED
      BY <1>7, <2>1, <2>2 DEF InOrderSoFar
  <1>16. Untouched'
    <2>1. \A p \in Requests : p <= q /\ ~ reqs'[p].on => Positions(out'[p]) = [i \in DOMAIN out'[p] |-> i]
      <3> TAKE p \in Requests
      <3> HAVE p <= q /\ ~ reqs'[p].on
      <3>1. CASE p = q
        <4>1. \A i \in DOMAIN out'[p] : out'[p][i].pos = i
          BY <1>3, <1>11, <3>1
        <4> QED
          BY <4>1 DEF Positions
      <3>2. CASE p # q
        <4>1. p \in 1 .. seq
          BY <1>2, <3>2 DEF Requests
        <4>2. reqs'[p] = reqs[p] /\ p <= seq
          BY <1>5, <4>1
        <4> QED
          BY <1>3, <4>2 DEF EsiInv, Untouched
      <3> QED
        BY <3>1, <3>2
    <2>2. ASSUME NEW t \in Sessions, Live(t)', ~ reqs'[resp'[t].req].on
          PROVE  resp'[t].fed = Len(out'[resp'[t].req])
      <3>1. CASE t = s
        BY <1>3, <1>6, <1>11, <3>1, EmptySeq
      <3>2. CASE t # s
        <4>1. Live(t) /\ resp'[t] = resp[t]
          BY <1>6, <2>2, <3>2 DEF Live
        <4>2. resp[t].req \in 1 .. seq
          BY <4>1, LiveFacts DEF EsiInv
        <4>3. reqs'[resp[t].req] = reqs[resp[t].req]
          BY <1>5, <4>2
        <4> QED
          BY <1>3, <2>2, <4>1, <4>3 DEF EsiInv, Untouched
      <3> QED
        BY <3>1, <3>2
    <2> QED
      BY <1>5, <2>1, <2>2 DEF Untouched
  <1>17. Ended'
    <2>1. ASSUME NEW t \in Sessions, Live(t)', ends'[resp'[t].req] > 0
          PROVE  resp'[t].eof /\ ~ resp'[t].buffered
      <3>1. CASE t = s
        BY <1>3, <1>6, <1>11, <2>1, <3>1
      <3>2. CASE t # s
        BY <1>3, <1>6, <2>1, <3>2 DEF EsiInv, Ended, Live
      <3> QED
        BY <3>1, <3>2
    <2> QED
      BY <1>7, <2>1 DEF Ended
  <1> QED
    BY <1>12, <1>13, <1>14, <1>15, <1>16, <1>17 DEF EsiInv

\* The response header: the directives are dropped.
LEMMA SendRespHeaderInv ==
  ASSUME EsiInv, NEW s \in Sessions, SendRespHeader(s)
  PROVE  EsiInv'
  <1> DEFINE q == resp[s].req
             what == IF SlotIsFor(s) \/ resp[s].fed > 0 THEN {} ELSE {"header"}
  <1>1. /\ Live(s) /\ cache' = [session |-> NoSession, req |-> 0]
        /\ events' = [events EXCEPT ![q] = events[q] \cup what]
        /\ reqs' = reqs /\ resp' = resp /\ slot' = slot /\ fragment' = fragment
        /\ out' = out /\ ends' = ends /\ seq' = seq
    BY DEF SendRespHeader, Happened, seq
  <1>2. q \in Requests /\ seq \in Nat
    BY <1>1, LiveFacts DEF EsiInv
  <1>3. events \in [Requests -> SUBSET Events]
    BY DEF EsiInv, Typed, TypeOK
  <1>4. what \in SUBSET Events
    BY DEF Events
  <1> HIDE DEF what
  <1>5. /\ events' \in [Requests -> SUBSET Events]
        /\ \A p \in Requests : events[p] \subseteq events'[p]
    BY <1>1, <1>2, <1>3, <1>4
  <1>6. \A p \in Requests : \A way : Allows(events'[p], way) => Allows(events[p], way)
    BY <1>5 DEF Allows
  <1>7. \A t \in Sessions : /\ Live(t)' <=> Live(t)
                            /\ SlotIsFor(t)' <=> SlotIsFor(t)
                            /\ Filtered(t)' <=> Filtered(t)
    BY <1>1 DEF Live, SlotIsFor, Filtered
  <1>8. Typed'
    <2>1. cache' \in [session : Sessions \cup {NoSession}, req : 0 .. seq]
      BY <1>1, <1>2
    <2>2. TypeOK'
      BY <1>1, <1>5, <2>1 DEF EsiInv, Typed, TypeOK
    <2> QED
      BY <1>1, <2>2 DEF EsiInv, Typed
  <1>9. Fresh'
    BY <1>1, <1>7 DEF EsiInv, Fresh
  <1>10. Owned'
    BY <1>1, <1>7 DEF EsiInv, Owned
  <1>11. InOrderSoFar'
    <2>1. \A p \in Requests, way \in Ways : Allows(events'[p], way) => Chain(way, out'[p])
      BY <1>1, <1>6 DEF EsiInv, InOrderSoFar
    <2>2. \A t \in Sessions : Live(t)' => UpTo(resp'[t].fed, Pos(out'[resp'[t].req]))
      BY <1>1, <1>7 DEF EsiInv, InOrderSoFar
    <2>3. ASSUME NEW t \in Sessions, Filtered(t)'
          PROVE  /\ \A way \in Ways :
                      Allows(events'[resp'[t].req], way) => Orderly(way, out'[resp'[t].req], slot'.ctx)
                 /\ UpTo(resp'[t].fed, Everything(out'[resp'[t].req], slot'.ctx) \cup Pos(slot'.ctx.hold))
      <3>1. Filtered(t)
        BY <1>7, <2>3
      <3>2. resp[t].req \in Requests
        BY <3>1, LiveFacts DEF EsiInv, Owned, Filtered
      <3>3. \A way \in Ways :
              Allows(events'[resp[t].req], way) => Allows(events[resp[t].req], way)
        BY <1>6, <3>2
      <3>4. /\ \A way \in Ways :
                 Allows(events[resp[t].req], way) => Orderly(way, out[resp[t].req], slot.ctx)
            /\ UpTo(resp[t].fed, Everything(out[resp[t].req], slot.ctx) \cup Pos(slot.ctx.hold))
        BY <3>1 DEF EsiInv, InOrderSoFar
      <3> QED
        BY <1>1, <3>3, <3>4
    <2> QED
      BY <2>1, <2>2, <2>3 DEF InOrderSoFar
  <1>12. Untouched'
    BY <1>1, <1>7 DEF EsiInv, Untouched
  <1>13. Ended'
    BY <1>1, <1>7 DEF EsiInv, Ended
  <1> QED
    BY <1>8, <1>9, <1>10, <1>11, <1>12, <1>13 DEF EsiInv

----------------------------------------------------------------------------
(***************************************************************************)
(* The theorems.                                                           *)
(***************************************************************************)

\* Before the first request.
LEMMA InitInv == Init => EsiInv
  <1> SUFFICES ASSUME Init PROVE EsiInv
    OBVIOUS
  <1>1. /\ reqs = <<>> /\ resp = [s \in Sessions |-> Idle]
        /\ cache = [session |-> NoSession, req |-> 0] /\ slot = NoSlot /\ fragment = FALSE
        /\ out = [q \in Requests |-> <<>>] /\ ends = [q \in Requests |-> 0]
        /\ events = [q \in Requests |-> {}]
    BY DEF Init
  <1>2. seq = 0
    BY <1>1, EmptySeq DEF seq
  <1>3. \A s \in Sessions : ~ Live(s) /\ ~ SlotIsFor(s) /\ ~ Filtered(s)
    BY <1>1 DEF Live, Idle, SlotIsFor, Filtered, NoSlot
  <1>4. Typed
    <2>1. Idle \in [req : 0 .. seq, fed : Nat, eof : BOOLEAN, buffered : BOOLEAN]
      BY <1>2 DEF Idle
    <2>2. resp \in [Sessions -> [req : 0 .. seq, fed : Nat, eof : BOOLEAN, buffered : BOOLEAN]]
      BY <1>1, <2>1
    <2>3. /\ slot \in [session : Sessions \cup {NoSession}, req : 0 .. seq,
                       ctx : Contexts \cup {NoCtx}]
          /\ slot.ctx = NoCtx
      BY <1>1, <1>2 DEF NoSlot
    <2>4. out \in [Requests -> Seq(Items)] /\ \A q \in Requests : out[q] \in Seq(ItemsOf(q))
      BY <1>1, EmptySeq
    <2>5. TypeOK
      <3>1. /\ seq <= MaxRequests
            /\ \A q \in 1 .. seq : reqs[q] \in [page : Pages[q], on : BOOLEAN, marker : BOOLEAN]
        BY <1>2
      <3>2. cache \in [session : Sessions \cup {NoSession}, req : 0 .. seq]
        BY <1>1, <1>2
      <3>3. fragment \in BOOLEAN /\ ends \in [Requests -> Nat] /\ events \in [Requests -> SUBSET Events]
        BY <1>1
      <3> QED
        BY <2>2, <2>3, <2>4, <3>1, <3>2, <3>3 DEF TypeOK
    <2>6. reqs \in Seq(Requested)
      BY <1>1, EmptySeq
    <2> QED
      BY <2>4, <2>5, <2>6 DEF Typed
  <1>5. Fresh
    BY <1>1, <1>3 DEF Fresh
  <1>6. Owned
    BY <1>3 DEF Owned
  <1>7. InOrderSoFar
    <2>1. \A way \in Ways : Chain(way, <<>>)
      BY ChainEmpty
    <2> QED
      BY <1>1, <1>3, <2>1 DEF InOrderSoFar
  <1>8. Untouched
    <2>1. \A q \in Requests : ~ (q <= seq)
      BY <1>2 DEF Requests
    <2> QED
      BY <1>3, <2>1 DEF Untouched
  <1>9. Ended
    BY <1>3 DEF Ended
  <1> QED
    BY <1>4, <1>5, <1>6, <1>7, <1>8, <1>9 DEF EsiInv

\* The network takes in some atoms, and the page has some.
LEMMA Amounts ==
  ASSUME EsiInv, NEW s \in Sessions, Live(s), NEW room \in Rooms, NEW n \in 0 .. PageLength(s)
  PROVE  room \in Nat /\ n \in Nat
  <1>1. reqs[resp[s].req].page \in Seq(Kinds)
    BY LiveFacts DEF EsiInv, Requested
  <1>2. PageLength(s) \in Nat
    BY <1>1, LenProperties DEF PageLength
  <1> QED
    BY <1>2

\* Every step preserves the invariant.
LEMMA NextInv == EsiInv /\ [Next]_vars => EsiInv'
  <1> SUFFICES ASSUME EsiInv, [Next]_vars PROVE EsiInv'
    OBVIOUS
  <1>1. ASSUME NEW s \in Sessions, NEW on \in BOOLEAN, NEW marker \in BOOLEAN,
               seq < MaxRequests, NEW page \in Pages[seq + 1], UriMap(s, page, on, marker)
        PROVE  EsiInv'
    BY <1>1, UriMapInv
  <1>2. ASSUME NEW s \in Sessions, SendRespHeader(s) PROVE EsiInv'
    BY <1>2, SendRespHeaderInv
  <1>3. ASSUME NEW s \in Sessions, NEW room \in Rooms, Live(s), NEW n \in 0 .. PageLength(s),
               Recv(s, n, room)
        PROVE  EsiInv'
    <2>1. room \in Nat /\ n \in Nat
      BY <1>3, Amounts
    <2>2. ASSUME NEW eof \in BOOLEAN, Forward(s, n, eof, room) PROVE EsiInv'
      BY <2>1, <2>2, ForwardInv
    <2>3. ASSUME NEW eof \in BOOLEAN, StillBlocked(s, n, eof, room) PROVE EsiInv'
      BY <2>1, <2>3, StillBlockedInv
    <2>4. CASE Hold(s, n, room)
      BY <2>1, <2>4, HoldInv
    <2>5. CASE Stream(s, n, room)
      BY <2>1, <2>5, StreamInv
    <2>6. CASE EndHeld(s, n, room)
      BY <2>1, <2>6, EndHeldInv
    <2>7. CASE EndStream(s, n, room)
      BY <2>1, <2>7, EndStreamInv
    <2> QED
      BY <1>3, <2>2, <2>3, <2>4, <2>5, <2>6, <2>7 DEF Recv
  <1>4. ASSUME NEW s \in Sessions, NEW room \in Rooms, Rcvd(s, room) PROVE EsiInv'
    <2>1. room \in Nat
      OBVIOUS
    <2> QED
      BY <1>4, <2>1, RcvdInv
  <1>5. CASE UNCHANGED vars
    <2>1. /\ reqs' = reqs /\ resp' = resp /\ cache' = cache /\ slot' = slot
          /\ fragment' = fragment /\ out' = out /\ ends' = ends /\ events' = events
          /\ seq' = seq
      BY <1>5 DEF vars, seq
    <2>2. \A t \in Sessions : /\ Live(t)' <=> Live(t)
                              /\ SlotIsFor(t)' <=> SlotIsFor(t)
                              /\ Filtered(t)' <=> Filtered(t)
      BY <2>1 DEF Live, SlotIsFor, Filtered
    <2>3. Typed' /\ Fresh'
      BY <2>1, <2>2 DEF EsiInv, Typed, TypeOK, Fresh
    <2>4. Owned' /\ InOrderSoFar'
      BY <2>1, <2>2 DEF EsiInv, Owned, InOrderSoFar
    <2>5. Untouched' /\ Ended'
      BY <2>1, <2>2 DEF EsiInv, Untouched, Ended
    <2> QED
      BY <2>3, <2>4, <2>5 DEF EsiInv
  <1> QED
    BY <1>1, <1>2, <1>3, <1>4, <1>5 DEF Next

\* The inductive invariant holds always.
LEMMA AlwaysInv == Spec => []EsiInv
  BY InitInv, NextInv, PTL DEF Spec

(***************************************************************************)
(* The filter's state has its type; a partial tag is never longer than     *)
(* ESI_HOLD_MAX, nor the output held longer than ESI_MAX_BUFFER.           *)
(***************************************************************************)
THEOREM TypeCorrect == Spec => []TypeOK
  <1>1. EsiInv => TypeOK
    BY DEF EsiInv, Typed
  <1> QED
    BY <1>1, AlwaysInv, PTL

(***************************************************************************)
(* No client receives a byte of another response, for any number of        *)
(* sessions sharing the worker's variables, in any order of their hooks.   *)
(***************************************************************************)
THEOREM OwnBytesOnly == Spec => []NoCrossTalk
  <1>1. ASSUME EsiInv PROVE NoCrossTalk
    <2>1. ASSUME NEW q \in Requests, NEW i \in DOMAIN out[q] PROVE out[q][i].req = q
      <3>1. out[q] \in Seq(ItemsOf(q))
        BY <1>1 DEF EsiInv, Typed
      <3>2. out[q][i] \in ItemsOf(q)
        BY <3>1, LenProperties, ElementOfSeq
      <3> QED
        BY <3>2 DEF ItemsOf
    <2> QED
      BY <2>1 DEF NoCrossTalk
  <1> QED
    BY <1>1, AlwaysInv, PTL

(***************************************************************************)
(* No byte is delivered twice, however the network blocks; unless the      *)
(* filter gave up holding, all come in the order of the page; and without  *)
(* the filter, what was sent is the beginning of the page.                 *)
(***************************************************************************)
THEOREM SentOnceInOrder == Spec => []DeliveredOnce
  <1>1. ASSUME EsiInv PROVE DeliveredOnce
    <2>1. ASSUME NEW q \in Requests
          PROVE  \A i, j \in DOMAIN out[q] : out[q][i].pos = out[q][j].pos => i = j
      <3>1. Chain("once", out[q])
        BY <1>1, TwoWays DEF EsiInv, InOrderSoFar, Allows
      <3>2. out[q] \in Seq(ItemsOf(q))
        BY <1>1 DEF EsiInv, Typed
      <3>3. DOMAIN out[q] = 1 .. Len(out[q]) /\ Len(out[q]) \in Nat
        BY <3>2, LenProperties
      <3> QED
        BY <3>1, <3>3 DEF Chain
    <2>2. ASSUME NEW q \in Requests PROVE InOrder(q) \/ "gave up" \in events[q]
      <3>1. Allows(events[q], "order") => Chain("order", out[q])
        BY <1>1, TwoWays DEF EsiInv, InOrderSoFar
      <3> QED
        BY <3>1 DEF Allows, Chain, InOrder
    <2>3. ASSUME NEW q \in Requests, q <= seq, ~ reqs[q].on
          PROVE  Positions(out[q]) = [i \in DOMAIN out[q] |-> i]
      BY <1>1, <2>3 DEF EsiInv, Untouched
    <2> QED
      BY <2>1, <2>2, <2>3 DEF DeliveredOnce
  <1> QED
    BY <1>1, AlwaysInv, PTL

\* A call of the body hook sends to its own client, whose stream has not ended.
LEMMA SendsToItsOwn ==
  ASSUME EsiInv, NEW s \in Sessions, NEW n \in Nat, NEW room, Recv(s, n, room)
  PROVE  /\ ends[resp[s].req] = 0
         /\ \E bytes : Deliver(s, bytes)
         /\ UNCHANGED ends \/ End(s)
  <1>1. ASSUME NEW eof, Receives(s, n, eof) PROVE ends[resp[s].req] = 0
    BY <1>1, ReceivesFacts
  <1>2. CASE \E eof \in BOOLEAN : Forward(s, n, eof, room)
    BY <1>1, <1>2 DEF Forward
  <1>3. CASE \E eof \in BOOLEAN : StillBlocked(s, n, eof, room)
    BY <1>1, <1>3 DEF StillBlocked
  <1>4. CASE Hold(s, n, room)
    BY <1>1, <1>4 DEF Hold, Filtering
  <1>5. CASE Stream(s, n, room)
    BY <1>1, <1>5 DEF Stream, Filtering
  <1>6. CASE EndHeld(s, n, room)
    BY <1>1, <1>6 DEF EndHeld, Filtering
  <1>7. CASE EndStream(s, n, room)
    <2>1. Receives(s, n, TRUE)
      BY <1>7 DEF EndStream, Filtering
    <2> DEFINE p == Processed(s, n)
               parked == Context(s).parked
               rest == Drop(Left(room, parked), p.out)
               tail == Drop(Left(room, parked), p.out \o p.hold)
    <2>2. \/ rest # <<>>
          \/ rest = <<>> /\ tail # <<>>
          \/ tail = <<>>
      OBVIOUS
    <2>3. \/ Deliver(s, Take(room, parked \o p.out)) /\ UNCHANGED ends
          \/ Deliver(s, Take(room, parked \o p.out \o p.hold)) /\ UNCHANGED ends
          \/ Deliver(s, parked \o p.out \o p.hold) /\ End(s)
      BY <1>7, <2>2 DEF EndStream
    <2> HIDE DEF p, parked
    <2> QED
      BY <1>1, <2>1, <2>3
  <1> QED
    BY <1>2, <1>3, <1>4, <1>5, <1>6, <1>7 DEF Recv

(***************************************************************************)
(* Once its stream is ended nothing more is sent for a request, and its    *)
(* stream is not ended again: not by a late call, nor by the safety net.   *)
(***************************************************************************)
THEOREM EndedIsOver == Spec => NothingAfterEnd
  <1>1. ASSUME EsiInv, [Next]_vars, NEW q \in Requests, ends[q] > 0
        PROVE  out'[q] = out[q] /\ ends'[q] = ends[q]
    <2>1. /\ out \in [Requests -> Seq(Items)] /\ ends \in [Requests -> Nat]
      BY <1>1 DEF EsiInv, Typed, TypeOK
    <2>2. ASSUME NEW s \in Sessions, ends[resp[s].req] = 0, NEW bytes, Deliver(s, bytes),
                 UNCHANGED ends \/ End(s)
          PROVE  out'[q] = out[q] /\ ends'[q] = ends[q]
      <3>1. q # resp[s].req
        BY <1>1, <2>1, <2>2
      <3>2. out' = [out EXCEPT ![resp[s].req] = out[resp[s].req] \o bytes]
        BY <2>2 DEF Deliver
      <3>3. ends' = ends \/ ends' = [ends EXCEPT ![resp[s].req] = ends[resp[s].req] + 1]
        BY <2>2 DEF End
      <3> QED
        BY <2>1, <3>1, <3>2, <3>3
    <2>3. ASSUME NEW s \in Sessions, NEW on, NEW marker, NEW page, UriMap(s, page, on, marker)
          PROVE  out' = out /\ ends' = ends
      BY <2>3 DEF UriMap
    <2>4. ASSUME NEW s \in Sessions, SendRespHeader(s) PROVE out' = out /\ ends' = ends
      BY <2>4 DEF SendRespHeader
    <2>5. ASSUME NEW s \in Sessions, NEW room \in Rooms, Live(s), NEW n \in 0 .. PageLength(s),
                 Recv(s, n, room)
          PROVE  out'[q] = out[q] /\ ends'[q] = ends[q]
      <3>1. n \in Nat
        BY <1>1, <2>5, Amounts
      <3>2. /\ ends[resp[s].req] = 0
            /\ \E bytes : Deliver(s, bytes)
            /\ UNCHANGED ends \/ End(s)
        BY <1>1, <2>5, <3>1, SendsToItsOwn
      <3> QED
        BY <2>2, <3>2
    <2>6. ASSUME NEW s \in Sessions, NEW room \in Rooms, Rcvd(s, room)
          PROVE  out'[q] = out[q] /\ ends'[q] = ends[q]
      <3>1. CASE Filtered(s)
        <4>1. Live(s) /\ Deliver(s, Take(room, Leftover(slot.ctx))) /\ End(s)
          BY <2>6, <3>1 DEF Rcvd, Filtered
        <4>2. resp[s].req \in Requests
          BY <1>1, <4>1, LiveFacts DEF EsiInv
        <4>3. ~ (ends[resp[s].req] > 0)
          BY <1>1, <3>1, <4>1 DEF EsiInv, Ended
        <4>4. ends[resp[s].req] = 0
          BY <2>1, <4>2, <4>3
        <4> QED
          BY <2>2, <4>1, <4>4
      <3>2. CASE ~ Filtered(s)
        BY <2>6, <3>2 DEF Rcvd, Filtered
      <3> QED
        BY <3>1, <3>2
    <2>7. CASE UNCHANGED vars
      BY <2>7 DEF vars
    <2> QED
      BY <1>1, <2>3, <2>4, <2>5, <2>6, <2>7 DEF Next
  <1>2. EsiInv /\ [Next]_vars =>
          [\A q \in Requests : ends[q] > 0 => out'[q] = out[q] /\ ends'[q] = ends[q]]_vars
    BY <1>1
  <1> QED
    BY <1>2, AlwaysInv, PTL DEF Spec, NothingAfterEnd

----------------------------------------------------------------------------

(***************************************************************************)
(* A response and its page, read: r.at says where the page is after each   *)
(* of its atoms.                                                           *)
(***************************************************************************)
Reading(r) ==
  /\ r.page \in Seq(Kinds) /\ r.marker \in BOOLEAN
  /\ Reads(r.page, r.at)

Atom(r, i) == [req |-> r.q, pos |-> i, kind |-> r.page[i]]

\* The atoms after j, up to k.
Between(r, j, k) == [i \in 1 .. k - j |-> Atom(r, j + i)]

ModeAt(r, g) ==
  CASE r.at[g] \in {"strip", "endremove<"} -> "strip"
    [] r.at[g] \in {"vars", "endvars<"}    -> "vars"
    [] r.at[g] \in {"pass"} \cup Heads     -> "pass"

\* The tag that begins at k is still open at g.
OpenTag(r, k, g) ==
  /\ k \in 1 .. g /\ r.at[k - 1] = "pass"
  /\ r.page[k] = r.at[g] /\ r.at[g] \in Heads
  /\ \A m \in k + 1 .. g : r.page[m] = "attr"

\* The tag that begins at i is a dynamic include that j closes.
ClosedTag(r, i, j) ==
  /\ r.page[i] \in {"dyn<", "gone<"} /\ r.at[i] = r.page[i]
  /\ r.at[j - 1] = r.page[i] /\ r.at[j] = "pass"
  /\ \A m \in i + 1 .. j - 1 : r.page[m] = "attr"

Includes(r, g) == {i \in 1 .. g : \E j \in i + 1 .. g : ClosedTag(r, i, j)}

Texts(r, g) == {i \in 1 .. g : r.page[i] = "text" /\ r.at[i] \in {"pass", "vars"}}

\* What the filter makes of the first g atoms.
Stuff(r, g) ==
  {Atom(r, i) : i \in Texts(r, g)}
    \cup (IF r.marker THEN {} ELSE {Placeholder(Atom(r, i)) : i \in Includes(r, g)})

TagOf(r, g, hold) ==
  /\ hold # <<>> => \E k \in 1 .. g : OpenTag(r, k, g) /\ hold = Between(r, k - 1, g)
  /\ r.at[g] \in Heads => hold # <<>>

Settled(s) == \A x \in Range(s) : x.kind \notin {"dyn", "gone"}

NoIncludes(r, g) == r.marker \/ Includes(r, g) = {}

\* A context after f atoms of the page.
Steady(r, f, sent, ctx) ==
  /\ ctx.mode = ModeAt(r, f) /\ r.at[f] \notin {"endremove<", "endvars<"}
  /\ TagOf(r, f, ctx.hold)
  /\ Range(sent) \cup Range(ctx.parked) \cup Range(ctx.held) = Stuff(r, f)
  /\ ctx.holding \/ (ctx.held = <<>> /\ NoIncludes(r, f))
  /\ Settled(sent) /\ Settled(ctx.parked)

\* The tag that is still open there.
OpenPart(r, g) == {Atom(r, i) : i \in {i \in 1 .. g : \E k \in 1 .. i : OpenTag(r, k, g)}}

\* A context after the end of the page, when it is about to be closed.
Flushed(r, f, sent, ctx) ==
  /\ ctx.hold = <<>> /\ ctx.held = <<>> /\ ~ ctx.holding
  /\ Range(sent) \cup Range(ctx.parked) = Stuff(r, f) \cup OpenPart(r, f)
  /\ NoIncludes(r, f)
  /\ Settled(sent) /\ Settled(ctx.parked)

(***************************************************************************)
(* A response to which nothing happened has the worker for itself, and has *)
(* sent or keeps all of what was handed over.                              *)
(***************************************************************************)
Clean(q) == events[q] \subseteq {"header", "finished"}

Unfiltered(q) == ~ reqs[q].on \/ "header" \in events[q]

ReadingOf(q) ==
  [q |-> q, page |-> reqs[q].page, marker |-> reqs[q].marker,
   at |-> CHOOSE at : Reads(reqs[q].page, at)]

Complete(q) ==
  /\ Range(Positions(out[q])) = {i \in DOMAIN reqs[q].page : Kept(q, i)}
  /\ Settled(out[q])

Lone ==
  \A s \in Sessions : Live(s) /\ Clean(resp[s].req) =>
    resp[s].req = seq /\ \A t \in Sessions : Live(t) => t = s

Progress(s) ==
  LET q == resp[s].req IN
  /\ resp[s].fed <= PageLength(s) /\ (resp[s].eof => resp[s].fed = PageLength(s))
  /\ ~ SlotIsFor(s) /\ ends[q] = 0 =>
       /\ resp[s].fed = 0 /\ out[q] = <<>> /\ ~ resp[s].eof /\ ~ resp[s].buffered
       /\ Unfiltered(q) \/ CacheIsFor(s)
  /\ "header" \in events[q] => ~ CacheIsFor(s) /\ ~ (SlotIsFor(s) /\ slot.ctx # NoCtx)
  /\ SlotIsFor(s) /\ slot.ctx = NoCtx =>
       Unfiltered(q) /\ Range(out[q]) = Range(Between(ReadingOf(q), 0, resp[s].fed))
  /\ SlotIsFor(s) /\ slot.ctx # NoCtx =>
       /\ \/ Steady(ReadingOf(q), resp[s].fed, out[q], slot.ctx)
          \/ resp[s].eof /\ Flushed(ReadingOf(q), resp[s].fed, out[q], slot.ctx)
       /\ slot.ctx.subrequest = reqs[q].marker
  /\ ends[q] > 0 => Complete(q)

AllFinished ==
  /\ \A q \in Requests : "finished" \in events[q] /\ Clean(q) => Complete(q)
  /\ \A q \in Requests : q > seq => events[q] = {}
  /\ \A s \in Sessions : Live(s) => "finished" \notin events[resp[s].req]

WholeInv ==
  /\ Lone /\ AllFinished
  /\ \A s \in Sessions : Live(s) /\ Clean(resp[s].req) => Progress(s)

----------------------------------------------------------------------------
(***************************************************************************)
(* The elements of sequences.                                              *)
(***************************************************************************)

\* The elements of two parts, of a part and one more, of what is taken and left.
LEMMA RangeConcat ==
  ASSUME NEW S, NEW s \in Seq(S), NEW t \in Seq(S)
  PROVE  Range(s \o t) = Range(s) \cup Range(t)
  <1>1. /\ s \o t \in Seq(S) /\ Len(s \o t) = Len(s) + Len(t)
        /\ Len(s) \in Nat /\ Len(t) \in Nat
        /\ DOMAIN s = 1 .. Len(s) /\ DOMAIN t = 1 .. Len(t)
        /\ DOMAIN (s \o t) = 1 .. Len(s) + Len(t)
        /\ \A i \in 1 .. Len(s) : (s \o t)[i] = s[i]
        /\ \A i \in 1 .. Len(t) : (s \o t)[Len(s) + i] = t[i]
    BY ConcatParts
  <1>2. ASSUME NEW x \in Range(s \o t) PROVE x \in Range(s) \cup Range(t)
    <2>1. PICK i \in 1 .. Len(s) + Len(t) : x = (s \o t)[i]
      BY <1>1 DEF Range
    <2>2. CASE i <= Len(s)
      BY <1>1, <2>1, <2>2 DEF Range
    <2>3. CASE i > Len(s)
      <3>1. i - Len(s) \in 1 .. Len(t) /\ i = Len(s) + (i - Len(s))
        BY <1>1, <2>3
      <3> QED
        BY <1>1, <2>1, <3>1 DEF Range
    <2> QED
      BY <1>1, <2>2, <2>3
  <1>3. ASSUME NEW i \in 1 .. Len(s) PROVE s[i] \in Range(s \o t)
    <2>1. i \in DOMAIN (s \o t)
      BY <1>1
    <2> QED
      BY <1>1, <2>1 DEF Range
  <1>4. ASSUME NEW i \in 1 .. Len(t) PROVE t[i] \in Range(s \o t)
    <2>1. Len(s) + i \in DOMAIN (s \o t)
      BY <1>1
    <2> QED
      BY <1>1, <2>1 DEF Range
  <1>5. \A x \in Range(s) \cup Range(t) : x \in Range(s \o t)
    BY <1>1, <1>3, <1>4 DEF Range
  <1> QED
    BY <1>2, <1>5

\* What a sequence holds when an element is appended.
LEMMA RangeAppend ==
  ASSUME NEW S, NEW s \in Seq(S), NEW a \in S
  PROVE  Range(Append(s, a)) = Range(s) \cup {a}
  <1>1. /\ Append(s, a) \in Seq(S) /\ DOMAIN Append(s, a) = 1 .. Len(s) + 1
        /\ Len(s) \in Nat /\ DOMAIN s = 1 .. Len(s)
        /\ \A i \in 1 .. Len(s) : Append(s, a)[i] = s[i]
        /\ Append(s, a)[Len(s) + 1] = a
    BY AppendProperties, LenProperties
  <1> QED
    BY <1>1 DEF Range

\* What the empty sequence holds, and any other at most.
LEMMA RangeEmpty ==
  /\ Range(<<>>) = {}
  /\ \A S : \A s \in Seq(S) : Range(s) \subseteq S
  <1>1. Range(<<>>) = {}
    BY DEF Range
  <1>2. ASSUME NEW S, NEW s \in Seq(S) PROVE Range(s) \subseteq S
    BY <1>2, LenProperties, ElementOfSeq DEF Range
  <1> QED
    BY <1>1, <1>2

\* The two parts of a cut sequence hold what it holds.
LEMMA RangeTake ==
  ASSUME NEW S, NEW s \in Seq(S), NEW n \in Nat
  PROVE  /\ Take(n, s) \in Seq(S) /\ Drop(n, s) \in Seq(S)
         /\ Range(s) = Range(Take(n, s)) \cup Range(Drop(n, s))
  <1>1. /\ Take(n, s) \in Seq(S) /\ Drop(n, s) \in Seq(S)
        /\ s = Take(n, s) \o Drop(n, s)
    BY TakeDrop
  <1>2. Range(Take(n, s) \o Drop(n, s)) = Range(Take(n, s)) \cup Range(Drop(n, s))
    BY <1>1, RangeConcat
  <1> DEFINE t == Take(n, s)
             d == Drop(n, s)
  <1>3. t \in Seq(S) /\ d \in Seq(S) /\ s = t \o d /\ Range(t \o d) = Range(t) \cup Range(d)
    BY <1>1, <1>2
  <1> HIDE DEF t, d
  <1>4. Range(s) = Range(t) \cup Range(d)
    BY <1>3
  <1> QED
    BY <1>3, <1>4 DEF t, d

\* The atoms of the page between two places.
AtomsFrom(r, j, k) == {Atom(r, i) : i \in j + 1 .. k}

\* The atoms between two places, as a sequence and as a set.
LEMMA RangeBetween ==
  ASSUME NEW r, NEW j \in Nat, NEW k \in Nat, j <= k
  PROVE  /\ Range(Between(r, j, k)) = AtomsFrom(r, j, k)
         /\ Len(Between(r, j, k)) = k - j
         /\ \A i \in 1 .. k - j : Between(r, j, k)[i] = Atom(r, j + i)
  <1> DEFINE b == Between(r, j, k)
  <1>1. b = [i \in 1 .. k - j |-> Atom(r, j + i)]
    BY DEF Between
  <1>2. k - j \in Nat
    OBVIOUS
  <1> HIDE DEF b
  <1>3. DOMAIN b = 1 .. k - j /\ \A i \in 1 .. k - j : b[i] = Atom(r, j + i)
    BY <1>1
  <1>4. Len(b) = k - j
    BY <1>1, <1>2
  <1>5. ASSUME NEW i \in j + 1 .. k PROVE Atom(r, i) \in Range(b)
    <2>1. i - j \in 1 .. k - j /\ j + (i - j) = i
      OBVIOUS
    <2> QED
      BY <1>3, <2>1 DEF Range
  <1>6. \A i \in 1 .. k - j : j + i \in j + 1 .. k
    OBVIOUS
  <1>7. Range(b) = {Atom(r, i) : i \in j + 1 .. k}
    BY <1>3, <1>5, <1>6 DEF Range
  <1> QED
    BY <1>3, <1>4, <1>7 DEF b, AtomsFrom

----------------------------------------------------------------------------
(***************************************************************************)
(* Reading a page.                                                         *)
(***************************************************************************)

\* The steps that a page may take.
LEMMA GrammarSteps ==
  ASSUME NEW a, NEW k, NEW b, <<a, k, b>> \in Grammar
  PROVE  \/ a \in {"pass", "vars"} /\ k = "text" /\ b = a
         \/ a = "pass" /\ k \in Heads /\ b = k
         \/ a \in Heads /\ k = "attr" /\ b = a
         \/ a = "remove<" /\ k = "remove>" /\ b = "strip"
         \/ a = "vars<" /\ k = "vars>" /\ b = "vars"
         \/ a = "dyn<" /\ k = "dyn>" /\ b = "pass"
         \/ a = "gone<" /\ k = "gone>" /\ b = "pass"
         \/ a = "strip" /\ k \in Kinds \ {"endremove<", "endremove>"} /\ b = "strip"
         \/ a = "strip" /\ k = "endremove<" /\ b = "endremove<"
         \/ a = "endremove<" /\ k = "endremove>" /\ b = "pass"
         \/ a = "vars" /\ k = "endvars<" /\ b = "endvars<"
         \/ a = "endvars<" /\ k = "endvars>" /\ b = "pass"
  BY DEF Grammar

\* An atom of a page that is read takes the reading one step of the grammar.
LEMMA Step ==
  ASSUME NEW r, Reading(r), NEW i \in 1 .. Len(r.page)
  PROVE  /\ <<r.at[i - 1], r.page[i], r.at[i]>> \in Grammar
         /\ r.at[i - 1] \in Places /\ r.at[i] \in Places /\ r.page[i] \in Kinds
         /\ Len(r.page) \in Nat
  <1>1. Len(r.page) \in Nat /\ r.page[i] \in Kinds
    BY LenProperties, ElementOfSeq DEF Reading
  <1>2. /\ r.at \in [0 .. Len(r.page) -> Places]
        /\ \A j \in 1 .. Len(r.page) : <<r.at[j - 1], r.page[j], r.at[j]>> \in Grammar
    BY DEF Reading, Reads
  <1> QED
    BY <1>1, <1>2, SMTT(30)

\* One more atom of the page: what it adds to the texts,
LEMMA TextsStep ==
  ASSUME NEW r, NEW g \in Nat
  PROVE  Texts(r, g + 1) =
           Texts(r, g) \cup {i \in {g + 1} : r.page[i] = "text" /\ r.at[i] \in {"pass", "vars"}}
  <1>1. 1 .. g + 1 = (1 .. g) \cup {g + 1}
    OBVIOUS
  <1> QED
    BY <1>1 DEF Texts

\* to the dynamic includes,
LEMMA IncludesStep ==
  ASSUME NEW r, Reading(r), NEW g \in Nat, g + 1 \in 1 .. Len(r.page)
  PROVE  /\ r.at[g + 1] # "pass" \/ r.at[g] \notin {"dyn<", "gone<"} =>
              Includes(r, g + 1) = Includes(r, g)
         /\ \A k : OpenTag(r, k, g) /\ r.at[g + 1] = "pass" /\ r.at[g] \in {"dyn<", "gone<"} =>
              Includes(r, g + 1) = Includes(r, g) \cup {k}
  <1>1. Includes(r, g) \subseteq Includes(r, g + 1)
    <2> SUFFICES ASSUME NEW i \in 1 .. g, NEW j \in i + 1 .. g, ClosedTag(r, i, j)
                 PROVE  i \in Includes(r, g + 1)
      BY DEF Includes
    <2>1. i \in 1 .. g + 1 /\ j \in i + 1 .. g + 1
      OBVIOUS
    <2> QED
      BY <2>1 DEF Includes
  <1>2. ASSUME NEW i \in Includes(r, g + 1), i \notin Includes(r, g)
        PROVE  /\ i \in 1 .. g /\ r.at[g] = r.page[i] /\ r.at[g + 1] = "pass"
               /\ r.page[i] \in {"dyn<", "gone<"} /\ \A m \in i + 1 .. g : r.page[m] = "attr"
    <2>1. PICK j \in i + 1 .. g + 1 : ClosedTag(r, i, j) /\ i \in 1 .. g + 1
      BY <1>2 DEF Includes
    <2>2. i \in 1 .. g
      BY <2>1
    <2>3. j \notin i + 1 .. g
      BY <1>2, <2>1, <2>2 DEF Includes
    <2>4. j = g + 1 /\ j - 1 = g
      BY <2>1, <2>2, <2>3
    <2> QED
      BY <2>1, <2>2, <2>4 DEF ClosedTag
  <1>3. ASSUME r.at[g + 1] # "pass" \/ r.at[g] \notin {"dyn<", "gone<"}
        PROVE  Includes(r, g + 1) = Includes(r, g)
    BY <1>1, <1>2, <1>3
  <1>4. ASSUME NEW k, OpenTag(r, k, g), r.at[g + 1] = "pass", r.at[g] \in {"dyn<", "gone<"}
        PROVE  Includes(r, g + 1) = Includes(r, g) \cup {k}
    <2>1. /\ k \in 1 .. g /\ r.at[k - 1] = "pass" /\ r.page[k] = r.at[g]
          /\ r.page[k] \in Heads /\ \A m \in k + 1 .. g : r.page[m] = "attr"
      BY <1>4 DEF OpenTag
    <2>2. "attr" \notin Heads
      BY DEF Heads
    <2>3. ASSUME NEW i \in Includes(r, g + 1), i \notin Includes(r, g) PROVE i = k
      <3>1. i \in 1 .. g /\ r.page[i] \in Heads /\ \A m \in i + 1 .. g : r.page[m] = "attr"
        BY <1>2, <2>3 DEF Heads
      <3>2. ~ (i < k)
        <4>1. i < k => k \in i + 1 .. g
          BY <2>1, <3>1
        <4> QED
          BY <2>1, <2>2, <3>1, <4>1
      <3>3. ~ (k < i)
        <4>1. k < i => i \in k + 1 .. g
          BY <2>1, <3>1
        <4> QED
          BY <2>1, <2>2, <3>1, <4>1
      <3> QED
        BY <2>1, <3>1, <3>2, <3>3
    <2>4. r.at[k] = r.page[k]
      <3>1. k \in 1 .. Len(r.page)
        BY <2>1, Step
      <3>2. <<r.at[k - 1], r.page[k], r.at[k]>> \in Grammar
        BY <3>1, Step
      <3> QED
        BY <2>1, <3>2, GrammarSteps DEF Heads
    <2>5. ClosedTag(r, k, g + 1)
      BY <1>4, <2>1, <2>4 DEF ClosedTag
    <2>6. k \in 1 .. g + 1 /\ g + 1 \in k + 1 .. g + 1
      BY <2>1
    <2>7. k \in Includes(r, g + 1)
      BY <2>5, <2>6 DEF Includes
    <2> QED
      BY <1>1, <2>3, <2>7
  <1> QED
    BY <1>3, <1>4

\* and so to what the filter makes of them.
LEMMA StuffStep ==
  ASSUME NEW r, Reading(r), NEW g \in Nat, g + 1 \in 1 .. Len(r.page)
  PROVE  /\ r.page[g + 1] = "text" /\ r.at[g + 1] \in {"pass", "vars"} =>
              /\ Stuff(r, g + 1) = Stuff(r, g) \cup {Atom(r, g + 1)}
              /\ Includes(r, g + 1) = Includes(r, g)
         /\ (r.page[g + 1] # "text" \/ r.at[g + 1] \notin {"pass", "vars"})
              /\ (r.at[g + 1] # "pass" \/ r.at[g] \notin {"dyn<", "gone<"}) =>
                Stuff(r, g + 1) = Stuff(r, g) /\ Includes(r, g + 1) = Includes(r, g)
         /\ \A k : OpenTag(r, k, g) /\ r.at[g + 1] = "pass" /\ r.at[g] \in {"dyn<", "gone<"} =>
              Stuff(r, g + 1) = IF r.marker THEN Stuff(r, g)
                                ELSE Stuff(r, g) \cup {Placeholder(Atom(r, k))}
  <1> DEFINE Now(i) == r.page[i] = "text" /\ r.at[i] \in {"pass", "vars"}
  <1>1. /\ Now(g + 1) => Texts(r, g + 1) = Texts(r, g) \cup {g + 1}
        /\ ~ Now(g + 1) => Texts(r, g + 1) = Texts(r, g)
    <2> DEFINE more == {i \in {g + 1} : r.page[i] = "text" /\ r.at[i] \in {"pass", "vars"}}
    <2>1. Texts(r, g + 1) = Texts(r, g) \cup more
      BY TextsStep
    <2>2. (Now(g + 1) => more = {g + 1}) /\ (~ Now(g + 1) => more = {})
      OBVIOUS
    <2> QED
      BY <2>1, <2>2
  <1>2. <<r.at[g], r.page[g + 1], r.at[g + 1]>> \in Grammar
    <2>1. g + 1 - 1 = g
      OBVIOUS
    <2> QED
      BY <2>1, Step
  <1>3. r.page[g + 1] = "text" => r.at[g] \notin {"dyn<", "gone<"}
    BY <1>2, GrammarSteps DEF Heads
  <1>4. ASSUME Now(g + 1)
        PROVE  /\ Stuff(r, g + 1) = Stuff(r, g) \cup {Atom(r, g + 1)}
               /\ Includes(r, g + 1) = Includes(r, g)
    <2>1. Includes(r, g + 1) = Includes(r, g)
      BY <1>3, <1>4, IncludesStep
    <2>2. Texts(r, g + 1) = Texts(r, g) \cup {g + 1}
      BY <1>1, <1>4
    <2> QED
      BY <2>1, <2>2 DEF Stuff
  <1>5. ASSUME ~ Now(g + 1), r.at[g + 1] # "pass" \/ r.at[g] \notin {"dyn<", "gone<"}
        PROVE  Stuff(r, g + 1) = Stuff(r, g) /\ Includes(r, g + 1) = Includes(r, g)
    BY <1>1, <1>5, IncludesStep DEF Stuff
  <1>6. ASSUME NEW k, OpenTag(r, k, g), r.at[g + 1] = "pass", r.at[g] \in {"dyn<", "gone<"}
        PROVE  Stuff(r, g + 1) = IF r.marker THEN Stuff(r, g)
                                 ELSE Stuff(r, g) \cup {Placeholder(Atom(r, k))}
    <2>1. Includes(r, g + 1) = Includes(r, g) \cup {k}
      BY <1>6, IncludesStep
    <2>2. Texts(r, g + 1) = Texts(r, g)
      BY <1>1, <1>3, <1>6
    <2> QED
      BY <2>1, <2>2 DEF Stuff
  <1> QED
    BY <1>4, <1>5, <1>6

\* A tag begins, and goes on.
LEMMA OpenTagStep ==
  ASSUME NEW r, NEW g \in Nat
  PROVE  /\ r.at[g] = "pass" /\ r.page[g + 1] \in Heads /\ r.at[g + 1] = r.page[g + 1] =>
              OpenTag(r, g + 1, g + 1)
         /\ \A k : OpenTag(r, k, g) /\ r.page[g + 1] = "attr" /\ r.at[g + 1] = r.at[g] =>
              OpenTag(r, k, g + 1)
  <1>1. g + 1 \in 1 .. g + 1 /\ g + 1 - 1 = g /\ (g + 1) + 1 .. g + 1 = {}
    OBVIOUS
  <1>2. ASSUME r.at[g] = "pass", r.page[g + 1] \in Heads, r.at[g + 1] = r.page[g + 1]
        PROVE  OpenTag(r, g + 1, g + 1)
    BY <1>1, <1>2 DEF OpenTag
  <1>3. ASSUME NEW k, OpenTag(r, k, g), r.page[g + 1] = "attr", r.at[g + 1] = r.at[g]
        PROVE  OpenTag(r, k, g + 1)
    <2>1. k \in 1 .. g /\ k \in 1 .. g + 1 /\ k + 1 .. g + 1 = (k + 1 .. g) \cup {g + 1}
      BY <1>3 DEF OpenTag
    <2> QED
      BY <1>3, <2>1 DEF OpenTag
  <1> QED
    BY <1>2, <1>3

\* A tag that is open is not a text, and one tag only is open.
LEMMA TagStart ==
  ASSUME NEW r, Reading(r), NEW g \in Nat, NEW hold, TagOf(r, g, hold), hold # <<>>
  PROVE  \E k \in 1 .. g :
           /\ OpenTag(r, k, g) /\ hold = Between(r, k - 1, g)
           /\ Head(hold) = Atom(r, k) /\ Append(hold, Atom(r, g + 1)) = Between(r, k - 1, g + 1)
           /\ r.page[k] = r.at[g]
  <1>1. PICK k \in 1 .. g : OpenTag(r, k, g) /\ hold = Between(r, k - 1, g)
    BY DEF TagOf
  <1> DEFINE j == k - 1
  <1>2. j \in Nat /\ j + 1 = k /\ j < g /\ j <= g + 1
    OBVIOUS
  <1> HIDE DEF j
  <1>3. /\ hold = Between(r, j, g) /\ Len(hold) = g - j
        /\ \A i \in 1 .. g - j : hold[i] = Atom(r, j + i)
    <2>1. hold = Between(r, j, g)
      BY <1>1 DEF j
    <2>2. j <= g
      BY <1>2
    <2> QED
      BY <1>2, <2>1, <2>2, RangeBetween
  <1>4. hold = [i \in 1 .. g - j |-> Atom(r, j + i)]
    BY <1>3 DEF Between
  <1>5. Head(hold) = Atom(r, k)
    <2>1. 1 \in 1 .. g - j
      BY <1>2
    <2>2. hold[1] = Atom(r, k)
      BY <1>2, <1>3, <2>1
    <2> QED
      BY <2>2
  <1>6. Append(hold, Atom(r, g + 1)) = Between(r, j, g + 1)
    <2> DEFINE S == {Atom(r, i) : i \in Nat}
    <2>1. hold \in Seq(S)
      <3>1. \A i \in 1 .. g - j : j + i \in Nat /\ Atom(r, j + i) \in S
        BY <1>2
      <3>2. g - j \in Nat
        BY <1>2
      <3> HIDE DEF S
      <3> QED
        BY <1>4, <3>1, <3>2
    <2> DEFINE b == Between(r, j, g + 1)
               l == Append(hold, Atom(r, g + 1))
    <2>2. /\ l = [i \in 1 .. Len(hold) + 1 |->
                    IF i <= Len(hold) THEN hold[i] ELSE Atom(r, g + 1)]
      <3>1. /\ Len(l) = Len(hold) + 1 /\ DOMAIN l = 1 .. Len(hold) + 1
            /\ l \in Seq(S)
            /\ \A i \in 1 .. Len(hold) : l[i] = hold[i]
            /\ l[Len(hold) + 1] = Atom(r, g + 1)
        <4>1. Atom(r, g + 1) \in S
          OBVIOUS
        <4> HIDE DEF S
        <4> QED
          BY <2>1, <4>1, AppendProperties, LenProperties
      <3>2. l = [i \in 1 .. Len(hold) + 1 |-> l[i]]
        BY <3>1, LenProperties
      <3>3. \A i \in 1 .. Len(hold) + 1 :
              l[i] = IF i <= Len(hold) THEN hold[i] ELSE Atom(r, g + 1)
        BY <1>2, <1>3, <3>1
      <3> HIDE DEF l
      <3> QED
        BY <3>2, <3>3
    <2>3. Len(hold) + 1 = (g + 1) - j
      BY <1>2, <1>3
    <2>4. \A i \in 1 .. (g + 1) - j :
            (IF i <= Len(hold) THEN hold[i] ELSE Atom(r, g + 1)) = Atom(r, j + i)
      <3> TAKE i \in 1 .. (g + 1) - j
      <3>1. CASE i <= Len(hold)
        <4>1. i \in 1 .. g - j
          BY <1>2, <1>3, <3>1
        <4> QED
          BY <1>3, <3>1, <4>1
      <3>2. CASE ~ (i <= Len(hold))
        <4>1. j + i = g + 1
          BY <1>2, <1>3, <3>2
        <4> QED
          BY <3>2, <4>1
      <3> QED
        BY <3>1, <3>2
    <2> HIDE DEF l
    <2>5. l = [i \in 1 .. (g + 1) - j |-> Atom(r, j + i)]
      BY <2>2, <2>3, <2>4
    <2>6. Between(r, j, g + 1) = [i \in 1 .. (g + 1) - j |-> Atom(r, j + i)]
      BY DEF Between
    <2>7. l = Between(r, j, g + 1)
      BY <2>5, <2>6
    <2> QED
      BY <2>7 DEF l
  <1>7. r.page[k] = r.at[g]
    BY <1>1 DEF OpenTag
  <1> QED
    BY <1>1, <1>5, <1>6, <1>7 DEF j

----------------------------------------------------------------------------
(***************************************************************************)
(* What a scan makes of the page.                                          *)
(***************************************************************************)

(***************************************************************************)
(* A state of the scan after g atoms of the page, where prev was sent or   *)
(* kept before.  At the closing tag of a substitution its first half has   *)
(* been put out.                                                           *)
(***************************************************************************)
OutAt(r, prev, g, o) ==
  IF r.at[g] = "endvars<"
    THEN \E u \in Seq(ItemsOf(r.q)) :
           o = Append(u, Atom(r, g)) /\ prev \cup Range(u) = Stuff(r, g)
    ELSE prev \cup Range(o) = Stuff(r, g)

ScanAt(r, prev, g, s) ==
  /\ s.mode = ModeAt(r, g)
  /\ r.at[g] \in {"endremove<", "endvars<"} => s.last = r.at[g]
  /\ TagOf(r, g, s.hold)
  /\ s.subrequest = r.marker
  /\ s.holding \/ NoIncludes(r, g)
  /\ OutAt(r, prev, g, s.out)

\* An atom of the page is an atom.
LEMMA AtomItem ==
  ASSUME NEW r, Reading(r), NEW i \in 1 .. Len(r.page)
  PROVE  /\ Atom(r, i) \in ItemsOf(r.q) /\ Placeholder(Atom(r, i)) \in ItemsOf(r.q)
         /\ Atom(r, i).kind = r.page[i] /\ Atom(r, i).pos = i
  <1>1. r.page[i] \in Kinds /\ Len(r.page) \in Nat
    BY Step
  <1>2. i \in Nat
    BY <1>1
  <1> QED
    BY <1>1, <1>2 DEF Atom, Placeholder, ItemsOf, EveryKind

\* One atom in each of the modes.
LEMMA PassingAt ==
  ASSUME NEW q, NEW ctx, NEW s \in Scanning(q, ctx), NEW a \in ItemsOf(q), s.mode = "pass",
         NEW t, t = Absorb(s, a)
  PROVE  /\ s.hold = <<>> /\ a.kind \notin Heads =>
              /\ t.mode = "pass" /\ t.hold = <<>> /\ t.out = Append(s.out, a)
              /\ t.holding = s.holding /\ t.subrequest = s.subrequest
         /\ s.hold = <<>> /\ a.kind \in Heads =>
              /\ t.mode = "pass" /\ t.hold = <<a>> /\ t.out = s.out
              /\ t.holding = s.holding /\ t.subrequest = s.subrequest
         /\ s.hold # <<>> /\ a.kind \notin Tails =>
              /\ t.mode = "pass" /\ t.hold = Append(s.hold, a) /\ t.out = s.out
              /\ t.holding = s.holding /\ t.subrequest = s.subrequest
  <1>1. t = [Passing(s, a) EXCEPT !.last = a.kind]
    BY DEF Absorb
  <1>2. CASE s.hold = <<>> /\ a.kind \notin Heads
    <2>1. Passing(s, a) = [s EXCEPT !.out = Append(s.out, a)]
      BY <1>2 DEF Passing, Emit
    <2> QED
      BY <1>1, <1>2, <2>1 DEF Scanning
  <1>3. CASE s.hold = <<>> /\ a.kind \in Heads
    <2>1. Passing(s, a) = [s EXCEPT !.hold = <<a>>]
      BY <1>3 DEF Passing
    <2> QED
      BY <1>1, <1>3, <2>1 DEF Scanning
  <1>4. CASE s.hold # <<>> /\ a.kind \notin Tails
    <2>1. Passing(s, a) = [s EXCEPT !.hold = Append(s.hold, a)]
      BY <1>4 DEF Passing
    <2> QED
      BY <1>1, <1>4, <2>1 DEF Scanning
  <1> QED
    BY <1>2, <1>3, <1>4

\* The end of a tag.
LEMMA ClosingAt ==
  ASSUME NEW q, NEW ctx, NEW s \in Scanning(q, ctx), NEW a \in ItemsOf(q), s.mode = "pass",
         s.hold # <<>>, a.kind \in Tails, NEW t, t = Absorb(s, a)
  PROVE  /\ Head(s.hold).kind = "remove<" =>
              /\ t.mode = "strip" /\ t.hold = <<>> /\ t.out = s.out
              /\ t.holding = s.holding /\ t.subrequest = s.subrequest
         /\ Head(s.hold).kind = "vars<" =>
              /\ t.mode = "vars" /\ t.hold = <<>> /\ t.out = s.out
              /\ t.holding = s.holding /\ t.subrequest = s.subrequest
         /\ Head(s.hold).kind \in {"dyn<", "gone<"} =>
              /\ t.mode = "pass" /\ t.hold = <<>> /\ t.subrequest = s.subrequest
              /\ s.subrequest => t.out = s.out /\ t.holding = s.holding
              /\ ~ s.subrequest => t.out = Append(s.out, Placeholder(Head(s.hold))) /\ t.holding
  <1>1. t = [CloseTag(s) EXCEPT !.last = a.kind]
    BY DEF Absorb, Passing
  <1> DEFINE h == Head(s.hold)
  <1> HIDE DEF h
  <1>2. CASE h.kind = "remove<"
    <2>1. CloseTag(s) = [s EXCEPT !.mode = "strip", !.hold = <<>>]
      BY <1>2 DEF CloseTag, Enter, h
    <2> QED
      BY <1>1, <1>2, <2>1 DEF Scanning, h
  <1>3. CASE h.kind = "vars<"
    <2>1. CloseTag(s) = [s EXCEPT !.mode = "vars", !.hold = <<>>]
      BY <1>3 DEF CloseTag, Enter, h
    <2> QED
      BY <1>1, <1>3, <2>1 DEF Scanning, h
  <1>4. CASE h.kind \in {"dyn<", "gone<"}
    <2>1. CloseTag(s) = Include(s)
      BY <1>4 DEF CloseTag, h
    <2>2. CASE s.subrequest
      <3>1. CloseTag(s) = [s EXCEPT !.mode = "pass", !.hold = <<>>]
        BY <2>1, <2>2 DEF Include, Enter
      <3>2. /\ t.mode = "pass" /\ t.hold = <<>> /\ t.out = s.out
            /\ t.holding = s.holding /\ t.subrequest = s.subrequest
        BY <1>1, <3>1 DEF Scanning
      <3> QED
        BY <1>4, <2>2, <3>2 DEF h
    <2>3. CASE ~ s.subrequest
      <3>1. CloseTag(s) = [s EXCEPT !.mode = "pass", !.hold = <<>>,
                                    !.out = Append(s.out, Placeholder(h)), !.holding = TRUE]
        BY <2>1, <2>3 DEF Include, Enter, Emit, Scanning, h
      <3> QED
        BY <1>1, <1>4, <2>3, <3>1 DEF Scanning, h
    <2> QED
      BY <2>2, <2>3
  <1> QED
    BY <1>2, <1>3, <1>4 DEF h

\* In the regions.
LEMMA RegionAt ==
  ASSUME NEW q, NEW ctx, NEW s \in Scanning(q, ctx), NEW a \in ItemsOf(q),
         NEW t, t = Absorb(s, a)
  PROVE  /\ s.mode = "strip" /\ a.kind # "endremove>" =>
              /\ t.mode = "strip" /\ t.hold = s.hold /\ t.out = s.out /\ t.last = a.kind
              /\ t.holding = s.holding /\ t.subrequest = s.subrequest
         /\ s.mode = "strip" /\ s.last = "endremove<" /\ a.kind = "endremove>" =>
              /\ t.mode = "pass" /\ t.hold = <<>> /\ t.out = s.out
              /\ t.holding = s.holding /\ t.subrequest = s.subrequest
         /\ s.mode = "vars" /\ a.kind # "endvars>" =>
              /\ t.mode = "vars" /\ t.hold = s.hold /\ t.out = Append(s.out, a)
              /\ t.last = a.kind
              /\ t.holding = s.holding /\ t.subrequest = s.subrequest
         /\ s.mode = "vars" /\ s.last = "endvars<" /\ a.kind = "endvars>" =>
              /\ t.mode = "pass" /\ t.hold = <<>> /\ t.out = Front(s.out)
              /\ t.holding = s.holding /\ t.subrequest = s.subrequest
  <1>1. CASE s.mode = "strip" /\ a.kind # "endremove>"
    <2>1. t = [s EXCEPT !.last = a.kind]
      BY <1>1 DEF Absorb, Stripping
    <2> QED
      BY <1>1, <2>1 DEF Scanning
  <1>2. CASE s.mode = "strip" /\ s.last = "endremove<" /\ a.kind = "endremove>"
    <2>1. t = [[s EXCEPT !.mode = "pass", !.hold = <<>>] EXCEPT !.last = a.kind]
      BY <1>2 DEF Absorb, Stripping, Enter
    <2> QED
      BY <1>2, <2>1 DEF Scanning
  <1>3. CASE s.mode = "vars" /\ a.kind # "endvars>"
    <2>1. t = [[s EXCEPT !.out = Append(s.out, a)] EXCEPT !.last = a.kind]
      BY <1>3 DEF Absorb, Substituting, Emit
    <2> QED
      BY <1>3, <2>1 DEF Scanning
  <1>4. CASE s.mode = "vars" /\ s.last = "endvars<" /\ a.kind = "endvars>"
    <2>1. t = [[[s EXCEPT !.mode = "pass", !.hold = <<>>] EXCEPT !.out = Front(s.out)]
                 EXCEPT !.last = a.kind]
      BY <1>4 DEF Absorb, Substituting, Enter, Scanning
    <2> QED
      BY <1>4, <2>1 DEF Scanning
  <1> QED
    BY <1>1, <1>2, <1>3, <1>4

\* Without the atom that was appended.
LEMMA FrontOfAppend ==
  ASSUME NEW S, NEW u \in Seq(S), NEW x \in S
  PROVE  Front(Append(u, x)) = u
  <1> DEFINE s == Append(u, x)
             w == SubSeq(s, 1, Len(u))
  <1>1. /\ s \in Seq(S) /\ Len(s) = Len(u) + 1 /\ Len(u) \in Nat
        /\ \A i \in 1 .. Len(u) : s[i] = u[i]
    BY AppendProperties, LenProperties
  <1>2. Front(s) = w
    <2>1. Len(s) - 1 = Len(u)
      BY <1>1
    <2> QED
      BY <2>1 DEF Front
  <1> HIDE DEF s
  <1>3. /\ w \in Seq(S) /\ Len(w) = Len(u) /\ \A i \in 1 .. Len(u) : w[i] = s[i]
    <2>1. Len(u) \in 0 .. Len(s)
      BY <1>1
    <2> QED
      BY <1>1, <2>1, FirstPart
  <1> HIDE DEF w
  <1>4. w = [i \in 1 .. Len(u) |-> w[i]] /\ u = [i \in 1 .. Len(u) |-> u[i]]
    BY <1>3, LenProperties
  <1>5. w = u
    BY <1>1, <1>3, <1>4
  <1> QED
    BY <1>2, <1>5 DEF s

\* One atom of the page leads from one such state to the next.
LEMMA AbsorbAt ==
  ASSUME NEW r, Reading(r), NEW ctx, NEW prev, NEW g \in Nat, g + 1 \in 1 .. Len(r.page),
         NEW s \in Scanning(r.q, ctx), ScanAt(r, prev, g, s),
         NEW t, t = Absorb(s, Atom(r, g + 1))
  PROVE  ScanAt(r, prev, g + 1, t)
  <1> DEFINE x == Atom(r, g + 1)
             a == r.at[g]
             k == r.page[g + 1]
             b == r.at[g + 1]
  <1>1. /\ x \in ItemsOf(r.q) /\ x.kind = k
        /\ Placeholder(x) \in ItemsOf(r.q)
    BY AtomItem
  <1>2. <<a, k, b>> \in Grammar /\ a \in Places /\ b \in Places
    <2>1. g + 1 - 1 = g
      OBVIOUS
    <2> QED
      BY <2>1, Step
  <1>3. s.out \in Seq(ItemsOf(r.q)) /\ s.hold \in Seq(ItemsOf(r.q))
    BY DEF Scanning
  <1>4. /\ s.mode = ModeAt(r, g)
        /\ a \in {"endremove<", "endvars<"} => s.last = a
        /\ TagOf(r, g, s.hold)
        /\ s.subrequest = r.marker
        /\ s.holding \/ NoIncludes(r, g)
        /\ OutAt(r, prev, g, s.out)
    BY DEF ScanAt
  <1>5. a \notin Heads => s.hold = <<>>
    BY <1>4 DEF TagOf, OpenTag
  <1>6. b \notin Heads => TagOf(r, g + 1, <<>>)
    BY DEF TagOf
  <1>7. a # "endvars<" => prev \cup Range(s.out) = Stuff(r, g)
    BY <1>4 DEF OutAt
  <1>8. /\ k = "text" /\ b \in {"pass", "vars"} =>
             Stuff(r, g + 1) = Stuff(r, g) \cup {x} /\ Includes(r, g + 1) = Includes(r, g)
        /\ (k # "text" \/ b \notin {"pass", "vars"}) /\ (b # "pass" \/ a \notin {"dyn<", "gone<"}) =>
             Stuff(r, g + 1) = Stuff(r, g) /\ Includes(r, g + 1) = Includes(r, g)
    BY StuffStep
  <1>9. Range(Append(s.out, x)) = Range(s.out) \cup {x}
    BY <1>1, <1>3, RangeAppend
  <1>10. x = Atom(r, g + 1) /\ t = Absorb(s, x)
    OBVIOUS
  <1> DEFINE Tag(j) == /\ OpenTag(r, j, g) /\ Head(s.hold) = Atom(r, j) /\ r.page[j] = a
                       /\ Append(s.hold, x) = Between(r, j - 1, g + 1)
  <1>22. ASSUME s.hold # <<>> PROVE \E j \in 1 .. g : Tag(j)
    <2> DEFINE h == s.hold
    <2>1. TagOf(r, g, h) /\ h # <<>>
      BY <1>4, <1>22
    <2> HIDE DEF h
    <2>2. \E j \in 1 .. g :
             /\ OpenTag(r, j, g) /\ h = Between(r, j - 1, g)
             /\ Head(h) = Atom(r, j) /\ Append(h, Atom(r, g + 1)) = Between(r, j - 1, g + 1)
             /\ r.page[j] = r.at[g]
      BY <2>1, TagStart
    <2> QED
      BY <2>2 DEF h
  <1> HIDE DEF x, a, k, b
  <1>11. CASE a \in {"pass", "vars"} /\ k = "text" /\ b = a
    <2>1. /\ t.mode = ModeAt(r, g + 1) /\ t.hold = <<>> /\ t.out = Append(s.out, x)
          /\ t.holding = s.holding /\ t.subrequest = s.subrequest
      <3>1. CASE a = "pass"
        <4>1. s.mode = "pass" /\ s.hold = <<>> /\ ModeAt(r, g + 1) = "pass" /\ x.kind \notin Heads
          BY <1>1, <1>4, <1>5, <1>11, <3>1 DEF ModeAt, Heads, a, b
        <4> QED
          BY <1>1, <1>10, <4>1, PassingAt
      <3>2. CASE a = "vars"
        <4>1. s.mode = "vars" /\ s.hold = <<>> /\ ModeAt(r, g + 1) = "vars" /\ x.kind # "endvars>"
          BY <1>1, <1>4, <1>5, <1>11, <3>2 DEF ModeAt, Heads, a, b
        <4> QED
          BY <1>1, <1>10, <4>1, RegionAt
      <3> QED
        BY <1>11, <3>1, <3>2
    <2>2. prev \cup Range(t.out) = Stuff(r, g + 1)
      BY <1>7, <1>8, <1>9, <1>11, <2>1
    <2>3. OutAt(r, prev, g + 1, t.out)
      BY <1>11, <2>2 DEF OutAt, b
    <2>4. t.holding \/ NoIncludes(r, g + 1)
      BY <1>4, <1>8, <1>11, <2>1 DEF NoIncludes
    <2>5. TagOf(r, g + 1, t.hold)
      BY <1>6, <1>11, <2>1 DEF Heads
    <2> QED
      BY <1>4, <1>11, <2>1, <2>3, <2>4, <2>5 DEF ScanAt, b
  <1>12. CASE a = "pass" /\ k \in Heads /\ b = k
    <2>1. s.mode = "pass" /\ s.hold = <<>> /\ ModeAt(r, g + 1) = "pass"
      BY <1>4, <1>5, <1>12 DEF ModeAt, Heads, a, b
    <2>2. /\ t.mode = "pass" /\ t.hold = <<x>> /\ t.out = s.out
          /\ t.holding = s.holding /\ t.subrequest = s.subrequest
      BY <1>1, <1>10, <1>12, <2>1, PassingAt
    <2>3. b \notin {"pass", "vars", "endremove<", "endvars<"}
      BY <1>12 DEF Heads
    <2>4. prev \cup Range(t.out) = Stuff(r, g + 1)
      BY <1>7, <1>8, <1>12, <2>2, <2>3
    <2>5. OutAt(r, prev, g + 1, t.out)
      BY <2>3, <2>4 DEF OutAt, b
    <2>6. t.holding \/ NoIncludes(r, g + 1)
      BY <1>4, <1>8, <2>2, <2>3 DEF NoIncludes
    <2>7. TagOf(r, g + 1, t.hold)
      <3>1. OpenTag(r, g + 1, g + 1)
        BY <1>12, OpenTagStep DEF a, k, b
      <3>2. <<x>> = Between(r, g, g + 1)
        <4>1. (g + 1) - g = 1
          OBVIOUS
        <4>2. Between(r, g, g + 1) = [i \in 1 .. 1 |-> Atom(r, g + i)]
          BY <4>1 DEF Between
        <4> QED
          BY <1>10, <4>2
      <3>3. g + 1 \in 1 .. g + 1 /\ (g + 1) - 1 = g
        OBVIOUS
      <3>4. <<x>> # <<>>
        OBVIOUS
      <3> QED
        BY <2>2, <3>1, <3>2, <3>3, <3>4 DEF TagOf
    <2> QED
      BY <1>4, <2>1, <2>2, <2>3, <2>5, <2>6, <2>7 DEF ScanAt, b
  <1>13. CASE a \in Heads /\ k = "attr" /\ b = a
    <2>1. s.mode = "pass" /\ s.hold # <<>> /\ ModeAt(r, g + 1) = "pass"
      BY <1>4, <1>13 DEF ModeAt, TagOf, Heads, a, b
    <2>2. x.kind \notin Tails
      BY <1>1, <1>13 DEF Tails
    <2>3. /\ t.mode = "pass" /\ t.hold = Append(s.hold, x) /\ t.out = s.out
          /\ t.holding = s.holding /\ t.subrequest = s.subrequest
      BY <1>1, <1>10, <2>1, <2>2, PassingAt
    <2>4. b \notin {"pass", "vars", "endremove<", "endvars<"}
      BY <1>13 DEF Heads
    <2>5. prev \cup Range(t.out) = Stuff(r, g + 1)
      BY <1>7, <1>8, <1>13, <2>3, <2>4
    <2>6. OutAt(r, prev, g + 1, t.out)
      BY <2>4, <2>5 DEF OutAt, b
    <2>7. t.holding \/ NoIncludes(r, g + 1)
      BY <1>4, <1>8, <2>3, <2>4 DEF NoIncludes
    <2>8. TagOf(r, g + 1, t.hold)
      <3>1. PICK j \in 1 .. g : Tag(j)
        BY <1>22, <2>1
      <3>2. OpenTag(r, j, g + 1)
        BY <1>13, <3>1, OpenTagStep DEF a, b, k
      <3>3. j \in 1 .. g + 1
        OBVIOUS
      <3>4. t.hold # <<>>
        BY <1>1, <1>3, <2>3, AppendProperties
      <3>5. t.hold = Between(r, j - 1, g + 1)
        BY <1>10, <2>3, <3>1
      <3> QED
        BY <3>2, <3>3, <3>4, <3>5 DEF TagOf
    <2> QED
      BY <1>4, <2>1, <2>3, <2>4, <2>6, <2>7, <2>8 DEF ScanAt, b
  <1>14. CASE a = "remove<" /\ k = "remove>" /\ b = "strip"
    <2>1. s.mode = "pass" /\ s.hold # <<>> /\ ModeAt(r, g + 1) = "strip"
      BY <1>4, <1>14 DEF ModeAt, TagOf, Heads, a, b
    <2>2. PICK j \in 1 .. g : Head(s.hold) = Atom(r, j) /\ r.page[j] = a
      BY <1>22, <2>1
    <2>3. Head(s.hold).kind = "remove<" /\ x.kind \in Tails
      BY <1>1, <1>14, <2>2 DEF Atom, Tails
    <2>4. /\ t.mode = "strip" /\ t.hold = <<>> /\ t.out = s.out
          /\ t.holding = s.holding /\ t.subrequest = s.subrequest
      BY <1>1, <1>10, <2>1, <2>3, ClosingAt
    <2>5. prev \cup Range(t.out) = Stuff(r, g + 1) /\ (t.holding \/ NoIncludes(r, g + 1))
      BY <1>4, <1>7, <1>8, <1>14, <2>4 DEF NoIncludes
    <2>6. OutAt(r, prev, g + 1, t.out)
      BY <1>14, <2>5 DEF OutAt, b
    <2>7. TagOf(r, g + 1, t.hold)
      BY <1>6, <1>14, <2>4 DEF Heads
    <2> QED
      BY <1>4, <1>14, <2>1, <2>4, <2>5, <2>6, <2>7 DEF ScanAt, b
  <1>15. CASE a = "vars<" /\ k = "vars>" /\ b = "vars"
    <2>1. s.mode = "pass" /\ s.hold # <<>> /\ ModeAt(r, g + 1) = "vars"
      BY <1>4, <1>15 DEF ModeAt, TagOf, Heads, a, b
    <2>2. PICK j \in 1 .. g : Head(s.hold) = Atom(r, j) /\ r.page[j] = a
      BY <1>22, <2>1
    <2>3. Head(s.hold).kind = "vars<" /\ x.kind \in Tails
      BY <1>1, <1>15, <2>2 DEF Atom, Tails
    <2>4. /\ t.mode = "vars" /\ t.hold = <<>> /\ t.out = s.out
          /\ t.holding = s.holding /\ t.subrequest = s.subrequest
      BY <1>1, <1>10, <2>1, <2>3, ClosingAt
    <2>5. prev \cup Range(t.out) = Stuff(r, g + 1) /\ (t.holding \/ NoIncludes(r, g + 1))
      BY <1>4, <1>7, <1>8, <1>15, <2>4 DEF NoIncludes
    <2>6. OutAt(r, prev, g + 1, t.out)
      BY <1>15, <2>5 DEF OutAt, b
    <2>7. TagOf(r, g + 1, t.hold)
      BY <1>6, <1>15, <2>4 DEF Heads
    <2> QED
      BY <1>4, <1>15, <2>1, <2>4, <2>5, <2>6, <2>7 DEF ScanAt, b
  <1>16. CASE a \in {"dyn<", "gone<"} /\ k \in {"dyn>", "gone>"} /\ b = "pass"
    <2>1. s.mode = "pass" /\ s.hold # <<>> /\ ModeAt(r, g + 1) = "pass"
      BY <1>4, <1>16 DEF ModeAt, TagOf, Heads, a, b
    <2>2. PICK j \in 1 .. g : Head(s.hold) = Atom(r, j) /\ r.page[j] = a /\ OpenTag(r, j, g)
      BY <1>22, <2>1
    <2>3. Head(s.hold).kind \in {"dyn<", "gone<"} /\ x.kind \in Tails
      BY <1>1, <1>16, <2>2 DEF Atom, Tails
    <2>4. /\ t.mode = "pass" /\ t.hold = <<>> /\ t.subrequest = s.subrequest
          /\ s.subrequest => t.out = s.out /\ t.holding = s.holding
          /\ ~ s.subrequest => t.out = Append(s.out, Placeholder(Head(s.hold))) /\ t.holding
      BY <1>1, <1>10, <2>1, <2>3, ClosingAt
    <2>5. Stuff(r, g + 1) = IF r.marker THEN Stuff(r, g)
                            ELSE Stuff(r, g) \cup {Placeholder(Atom(r, j))}
      BY <1>16, <2>2, StuffStep DEF a, b
    <2>6. prev \cup Range(t.out) = Stuff(r, g + 1)
      <3>1. CASE r.marker
        BY <1>4, <1>7, <1>16, <2>4, <2>5, <3>1
      <3>2. CASE ~ r.marker
        <4> DEFINE y == Placeholder(Atom(r, j))
        <4>1. y \in ItemsOf(r.q)
          <5>1. j \in 1 .. Len(r.page)
            BY Step
          <5> QED
            BY <5>1, AtomItem
        <4>2. t.out = Append(s.out, y)
          BY <1>4, <2>2, <2>4, <3>2
        <4>3. Stuff(r, g + 1) = Stuff(r, g) \cup {y}
          BY <2>5, <3>2
        <4> HIDE DEF y
        <4>4. Range(Append(s.out, y)) = Range(s.out) \cup {y}
          BY <1>3, <4>1, RangeAppend
        <4> QED
          BY <1>7, <1>16, <4>2, <4>3, <4>4
      <3> QED
        BY <3>1, <3>2
    <2>7. OutAt(r, prev, g + 1, t.out)
      BY <1>16, <2>6 DEF OutAt, b
    <2>8. t.holding \/ NoIncludes(r, g + 1)
      BY <1>4, <2>4 DEF NoIncludes
    <2>9. TagOf(r, g + 1, t.hold)
      BY <1>6, <1>16, <2>4 DEF Heads
    <2> QED
      BY <1>4, <1>16, <2>1, <2>4, <2>7, <2>8, <2>9 DEF ScanAt, b
  <1>17. CASE a = "strip" /\ b \in {"strip", "endremove<"} /\ k # "endremove>"
              /\ (b = "endremove<" => k = b)
    <2>1. s.mode = "strip" /\ s.hold = <<>> /\ ModeAt(r, g + 1) = "strip"
      BY <1>4, <1>5, <1>17 DEF ModeAt, Heads, a, b
    <2>2. /\ t.mode = "strip" /\ t.hold = s.hold /\ t.out = s.out /\ t.last = k
          /\ t.holding = s.holding /\ t.subrequest = s.subrequest
      BY <1>1, <1>10, <1>17, <2>1, RegionAt
    <2>3. prev \cup Range(t.out) = Stuff(r, g + 1) /\ (t.holding \/ NoIncludes(r, g + 1))
      BY <1>4, <1>7, <1>8, <1>17, <2>2 DEF NoIncludes
    <2>4. OutAt(r, prev, g + 1, t.out)
      BY <1>17, <2>3 DEF OutAt, b
    <2>5. TagOf(r, g + 1, t.hold)
      BY <1>6, <1>17, <2>1, <2>2 DEF Heads
    <2> QED
      BY <1>4, <1>17, <2>1, <2>2, <2>3, <2>4, <2>5 DEF ScanAt, b
  <1>18. CASE a = "endremove<" /\ k = "endremove>" /\ b = "pass"
    <2>1. s.mode = "strip" /\ ModeAt(r, g + 1) = "pass" /\ s.last = "endremove<"
      BY <1>4, <1>18 DEF ModeAt, Heads, a, b
    <2>2. /\ t.mode = "pass" /\ t.hold = <<>> /\ t.out = s.out
          /\ t.holding = s.holding /\ t.subrequest = s.subrequest
      BY <1>1, <1>10, <1>18, <2>1, RegionAt
    <2>3. prev \cup Range(t.out) = Stuff(r, g + 1) /\ (t.holding \/ NoIncludes(r, g + 1))
      BY <1>4, <1>7, <1>8, <1>18, <2>2 DEF NoIncludes
    <2>4. OutAt(r, prev, g + 1, t.out)
      BY <1>18, <2>3 DEF OutAt, b
    <2>5. TagOf(r, g + 1, t.hold)
      BY <1>6, <1>18, <2>2 DEF Heads
    <2> QED
      BY <1>4, <1>18, <2>1, <2>2, <2>3, <2>4, <2>5 DEF ScanAt, b
  <1>19. CASE a = "vars" /\ k = "endvars<" /\ b = "endvars<"
    <2>1. s.mode = "vars" /\ s.hold = <<>> /\ ModeAt(r, g + 1) = "vars"
      BY <1>4, <1>5, <1>19 DEF ModeAt, Heads, a, b
    <2>2. /\ t.mode = "vars" /\ t.hold = s.hold /\ t.out = Append(s.out, x) /\ t.last = k
          /\ t.holding = s.holding /\ t.subrequest = s.subrequest
      BY <1>1, <1>10, <1>19, <2>1, RegionAt
    <2>3. prev \cup Range(s.out) = Stuff(r, g + 1) /\ (t.holding \/ NoIncludes(r, g + 1))
      BY <1>4, <1>7, <1>8, <1>19, <2>2 DEF NoIncludes
    <2>4. OutAt(r, prev, g + 1, t.out)
      BY <1>3, <1>10, <1>19, <2>2, <2>3 DEF OutAt, b
    <2>5. TagOf(r, g + 1, t.hold)
      BY <1>6, <1>19, <2>1, <2>2 DEF Heads
    <2> QED
      BY <1>4, <1>19, <2>1, <2>2, <2>3, <2>4, <2>5 DEF ScanAt, b
  <1>20. CASE a = "endvars<" /\ k = "endvars>" /\ b = "pass"
    <2>1. s.mode = "vars" /\ ModeAt(r, g + 1) = "pass" /\ s.last = "endvars<"
      BY <1>4, <1>20 DEF ModeAt, Heads, a, b
    <2>2. /\ t.mode = "pass" /\ t.hold = <<>> /\ t.out = Front(s.out)
          /\ t.holding = s.holding /\ t.subrequest = s.subrequest
      BY <1>1, <1>10, <1>20, <2>1, RegionAt
    <2>3. PICK u \in Seq(ItemsOf(r.q)) : s.out = Append(u, Atom(r, g)) /\ prev \cup Range(u) = Stuff(r, g)
      BY <1>4, <1>20 DEF OutAt, a
    <2>4. Front(s.out) = u
      <3>1. Atom(r, g) \in ItemsOf(r.q)
        <4>1. g \in 1 .. Len(r.page)
          <5>1. Len(r.page) \in Nat /\ r.at[0] = "pass"
            BY Step DEF Reading, Reads
          <5> QED
            BY <1>20, <5>1 DEF a
        <4> QED
          BY <4>1, AtomItem
      <3> QED
        BY <2>3, <3>1, FrontOfAppend
    <2>5. prev \cup Range(t.out) = Stuff(r, g + 1) /\ (t.holding \/ NoIncludes(r, g + 1))
      BY <1>4, <1>8, <1>20, <2>2, <2>3, <2>4 DEF NoIncludes
    <2>6. OutAt(r, prev, g + 1, t.out)
      BY <1>20, <2>5 DEF OutAt, b
    <2>7. TagOf(r, g + 1, t.hold)
      BY <1>6, <1>20, <2>2 DEF Heads
    <2> QED
      BY <1>4, <1>20, <2>1, <2>2, <2>5, <2>6, <2>7 DEF ScanAt, b
  <1>21. \/ a \in {"pass", "vars"} /\ k = "text" /\ b = a
         \/ a = "pass" /\ k \in Heads /\ b = k
         \/ a \in Heads /\ k = "attr" /\ b = a
         \/ a = "remove<" /\ k = "remove>" /\ b = "strip"
         \/ a = "vars<" /\ k = "vars>" /\ b = "vars"
         \/ a \in {"dyn<", "gone<"} /\ k \in {"dyn>", "gone>"} /\ b = "pass"
         \/ a = "strip" /\ b \in {"strip", "endremove<"} /\ k # "endremove>"
              /\ (b = "endremove<" => k = b)
         \/ a = "endremove<" /\ k = "endremove>" /\ b = "pass"
         \/ a = "vars" /\ k = "endvars<" /\ b = "endvars<"
         \/ a = "endvars<" /\ k = "endvars>" /\ b = "pass"
    BY <1>2, GrammarSteps
  <1> QED
    BY <1>11, <1>12, <1>13, <1>14, <1>15, <1>16, <1>17, <1>18, <1>19, <1>20, <1>21

\* What the filter makes of a page does not grow while a tag is open.
LEMMA OpenTagStuff ==
  ASSUME NEW r, Reading(r), NEW g \in 0 .. Len(r.page), NEW k \in 1 .. g, OpenTag(r, k, g)
  PROVE  Stuff(r, k - 1) = Stuff(r, g) /\ Includes(r, k - 1) = Includes(r, g)
  <1>1. /\ Len(r.page) \in Nat
    BY LenProperties DEF Reading
  <1>2. /\ r.at[k - 1] = "pass" /\ r.page[k] \in Heads
        /\ \A m \in k + 1 .. g : r.page[m] = "attr"
    BY DEF OpenTag
  <1>3. \A i \in 1 .. g : i \in 1 .. k - 1 \/ i = k \/ i \in k + 1 .. g
    BY <1>1
  <1>4. 1 .. k - 1 \subseteq 1 .. g
    BY <1>1
  <1>5. Texts(r, k - 1) = Texts(r, g)
    BY <1>2, <1>3, <1>4 DEF Texts, Heads
  <1>6. ASSUME NEW i \in 1 .. g, NEW j \in i + 1 .. g, ClosedTag(r, i, j)
        PROVE  i \in Includes(r, k - 1)
    <2>1. j \in 1 .. g /\ j \in 1 .. Len(r.page)
      BY <1>1
    <2>2. r.at[j - 1] \in {"dyn<", "gone<"} /\ r.at[j] = "pass"
      BY <1>6 DEF ClosedTag
    <2>3. j # k
      BY <1>2, <2>2
    <2>4. j \notin k + 1 .. g
      <3>1. <<r.at[j - 1], r.page[j], r.at[j]>> \in Grammar
        BY <2>1, Step
      <3>2. r.page[j] # "attr"
        BY <2>2, <3>1, GrammarSteps DEF Heads
      <3> QED
        BY <1>2, <3>2
    <2>5. j \in i + 1 .. k - 1 /\ i \in 1 .. k - 1
      BY <1>1, <1>3, <2>1, <2>3, <2>4
    <2> QED
      BY <1>6, <2>5 DEF Includes
  <1>7. Includes(r, g) \subseteq Includes(r, k - 1)
    BY <1>6 DEF Includes
  <1>8. Includes(r, k - 1) \subseteq Includes(r, g)
    <2> SUFFICES ASSUME NEW i \in 1 .. k - 1, NEW j \in i + 1 .. k - 1, ClosedTag(r, i, j)
                 PROVE  i \in Includes(r, g)
      BY DEF Includes
    <2>1. i \in 1 .. g /\ j \in i + 1 .. g
      BY <1>1
    <2> QED
      BY <2>1 DEF Includes
  <1> QED
    BY <1>5, <1>7, <1>8 DEF Stuff

\* Two parts of the page put together.
LEMMA BetweenConcat ==
  ASSUME NEW r, Reading(r), NEW j \in Nat, NEW k \in Nat, NEW l \in Nat, j <= k, k <= l,
         l <= Len(r.page)
  PROVE  /\ Between(r, j, k) \in Seq(ItemsOf(r.q))
         /\ Between(r, j, k) \o Between(r, k, l) = Between(r, j, l)
  <1> DEFINE I == ItemsOf(r.q)
             a == Between(r, j, k)
             b == Between(r, k, l)
             c == Between(r, j, l)
  <1>1. Len(r.page) \in Nat
    BY LenProperties DEF Reading
  <1>2. \A i \in 1 .. l : Atom(r, i) \in I
    <2> TAKE i \in 1 .. l
    <2>1. i \in 1 .. Len(r.page)
      BY <1>1
    <2> QED
      BY <2>1, AtomItem
  <1>3. /\ \A i \in 1 .. k - j : j + i \in 1 .. l
        /\ \A i \in 1 .. l - k : k + i \in 1 .. l
        /\ \A i \in 1 .. l - j : j + i \in 1 .. l
        /\ k - j \in Nat /\ l - k \in Nat /\ l - j \in Nat
    OBVIOUS
  <1> HIDE DEF I
  <1>4. /\ a = [i \in 1 .. k - j |-> Atom(r, j + i)]
        /\ b = [i \in 1 .. l - k |-> Atom(r, k + i)]
        /\ c = [i \in 1 .. l - j |-> Atom(r, j + i)]
    BY DEF Between
  <1> HIDE DEF a, b, c
  <1>5. a \in Seq(I)
    BY <1>2, <1>3, <1>4
  <1>6. b \in Seq(I)
    BY <1>2, <1>3, <1>4
  <1>7. c \in Seq(I)
    BY <1>2, <1>3, <1>4
  <1>8. Len(a) = k - j /\ Len(b) = l - k /\ Len(c) = l - j
    BY <1>3, <1>4
  <1>9. /\ a \o b \in Seq(I) /\ Len(a \o b) = l - j
        /\ \A i \in 1 .. k - j : (a \o b)[i] = Atom(r, j + i)
        /\ \A i \in 1 .. l - k : (a \o b)[(k - j) + i] = Atom(r, k + i)
    <2>1. /\ a \o b \in Seq(I) /\ Len(a \o b) = Len(a) + Len(b)
          /\ \A i \in 1 .. Len(a) : (a \o b)[i] = a[i]
          /\ \A i \in 1 .. Len(b) : (a \o b)[Len(a) + i] = b[i]
      BY <1>5, <1>6, ConcatParts
    <2>2. (k - j) + (l - k) = l - j
      OBVIOUS
    <2> QED
      BY <1>4, <1>8, <2>1, <2>2
  <1>10. \A i \in 1 .. l - j : (a \o b)[i] = Atom(r, j + i)
    <2> TAKE i \in 1 .. l - j
    <2>1. CASE i \in 1 .. k - j
      BY <1>9, <2>1
    <2>2. CASE i \notin 1 .. k - j
      <3>1. i - (k - j) \in 1 .. l - k /\ (k - j) + (i - (k - j)) = i
        BY <2>2
      <3>2. k + (i - (k - j)) = j + i
        OBVIOUS
      <3> QED
        BY <1>9, <3>1, <3>2
    <2> QED
      BY <2>1, <2>2
  <1> DEFINE w == a \o b
  <1>11. w \in Seq(I) /\ Len(w) = l - j /\ \A i \in 1 .. l - j : w[i] = Atom(r, j + i)
    BY <1>9, <1>10
  <1> HIDE DEF w
  <1>12. w = [i \in 1 .. l - j |-> w[i]]
    BY <1>11, LenProperties
  <1>13. w = c
    BY <1>4, <1>11, <1>12
  <1> QED
    BY <1>5, <1>13 DEF I, a, b, c, w

\* What the filter makes of the next atoms, if no partial tag is too long.
LEMMA ProcessAt ==
  ASSUME NEW r, Reading(r), NEW f \in Nat, NEW n \in Nat, f + n <= Len(r.page),
         NEW c \in CtxOf(r.q), c.mode = ModeAt(r, f), r.at[f] \notin {"endremove<", "endvars<"},
         TagOf(r, f, c.hold), NEW prev, prev = Stuff(r, f), c.holding \/ NoIncludes(r, f),
         c.subrequest = r.marker,
         NEW p, p = Process(c, Between(r, f, f + n)), p.last # "long"
  PROVE  ScanAt(r, prev, f + n, p) /\ p \in Scanning(r.q, c)
  <1>1. Len(r.page) \in Nat
    BY LenProperties DEF Reading
  <1>2. PICK g \in 0 .. f : /\ r.at[g] \notin Heads \cup {"endremove<", "endvars<"}
                            /\ ModeAt(r, g) = ModeAt(r, f)
                            /\ c.hold = Between(r, g, f)
                            /\ Stuff(r, g) = Stuff(r, f) /\ Includes(r, g) = Includes(r, f)
    <2>1. CASE c.hold = <<>>
      <3>1. r.at[f] \notin Heads
        BY <2>1 DEF TagOf
      <3>2. f - f = 0 /\ f \in 0 .. f
        OBVIOUS
      <3>3. <<>> = Between(r, f, f)
        BY <3>2 DEF Between
      <3> QED
        BY <2>1, <3>1, <3>2, <3>3
    <2>2. CASE c.hold # <<>>
      <3>1. PICK k \in 1 .. f : OpenTag(r, k, f) /\ c.hold = Between(r, k - 1, f)
        BY <2>2 DEF TagOf
      <3>2. r.at[k - 1] = "pass" /\ r.at[f] \in Heads
        BY <3>1 DEF OpenTag
      <3>3. k - 1 \in 0 .. f
        OBVIOUS
      <3>4. f \in 0 .. Len(r.page)
        BY <1>1
      <3>5. Stuff(r, k - 1) = Stuff(r, f) /\ Includes(r, k - 1) = Includes(r, f)
        BY <3>1, <3>4, OpenTagStuff
      <3>6. ModeAt(r, k - 1) = ModeAt(r, f)
        BY <3>2 DEF ModeAt, Heads
      <3>7. r.at[k - 1] \notin Heads \cup {"endremove<", "endvars<"}
        BY <3>2 DEF Heads
      <3> QED
        BY <3>1, <3>3, <3>5, <3>6, <3>7
    <2> QED
      BY <2>1, <2>2
  <1> DEFINE l == f + n
             data == Between(r, g, l)
             I == ItemsOf(r.q)
  <1>3. l \in Nat /\ g \in Nat /\ g <= f /\ f <= l /\ l <= Len(r.page) /\ g <= l
        /\ g + (l - g) = l
    BY <1>1
  <1>4. p = Scan(c, data)
    <2>1. Between(r, g, f) \o Between(r, f, l) = data
      BY <1>3, BetweenConcat
    <2> QED
      BY <1>2, <2>1 DEF Process
  <1> HIDE DEF l, I
  <1>5. /\ Len(data) = l - g /\ l - g \in Nat
        /\ \A i \in 1 .. l - g : data[i] = Atom(r, g + i)
    <2>1. data = [i \in 1 .. l - g |-> Atom(r, g + i)]
      BY DEF Between
    <2>2. l - g \in Nat
      BY <1>3
    <2> HIDE DEF data
    <2> QED
      BY <2>1, <2>2
  <1> HIDE DEF data
  <1> DEFINE Good == [i \in 0 .. l - g |->
                        {s \in Scanning(r.q, c) : TagHeld(s) /\ ScanAt(r, prev, g + i, s)}]
  <1>6. ScanStart(c) \in Good[0]
    <2> DEFINE s == ScanStart(c)
    <2>1. s \in Scanning(r.q, c)
      BY EmptySeq DEF ScanStart, Scanning, CtxOf, EveryKind, Kinds
    <2>2. /\ s.mode = c.mode /\ s.hold = <<>> /\ s.holding = c.holding
          /\ s.subrequest = c.subrequest /\ s.out = <<>>
      BY DEF ScanStart
    <2> HIDE DEF s
    <2>3. TagHeld(s)
      BY <2>2 DEF TagHeld
    <2>4. TagOf(r, g, s.hold)
      BY <1>2, <2>2 DEF TagOf
    <2>5. OutAt(r, prev, g, s.out)
      BY <1>2, <2>2, RangeEmpty DEF OutAt
    <2>6. s.holding \/ NoIncludes(r, g)
      BY <1>2, <2>2 DEF NoIncludes
    <2>7. ScanAt(r, prev, g, s)
      BY <1>2, <2>2, <2>4, <2>5, <2>6 DEF ScanAt
    <2>8. g + 0 = g /\ 0 \in 0 .. l - g
      BY <1>3, <1>5
    <2>9. s \in Good[0]
      BY <2>1, <2>3, <2>7, <2>8
    <2> QED
      BY <2>9 DEF s
  <1>7. ASSUME NEW i \in 1 .. l - g, NEW s \in Good[i - 1]
        PROVE  Absorb(s, data[i]) \in Good[i]
    <2>1. i - 1 \in 0 .. l - g /\ i \in 0 .. l - g /\ g + (i - 1) \in Nat
          /\ (g + (i - 1)) + 1 = g + i /\ g + i \in 1 .. Len(r.page)
      BY <1>1, <1>3, <1>5
    <2>2. s \in Scanning(r.q, c) /\ TagHeld(s) /\ ScanAt(r, prev, g + (i - 1), s)
      BY <2>1
    <2> DEFINE m == g + (i - 1)
               x == Atom(r, g + i)
               t == Absorb(s, x)
    <2>3. x \in ItemsOf(r.q)
      BY <2>1, AtomItem
    <2>4. m \in Nat /\ m + 1 \in 1 .. Len(r.page) /\ x = Atom(r, m + 1) /\ m + 1 = g + i
      BY <2>1
    <2>5. ScanAt(r, prev, m, s)
      BY <2>2
    <2> HIDE DEF m, x
    <2>6. t \in Scanning(r.q, c) /\ TagHeld(t)
      BY <2>2, <2>3, AbsorbType
    <2>7. ScanAt(r, prev, m + 1, t)
      <3>1. t = Absorb(s, Atom(r, m + 1))
        BY <2>4
      <3> QED
        BY <2>2, <2>4, <2>5, <3>1, AbsorbAt
    <2>8. t \in Good[i]
      BY <2>1, <2>4, <2>6, <2>7
    <2>9. data[i] = x
      BY <1>5 DEF x
    <2> QED
      BY <2>8, <2>9
  <1>8. PICK s \in Good[l - g] : p = FailOpen(s)
    <2> HIDE DEF Good
    <2>1. \A i \in 1 .. Len(data) : \A s \in Good[i - 1] : Absorb(s, data[i]) \in Good[i]
      BY <1>5, <1>7
    <2> QED
      BY <1>4, <1>5, <1>6, <2>1, ScanInduction
  <1>9. s \in Scanning(r.q, c) /\ ScanAt(r, prev, l, s)
    BY <1>3, <1>5, <1>8
  <1>10. ~ (Len(s.hold) > HoldMax)
    <2>1. CASE Len(s.hold) > HoldMax
      <3>1. p = [s EXCEPT !.out = s.out \o s.hold, !.hold = <<>>, !.last = "long"]
        BY <1>8, <2>1 DEF FailOpen
      <3>2. p.last = "long"
        BY <1>9, <3>1 DEF Scanning
      <3> QED
        BY <3>2
    <2> QED
      BY <2>1
  <1>11. p = s
    BY <1>8, <1>10 DEF FailOpen
  <1> QED
    BY <1>9, <1>11 DEF l

----------------------------------------------------------------------------
(***************************************************************************)
(* What is delivered in the end.                                           *)
(***************************************************************************)
Delivered(X) == {Fragment(x) : x \in {y \in X : Resolved(y)}}

\* What is joined is what was held, with its fragments.
LEMMA JoinRange ==
  ASSUME NEW q, NEW held \in Seq(ItemsOf(q))
  PROVE  Range(Join(held)) = Delivered(Range(held))
  <1> DEFINE n == Len(held)
             Seen(i) == {held[j] : j \in 1 .. i}
             I == ItemsOf(q)
             Good(i, s) == s \in Seq(I) /\ Range(s) = Delivered(Seen(i))
  <1>1. n \in Nat /\ DOMAIN held = 1 .. n /\ \A i \in 1 .. n : held[i] \in I
    BY LenProperties, ElementOfSeq
  <1>2. \E f : JoinUpTo(held, n, f)
    BY <1>1, JoinExists
  <1>3. \E f : Join(held) = f[n] /\ JoinUpTo(held, n, f)
    BY <1>2 DEF Join, JoinUpTo
  <1>4. PICK f : Join(held) = f[n] /\ JoinUpTo(held, n, f)
    BY <1>3
  <1>5. f[0] = <<>> /\ \A i \in 1 .. n : f[i] = Spliced(f[i - 1], held[i])
    BY <1>1, <1>4 DEF JoinUpTo
  <1>6. Good(0, f[0])
    <2>1. Seen(0) = {}
      OBVIOUS
    <2>2. Delivered({}) = {}
      BY DEF Delivered
    <2>3. <<>> \in Seq(I) /\ Range(<<>>) = {}
      BY EmptySeq, RangeEmpty
    <2> HIDE DEF I, Seen
    <2> QED
      BY <1>5, <2>1, <2>2, <2>3
  <1>7. ASSUME NEW i \in 1 .. n, Good(i - 1, f[i - 1])
        PROVE  Good(i, f[i])
    <2> DEFINE s == f[i - 1]
               h == held[i]
               b == Fragment(h)
    <2>1. b \in I
      BY <1>1 DEF Fragment, ItemsOf, EveryKind
    <2>2. Seen(i) = Seen(i - 1) \cup {h}
      <3>1. 1 .. i = (1 .. i - 1) \cup {i}
        BY <1>1
      <3> QED
        BY <3>1
    <2>3. f[i] = Spliced(s, h)
      BY <1>5
    <2>4. s \in Seq(I) /\ Range(s) = Delivered(Seen(i - 1))
      BY <1>7
    <2>5. h = held[i]
      OBVIOUS
    <2> HIDE DEF I, Seen, s, h
    <2>6. CASE Resolved(h)
      <3>1. f[i] = Append(s, b)
        BY <2>3, <2>6 DEF Spliced
      <3>2. Delivered(Seen(i)) = Delivered(Seen(i - 1)) \cup {b}
        BY <2>2, <2>6 DEF Delivered
      <3> HIDE DEF b
      <3>3. Append(s, b) \in Seq(I)
        BY <2>1, <2>4, AppendProperties
      <3>4. Range(Append(s, b)) = Range(s) \cup {b}
        BY <2>1, <2>4, RangeAppend
      <3> QED
        BY <2>4, <3>1, <3>2, <3>3, <3>4
    <2>7. CASE ~ Resolved(h)
      <3>1. f[i] = s
        BY <2>3, <2>7 DEF Spliced
      <3>2. Delivered(Seen(i)) = Delivered(Seen(i - 1))
        BY <2>2, <2>7 DEF Delivered
      <3> QED
        BY <2>4, <3>1, <3>2
    <2> QED
      BY <2>6, <2>7
  <1> DEFINE S == {i \in 0 .. n : ~ Good(i, f[i])}
  <1>8. ASSUME S # {} PROVE FALSE
    <2> HIDE DEF Good
    <2> S \in SUBSET Nat
      OBVIOUS
    <2>1. PICK i \in S : \A k \in Nat : k < i => k \notin S
      <3> HIDE DEF S
      <3> QED
        BY <1>8, FirstFailure
    <2>2. i # 0
      BY <1>6
    <2>3. i \in 1 .. n /\ i - 1 \in 0 .. n /\ i - 1 \in Nat /\ i - 1 < i
      BY <1>1, <2>2
    <2>4. Good(i - 1, f[i - 1])
      BY <2>1, <2>3
    <2> QED
      BY <1>7, <2>3, <2>4
  <1>9. Good(n, f[n])
    <2> HIDE DEF Good
    <2> QED
      BY <1>1, <1>8
  <1>10. Seen(n) = Range(held)
    BY <1>1 DEF Range
  <1> QED
    BY <1>4, <1>9, <1>10

\* What is settled is delivered as it is.
LEMMA DeliveredSettled ==
  /\ \A X, Y : Delivered(X \cup Y) = Delivered(X) \cup Delivered(Y)
  /\ \A X : (\A x \in X : x.kind \notin {"dyn", "gone"}) => Delivered(X) = X
  <1>1. ASSUME NEW X, NEW Y PROVE Delivered(X \cup Y) = Delivered(X) \cup Delivered(Y)
    BY DEF Delivered
  <1>2. ASSUME NEW X, \A x \in X : x.kind \notin {"dyn", "gone"}
        PROVE  Delivered(X) = X
    <2>1. \A x \in X : Resolved(x) /\ Fragment(x) = x
      BY <1>2 DEF Resolved, Fragment
    <2> QED
      BY <2>1 DEF Delivered
  <1> QED
    BY <1>1, <1>2

\* In a tag or a removed region, attributes change nothing.
LEMMA AttrRun ==
  ASSUME NEW r, Reading(r), NEW j \in 0 .. Len(r.page), NEW h \in j .. Len(r.page),
         r.at[j] \in Heads \cup {"strip"}, \A m \in j + 1 .. h : r.page[m] = "attr"
  PROVE  \A m \in j .. h : r.at[m] = r.at[j]
  <1> DEFINE S == {m \in j .. h : r.at[m] # r.at[j]}
  <1>1. Len(r.page) \in Nat
    BY LenProperties DEF Reading
  <1>2. ASSUME S # {} PROVE FALSE
    <2>1. S \in SUBSET Nat
      BY <1>1
    <2>2. PICK m \in S : \A k \in Nat : k < m => k \notin S
      <3> HIDE DEF S
      <3> QED
        BY <1>2, <2>1, FirstFailure
    <2>3. m # j /\ m \in j .. h
      BY <2>2
    <2>4. m - 1 \in j .. h /\ m - 1 \in Nat /\ m \in j + 1 .. h /\ m \in 1 .. Len(r.page)
      BY <1>1, <2>3
    <2>5. r.at[m - 1] = r.at[j]
      BY <2>2, <2>4
    <2>6. <<r.at[m - 1], r.page[m], r.at[m]>> \in Grammar /\ r.page[m] = "attr"
      BY <2>4, Step
    <2>7. r.at[m] = r.at[m - 1]
      BY <2>5, <2>6, GrammarSteps DEF Heads
    <2> QED
      BY <2>2, <2>5, <2>7
  <1> QED
    BY <1>2

\* A removed atom is one that finds the page in a removed region.
LEMMA RemovedAt ==
  ASSUME NEW r, Reading(r), NEW i \in 1 .. Len(r.page)
  PROVE  Removed(r.page, i) <=> r.at[i - 1] = "strip"
  <1>1. Len(r.page) \in Nat
    BY LenProperties DEF Reading
  <1> DEFINE Since(j, m) == r.page[j] = "remove>" /\ \A k \in j .. m : r.page[k] # "endremove<"
  <1>2. ASSUME NEW j \in 1 .. i - 1, Since(j, i - 1) PROVE r.at[i - 1] = "strip"
    <2> DEFINE S == {m \in j .. i - 1 : r.at[m] # "strip"}
    <2>1. ASSUME S # {} PROVE FALSE
      <3>1. S \in SUBSET Nat
        BY <1>1
      <3>2. PICK m \in S : \A k \in Nat : k < m => k \notin S
        <4> HIDE DEF S
        <4> QED
          BY <2>1, <3>1, FirstFailure
      <3>3. m \in j .. i - 1 /\ m \in 1 .. Len(r.page)
        BY <1>1, <3>2
      <3>4. /\ <<r.at[m - 1], r.page[m], r.at[m]>> \in Grammar /\ r.page[m] # "endremove<"
            /\ r.at[m] # "strip"
        BY <1>2, <3>2, <3>3, Step
      <3>5. CASE m = j
        <4>1. r.page[m] = "remove>"
          BY <1>2, <3>5
        <4> QED
          BY <3>4, <4>1, GrammarSteps DEF Heads
      <3>6. CASE m # j
        <4>1. m - 1 \in j .. i - 1 /\ m - 1 \in Nat
          BY <3>3, <3>6
        <4>2. r.at[m - 1] = "strip"
          BY <3>2, <4>1
        <4>3. r.at[m] = "strip"
          BY <3>4, <4>2, GrammarSteps DEF Heads
        <4> QED
          BY <3>4, <4>3
      <3> QED
        BY <3>5, <3>6
    <2>2. i - 1 \in j .. i - 1
      BY <1>1
    <2> QED
      BY <2>1, <2>2
  <1>3. \A m \in 0 .. Len(r.page) : r.at[m] = "strip" => \E j \in 1 .. m : Since(j, m)
    <2> DEFINE Good(m) == r.at[m] = "strip" => \E j \in 1 .. m : Since(j, m)
               S == {m \in 0 .. Len(r.page) : ~ Good(m)}
    <2>1. ASSUME S # {} PROVE FALSE
      <3>1. S \in SUBSET Nat
        BY <1>1
      <3>2. PICK m \in S : \A k \in Nat : k < m => k \notin S
        <4> HIDE DEF S
        <4> QED
          BY <2>1, <3>1, FirstFailure
      <3>3. m \in 0 .. Len(r.page) /\ r.at[m] = "strip" /\ ~ \E j \in 1 .. m : Since(j, m)
        BY <3>2
      <3>4. m # 0
        BY <3>3 DEF Reading, Reads
      <3>5. m \in 1 .. Len(r.page) /\ m - 1 \in 0 .. Len(r.page) /\ m - 1 \in Nat /\ m - 1 < m
        BY <1>1, <3>3, <3>4
      <3>6. <<r.at[m - 1], r.page[m], r.at[m]>> \in Grammar
        BY <3>5, Step
      <3>7. \/ r.page[m] = "remove>"
            \/ r.at[m - 1] = "strip" /\ r.page[m] # "endremove<"
        BY <3>3, <3>6, GrammarSteps DEF Heads
      <3>8. CASE r.page[m] = "remove>"
        <4>1. m \in 1 .. m /\ \A k \in m .. m : k = m
          BY <3>5
        <4>2. Since(m, m)
          BY <3>8, <4>1
        <4> QED
          BY <3>3, <4>1, <4>2
      <3>9. CASE r.at[m - 1] = "strip" /\ r.page[m] # "endremove<"
        <4>1. Good(m - 1)
          BY <3>2, <3>5
        <4>2. PICK j \in 1 .. m - 1 : Since(j, m - 1)
          BY <3>9, <4>1
        <4>3. j \in 1 .. m /\ \A k \in j .. m : k \in j .. m - 1 \/ k = m
          BY <3>5
        <4>4. Since(j, m)
          BY <3>9, <4>2, <4>3
        <4> QED
          BY <3>3, <4>3, <4>4
      <3> QED
        BY <3>7, <3>8, <3>9
    <2> QED
      BY <2>1
  <1>4. i - 1 \in 0 .. Len(r.page)
    BY <1>1
  <1> QED
    BY <1>2, <1>3, <1>4 DEF Removed

\* An atom of a tag that is never closed is in a tag that is open at the end.
LEMMA NeverClosedAt ==
  ASSUME NEW r, Reading(r), NEW i \in 1 .. Len(r.page)
  PROVE  NeverClosed(r.page, i) /\ r.at[i - 1] # "strip" <=>
           \E k \in 1 .. i : OpenTag(r, k, Len(r.page))
  <1> DEFINE N == Len(r.page)
  <1>1. N \in Nat /\ i \in 1 .. N /\ \A k \in 1 .. i : k \in 1 .. N /\ k \in 0 .. N /\ N \in k .. N
    BY LenProperties DEF Reading
  <1> HIDE DEF N
  <1>2. ASSUME NEW j \in 1 .. i, r.page[j] \in Heads, \A m \in j + 1 .. N : r.page[m] = "attr",
               r.at[i - 1] # "strip"
        PROVE  OpenTag(r, j, N)
    <2>1. <<r.at[j - 1], r.page[j], r.at[j]>> \in Grammar
      BY <1>1, Step DEF N
    <2>2. \/ r.at[j - 1] = "pass" /\ r.at[j] = r.page[j]
          \/ r.at[j - 1] = "strip" /\ r.at[j] = "strip"
      BY <1>2, <2>1, GrammarSteps DEF Heads
    <2>3. \A m \in j .. N : r.at[m] = r.at[j]
      <3>1. r.at[j] \in Heads \cup {"strip"}
        BY <1>2, <2>2
      <3> QED
        BY <1>1, <1>2, <3>1, AttrRun DEF N
    <2>4. r.at[j - 1] # "strip"
      <3>1. CASE j = i
        BY <1>2, <3>1
      <3>2. CASE j # i
        <4>1. i - 1 \in j .. N
          BY <1>1, <3>2
        <4> QED
          BY <1>2, <2>2, <2>3, <4>1
      <3> QED
        BY <3>1, <3>2
    <2>5. N \in j .. N
      BY <1>1
    <2>6. r.at[j - 1] = "pass" /\ r.at[N] = r.page[j]
      BY <2>2, <2>3, <2>4, <2>5
    <2> QED
      BY <1>1, <1>2, <2>6 DEF OpenTag
  <1>3. ASSUME NEW k \in 1 .. i, OpenTag(r, k, N)
        PROVE  NeverClosed(r.page, i) /\ r.at[i - 1] # "strip"
    <2>1. /\ r.at[k - 1] = "pass" /\ r.page[k] \in Heads
          /\ \A m \in k + 1 .. N : r.page[m] = "attr"
      BY <1>3 DEF OpenTag
    <2>2. NeverClosed(r.page, i)
      BY <2>1 DEF NeverClosed, N
    <2>3. <<r.at[k - 1], r.page[k], r.at[k]>> \in Grammar
      BY <1>1, Step DEF N
    <2>4. r.at[k] \in Heads
      BY <2>1, <2>3, GrammarSteps DEF Heads
    <2>5. \A m \in k .. N : r.at[m] = r.at[k]
      BY <1>1, <2>1, <2>4, AttrRun DEF N
    <2>6. r.at[i - 1] # "strip"
      <3>1. CASE k = i
        BY <2>1, <3>1
      <3>2. CASE k # i
        <4>1. i - 1 \in k .. N
          BY <1>1, <3>2
        <4> QED
          BY <2>4, <2>5, <4>1 DEF Heads
      <3> QED
        BY <3>1, <3>2
    <2> QED
      BY <2>2, <2>6
  <1> QED
    BY <1>2, <1>3 DEF NeverClosed, N

\* A dynamic include is closed, or it is open at the end.
LEMMA IncludeAt ==
  ASSUME NEW r, Reading(r), NEW i \in 1 .. Len(r.page), r.page[i] = "dyn<"
  PROVE  r.at[i - 1] # "strip" <=>
           i \in Includes(r, Len(r.page)) \/ \E k \in 1 .. i : OpenTag(r, k, Len(r.page))
  <1> DEFINE N == Len(r.page)
  <1>1. N \in Nat /\ i \in 1 .. N /\ i \in 0 .. N
    BY LenProperties DEF Reading
  <1> HIDE DEF N
  <1>2. <<r.at[i - 1], r.page[i], r.at[i]>> \in Grammar
    BY <1>1, Step DEF N
  <1>3. ASSUME r.at[i - 1] # "strip", ~ NeverClosed(r.page, i)
        PROVE  i \in Includes(r, N)
    <2>1. r.at[i - 1] = "pass" /\ r.at[i] = "dyn<"
      BY <1>2, <1>3, GrammarSteps DEF Heads
    <2> DEFINE S == {m \in i + 1 .. N : r.page[m] # "attr"}
    <2>2. S # {}
      BY <1>1, <1>3 DEF NeverClosed, Heads, N
    <2>3. S \in SUBSET Nat
      BY <1>1
    <2>4. PICK m \in S : \A k \in Nat : k < m => k \notin S
      <3> HIDE DEF S
      <3> QED
        BY <2>2, <2>3, FirstFailure
    <2>5. m \in i + 1 .. N /\ r.page[m] # "attr" /\ m - 1 \in i .. N /\ m \in 1 .. N
      BY <1>1, <2>4
    <2>6. \A k \in i + 1 .. m - 1 : r.page[k] = "attr"
      <3> TAKE k \in i + 1 .. m - 1
      <3>1. k \in Nat /\ k < m /\ k \in i + 1 .. N
        BY <1>1, <2>5
      <3> QED
        BY <2>4, <3>1
    <2>7. r.at[m - 1] = "dyn<"
      <3>1. \A k \in i .. m - 1 : r.at[k] = r.at[i]
        <4>1. r.at[i] \in Heads \cup {"strip"}
          BY <2>1 DEF Heads
        <4> QED
          BY <1>1, <2>5, <2>6, <4>1, AttrRun DEF N
      <3>2. m - 1 \in i .. m - 1
        BY <2>5
      <3> QED
        BY <2>1, <3>1, <3>2
    <2>8. <<r.at[m - 1], r.page[m], r.at[m]>> \in Grammar
      BY <2>5, Step DEF N
    <2>9. r.at[m] = "pass"
      BY <2>5, <2>7, <2>8, GrammarSteps DEF Heads
    <2>10. ClosedTag(r, i, m)
      BY <2>1, <2>6, <2>7, <2>9 DEF ClosedTag
    <2> QED
      BY <1>1, <2>5, <2>10 DEF Includes
  <1>4. ASSUME i \in Includes(r, N) PROVE r.at[i - 1] # "strip"
    <2>1. r.at[i] = "dyn<"
      BY <1>4 DEF Includes, ClosedTag
    <2> QED
      BY <1>2, <2>1, GrammarSteps DEF Heads
  <1>5. NeverClosed(r.page, i) /\ r.at[i - 1] # "strip" <=> \E k \in 1 .. i : OpenTag(r, k, N)
    BY <1>1, NeverClosedAt DEF N
  <1> QED
    BY <1>3, <1>4, <1>5 DEF N

\* A text is a text outside the removed regions.
LEMMA TextAt ==
  ASSUME NEW r, Reading(r), NEW i \in 1 .. Len(r.page)
  PROVE  r.page[i] = "text" /\ r.at[i - 1] # "strip" <=> i \in Texts(r, Len(r.page))
  <1>1. <<r.at[i - 1], r.page[i], r.at[i]>> \in Grammar
    BY Step
  <1>2. r.page[i] = "text" =>
          \/ r.at[i - 1] \in {"pass", "vars"} /\ r.at[i] = r.at[i - 1]
          \/ r.at[i - 1] = "strip" /\ r.at[i] = "strip"
    BY <1>1, GrammarSteps DEF Heads
  <1> QED
    BY <1>2 DEF Texts

\* What is delivered of a page that was handed over as a whole.
KeptOf(r) ==
  {i \in 1 .. Len(r.page) :
     /\ ~ Removed(r.page, i)
     /\ \/ r.page[i] = "text"
        \/ r.page[i] = "dyn<" /\ ~ r.marker
        \/ NeverClosed(r.page, i)}

\* What is delivered of a whole page are the atoms that Kept names, and no
\* include is left without its fragment.
LEMMA DeliveredKept ==
  ASSUME NEW r, Reading(r), NEW N, N = Len(r.page),
         NEW X, X = Delivered(Stuff(r, N) \cup OpenPart(r, N))
  PROVE  {x.pos : x \in X} = KeptOf(r) /\ \A x \in X : x.kind \notin {"dyn", "gone"}
  <1>1. N \in Nat
    BY LenProperties DEF Reading
  <1>2. \A i \in 1 .. N :
          i \in KeptOf(r) <=>
            \/ i \in Texts(r, N)
            \/ r.page[i] = "dyn<" /\ ~ r.marker /\ i \in Includes(r, N)
            \/ \E k \in 1 .. i : OpenTag(r, k, N)
    <2> TAKE i \in 1 .. N
    <2>1. Removed(r.page, i) <=> r.at[i - 1] = "strip"
      BY RemovedAt
    <2>2. NeverClosed(r.page, i) /\ r.at[i - 1] # "strip" <=> \E k \in 1 .. i : OpenTag(r, k, N)
      BY NeverClosedAt
    <2>3. r.page[i] = "dyn<" =>
            (r.at[i - 1] # "strip" <=>
               i \in Includes(r, N) \/ \E k \in 1 .. i : OpenTag(r, k, N))
      BY IncludeAt
    <2>4. r.page[i] = "text" /\ r.at[i - 1] # "strip" <=> i \in Texts(r, N)
      BY TextAt
    <2>5. i \in KeptOf(r) <=>
            /\ ~ Removed(r.page, i)
            /\ \/ r.page[i] = "text"
               \/ r.page[i] = "dyn<" /\ ~ r.marker
               \/ NeverClosed(r.page, i)
      BY DEF KeptOf
    <2> QED
      BY <2>1, <2>2, <2>3, <2>4, <2>5
  <1>4. \A i \in 1 .. N : r.page[i] \in Kinds
    BY Step
  <1>5. \A i \in 1 .. N : /\ Resolved(Atom(r, i)) /\ Fragment(Atom(r, i)).pos = i
                         /\ Fragment(Atom(r, i)).kind \notin {"dyn", "gone"}
    <2> TAKE i \in 1 .. N
    <2>1. Atom(r, i).kind \in Kinds /\ Atom(r, i).pos = i
      BY <1>4 DEF Atom
    <2>2. "dyn" \notin Kinds /\ "gone" \notin Kinds
      BY DEF Kinds, Heads, Tails
    <2> QED
      BY <2>1, <2>2 DEF Resolved, Fragment
  <1>6. \A i \in Includes(r, N) :
          /\ i \in 1 .. N
          /\ Resolved(Placeholder(Atom(r, i))) <=> r.page[i] = "dyn<"
          /\ Fragment(Placeholder(Atom(r, i))).pos = i
          /\ Resolved(Placeholder(Atom(r, i))) =>
               Fragment(Placeholder(Atom(r, i))).kind \notin {"dyn", "gone"}
    <2> TAKE i \in Includes(r, N)
    <2>1. i \in 1 .. N /\ r.page[i] \in {"dyn<", "gone<"}
      BY DEF Includes, ClosedTag
    <2>2. /\ Atom(r, i) = [req |-> r.q, pos |-> i, kind |-> r.page[i]]
      BY DEF Atom
    <2>3. Placeholder(Atom(r, i)) =
            [req |-> r.q, pos |-> i, kind |-> IF r.page[i] = "dyn<" THEN "dyn" ELSE "gone"]
      BY <2>2 DEF Placeholder
    <2>4. Fragment(Placeholder(Atom(r, i))).pos = i
      BY <2>3 DEF Fragment
    <2>5. Resolved(Placeholder(Atom(r, i))) =>
            Fragment(Placeholder(Atom(r, i))).kind \notin {"dyn", "gone"}
      BY <2>3 DEF Fragment, Resolved
    <2> QED
      BY <2>1, <2>3, <2>4, <2>5 DEF Resolved
  <1>7. ASSUME NEW x \in X PROVE x.pos \in KeptOf(r) /\ x.kind \notin {"dyn", "gone"}
    <2>1. PICK y \in Stuff(r, N) \cup OpenPart(r, N) : Resolved(y) /\ x = Fragment(y)
      BY <1>7 DEF Delivered
    <2>2. CASE y \in {Atom(r, i) : i \in Texts(r, N)}
      <3>1. PICK i \in Texts(r, N) : y = Atom(r, i)
        BY <2>2
      <3>2. i \in 1 .. N
        BY DEF Texts
      <3> QED
        BY <1>2, <1>5, <2>1, <3>1, <3>2
    <2>3. CASE ~ r.marker /\ y \in {Placeholder(Atom(r, i)) : i \in Includes(r, N)}
      <3>1. PICK i \in Includes(r, N) : y = Placeholder(Atom(r, i))
        BY <2>3
      <3> QED
        BY <1>2, <1>6, <2>1, <2>3, <3>1
    <2>4. CASE y \in OpenPart(r, N)
      <3>1. PICK i \in 1 .. N : y = Atom(r, i) /\ \E k \in 1 .. i : OpenTag(r, k, N)
        BY <2>4 DEF OpenPart
      <3> QED
        BY <1>2, <1>5, <2>1, <3>1
    <2> QED
      BY <2>2, <2>3, <2>4 DEF Stuff
  <1>8. ASSUME NEW i \in KeptOf(r) PROVE \E x \in X : x.pos = i
    <2>1. i \in 1 .. N
      BY DEF KeptOf
    <2>2. ASSUME NEW y \in Stuff(r, N) \cup OpenPart(r, N), Resolved(y), Fragment(y).pos = i
          PROVE  \E x \in X : x.pos = i
      BY <2>2 DEF Delivered
    <2>3. CASE i \in Texts(r, N)
      <3>1. Atom(r, i) \in Stuff(r, N)
        BY <2>3 DEF Stuff
      <3> QED
        BY <1>5, <2>1, <2>2, <3>1
    <2>4. CASE r.page[i] = "dyn<" /\ ~ r.marker /\ i \in Includes(r, N)
      <3>1. Placeholder(Atom(r, i)) \in Stuff(r, N)
        BY <2>4 DEF Stuff
      <3> QED
        BY <1>6, <2>2, <2>4, <3>1
    <2>5. CASE \E k \in 1 .. i : OpenTag(r, k, N)
      <3>1. Atom(r, i) \in OpenPart(r, N)
        BY <2>1, <2>5 DEF OpenPart
      <3> QED
        BY <1>5, <2>1, <2>2, <3>1
    <2> QED
      BY <1>2, <2>1, <2>3, <2>4, <2>5
  <1>9. {x.pos : x \in X} \subseteq KeptOf(r)
    BY <1>7
  <1>10. KeptOf(r) \subseteq {x.pos : x \in X}
    BY <1>8
  <1> QED
    BY <1>7, <1>9, <1>10

\* A partial tag is what is open of the page.
LEMMA TagPart ==
  ASSUME NEW r, Reading(r), NEW g \in 0 .. Len(r.page), NEW hold, TagOf(r, g, hold)
  PROVE  Range(hold) = OpenPart(r, g)
  <1>1. g \in Nat /\ Len(r.page) \in Nat
    BY LenProperties DEF Reading
  <1>2. CASE hold = <<>>
    <2>1. r.at[g] \notin Heads
      BY <1>2 DEF TagOf
    <2>2. \A k : ~ OpenTag(r, k, g)
      BY <2>1 DEF OpenTag
    <2>3. OpenPart(r, g) = {}
      BY <2>2 DEF OpenPart
    <2> QED
      BY <1>2, <2>3, RangeEmpty
  <1>3. CASE hold # <<>>
    <2>1. PICK k \in 1 .. g : OpenTag(r, k, g) /\ hold = Between(r, k - 1, g)
      BY <1>3 DEF TagOf
    <2> DEFINE j == k - 1
    <2>2. j \in Nat /\ j <= g /\ j + 1 = k
      BY <1>1
    <2>3. hold = Between(r, j, g)
      BY <2>1
    <2> HIDE DEF j
    <2>4. Range(hold) = {Atom(r, i) : i \in k .. g}
      <3>1. Range(Between(r, j, g)) = {Atom(r, i) : i \in j + 1 .. g}
        <4>1. j \in Nat /\ g \in Nat /\ j <= g
          BY <1>1, <2>2
        <4>2. Range(Between(r, j, g)) = AtomsFrom(r, j, g)
          BY <4>1, RangeBetween, Zenon
        <4> QED
          BY <4>2 DEF AtomsFrom
      <3> QED
        BY <2>2, <2>3, <3>1
    <2>5. \A i \in 1 .. g : (\E m \in 1 .. i : OpenTag(r, m, g)) => k <= i
      <3> SUFFICES ASSUME NEW i \in 1 .. g, NEW m \in 1 .. i, OpenTag(r, m, g), i < k
                   PROVE  FALSE
        BY <1>1
      <3>1. k \in m + 1 .. g /\ r.page[k] \in Heads
        BY <1>1, <2>1 DEF OpenTag
      <3>2. r.page[k] = "attr"
        BY <3>1 DEF OpenTag
      <3> QED
        BY <3>1, <3>2 DEF Heads
    <2>6. {i \in 1 .. g : \E m \in 1 .. i : OpenTag(r, m, g)} = k .. g
      <3>1. \A i \in k .. g : i \in 1 .. g /\ k \in 1 .. i
        BY <1>1
      <3>2. \A i \in 1 .. g : k <= i => i \in k .. g
        BY <1>1
      <3> QED
        BY <2>1, <2>5, <3>1, <3>2
    <2>7. OpenPart(r, g) = {Atom(r, i) : i \in k .. g}
      BY <2>6 DEF OpenPart
    <2> QED
      BY <2>4, <2>7
  <1> QED
    BY <1>2, <1>3

\* Without includes, the page has no placeholders; what is open never has any.
LEMMA NoPlaceholders ==
  ASSUME NEW r, Reading(r), NEW g \in 0 .. Len(r.page)
  PROVE  /\ NoIncludes(r, g) => \A x \in Stuff(r, g) : x.kind \notin {"dyn", "gone"}
         /\ \A x \in OpenPart(r, g) : x.kind \notin {"dyn", "gone"}
  <1>1. \A i \in 1 .. g : r.page[i] \in Kinds
    <2> TAKE i \in 1 .. g
    <2>1. Len(r.page) \in Nat
      BY LenProperties DEF Reading
    <2>2. i \in 1 .. Len(r.page)
      BY <2>1
    <2> QED
      BY <2>2, Step
  <1>2. "dyn" \notin Kinds /\ "gone" \notin Kinds
    BY DEF Kinds, Heads, Tails
  <1>3. \A i \in 1 .. g : Atom(r, i).kind \notin {"dyn", "gone"}
    BY <1>1, <1>2 DEF Atom
  <1>4. NoIncludes(r, g) => Stuff(r, g) \subseteq {Atom(r, i) : i \in 1 .. g}
    BY DEF NoIncludes, Stuff, Texts
  <1>5. OpenPart(r, g) \subseteq {Atom(r, i) : i \in 1 .. g}
    BY DEF OpenPart
  <1> QED
    BY <1>3, <1>4, <1>5

\* Two settled pieces are settled together.
LEMMA SettledConcat ==
  ASSUME NEW S, NEW s \in Seq(S), NEW t \in Seq(S), Settled(s), Settled(t)
  PROVE  Settled(s \o t)
  BY RangeConcat DEF Settled

----------------------------------------------------------------------------
(***************************************************************************)
(* What a hook has when it has processed its chunk: a was sent before, c   *)
(* is the context it found, and p what it has made of the page up to g.    *)
(***************************************************************************)
Scanned(r, g, a, c, p) ==
  /\ a \in Seq(ItemsOf(r.q)) /\ c.parked \in Seq(ItemsOf(r.q)) /\ c.held \in Seq(ItemsOf(r.q))
  /\ p.out \in Seq(ItemsOf(r.q)) /\ p.hold \in Seq(ItemsOf(r.q))
  /\ p.held = c.held /\ p.parked = <<>> /\ p.subrequest = r.marker /\ p.holding \in BOOLEAN
  /\ p.mode = ModeAt(r, g) /\ r.at[g] \notin {"endremove<", "endvars<"}
  /\ TagOf(r, g, p.hold)
  /\ Range(a) \cup Range(c.parked) \cup Range(c.held) \cup Range(p.out) = Stuff(r, g)
  /\ p.holding \/ (c.held = <<>> /\ NoIncludes(r, g))
  /\ Settled(a) /\ Settled(c.parked)

\* The output of a chunk that is held.
LEMMA AfterHold ==
  ASSUME NEW r, NEW g, NEW a, NEW c, NEW p, Scanned(r, g, a, c, p), p.holding,
         NEW next, next = [Ctx(p) EXCEPT !.held = @ \o p.out]
  PROVE  Steady(r, g, a \o c.parked, next) /\ next.subrequest = r.marker
  <1> DEFINE I == ItemsOf(r.q)
  <1>1. /\ next.mode = p.mode /\ next.hold = p.hold /\ next.parked = <<>> /\ next.holding
        /\ next.held = c.held \o p.out /\ next.subrequest = r.marker
    BY DEF Ctx, Scanned
  <1>2. /\ a \in Seq(I) /\ c.parked \in Seq(I) /\ c.held \in Seq(I) /\ p.out \in Seq(I)
    BY DEF Scanned
  <1> HIDE DEF I
  <1>3. /\ Range(a \o c.parked) = Range(a) \cup Range(c.parked)
        /\ Range(c.held \o p.out) = Range(c.held) \cup Range(p.out)
    BY <1>2, RangeConcat
  <1>4. Settled(a \o c.parked)
    BY <1>2, SettledConcat DEF Scanned
  <1>5. Range(next.parked) = {} /\ Settled(next.parked)
    BY <1>1, RangeEmpty DEF Settled
  <1> QED
    BY <1>1, <1>3, <1>4, <1>5 DEF Steady, Scanned

\* The output that is written, and the rest of it, which is parked.
LEMMA AfterStream ==
  ASSUME NEW r, Reading(r), NEW g \in 0 .. Len(r.page), NEW a, NEW c, NEW p,
         Scanned(r, g, a, c, p), ~ p.holding,
         NEW room \in Nat, Len(c.parked) <= room,
         NEW rest, rest = Drop(Left(room, c.parked), p.out), NEW next,
         next.mode = p.mode, next.hold = p.hold, next.parked = rest,
         next.held = p.held, next.holding = FALSE
  PROVE  Steady(r, g, a \o Take(room, c.parked \o p.out), next)
  <1> DEFINE I == ItemsOf(r.q)
             o == c.parked
             v == p.out
             m == Left(room, o)
             w == Take(m, v)
             t == Take(room, o \o v)
  <1>1. /\ a \in Seq(I) /\ o \in Seq(I) /\ v \in Seq(I) /\ c.held = <<>> /\ NoIncludes(r, g)
        /\ Range(a) \cup Range(o) \cup Range(c.held) \cup Range(p.out) = Stuff(r, g)
        /\ Settled(a) /\ Settled(o) /\ p.held = c.held
        /\ p.mode = ModeAt(r, g) /\ r.at[g] \notin {"endremove<", "endvars<"}
        /\ TagOf(r, g, p.hold)
        /\ Len(o) <= room /\ rest = Drop(m, v)
        /\ Range(a) \cup Range(o) \cup Range(c.held) \cup Range(v) = Stuff(r, g)
    BY DEF Scanned
  <1> HIDE DEF I, o, v
  <1>2. m \in Nat /\ t = o \o w
    BY <1>1, TakeConcat
  <1> HIDE DEF m
  <1>3. /\ w \in Seq(I) /\ rest \in Seq(I)
        /\ Range(v) = Range(w) \cup Range(rest)
    <2>1. m \in Nat /\ v \in Seq(I)
      BY <1>1, <1>2
    <2>2. /\ Take(m, v) \in Seq(I) /\ Drop(m, v) \in Seq(I)
          /\ Range(v) = Range(Take(m, v)) \cup Range(Drop(m, v))
      BY <2>1, RangeTake, Zenon
    <2> QED
      BY <1>1, <2>2, Zenon
  <1> HIDE DEF w, t
  <1>4. \A x \in Range(v) : x.kind \notin {"dyn", "gone"}
    BY <1>1, NoPlaceholders
  <1>5. Settled(w) /\ Settled(rest)
    BY <1>3, <1>4 DEF Settled
  <1>6. t \in Seq(I) /\ Range(t) = Range(o) \cup Range(w) /\ Settled(t)
    BY <1>1, <1>2, <1>3, <1>5, ConcatParts, RangeConcat, SettledConcat
  <1>7. Range(a \o t) = Range(a) \cup Range(t) /\ Settled(a \o t)
    BY <1>1, <1>6, RangeConcat, SettledConcat
  <1>8. Range(a \o t) \cup Range(next.parked) \cup Range(next.held) = Stuff(r, g)
    <2>1. Range(c.held) = {}
      BY <1>1, RangeEmpty
    <2> QED
      BY <1>1, <1>3, <1>6, <1>7, <2>1
  <1>9. Steady(r, g, a \o t, next)
    BY <1>1, <1>5, <1>7, <1>8 DEF Steady
  <1> QED
    BY <1>9 DEF t, o, v

\* All of it with the partial tag at the end, and the rest of that.
WithTail(r, g, a, c, p, room, tail, next) ==
  LET full == c.parked \o p.out \o p.hold IN
  /\ Flushed(r, g, a \o Take(room, full), next)
  /\ tail = <<>> => Take(room, full) = full

\* The network has room for what was parked: the context that is left by the
\* write of what was made of the chunk, and of what it does not take.
LEMMA AfterTail ==
  ASSUME NEW r, Reading(r), NEW g \in 0 .. Len(r.page), NEW a, NEW c, NEW p,
         Scanned(r, g, a, c, p), ~ p.holding,
         NEW room \in Nat, Len(c.parked) <= room,
         NEW tail, tail = Drop(Left(room, c.parked), p.out \o p.hold), NEW next,
         next.hold = <<>>, next.parked = tail, next.held = p.held, next.holding = FALSE
  PROVE  WithTail(r, g, a, c, p, room, tail, next)
  <1> DEFINE I == ItemsOf(r.q)
             o == c.parked
             u == p.out \o p.hold
             m == Left(room, o)
             w == Take(m, u)
             t == Take(room, o \o u)
  <1>1. /\ a \in Seq(I) /\ o \in Seq(I) /\ p.out \in Seq(I) /\ p.hold \in Seq(I)
        /\ c.held = <<>> /\ NoIncludes(r, g)
        /\ Range(a) \cup Range(o) \cup Range(c.held) \cup Range(p.out) = Stuff(r, g)
        /\ Settled(a) /\ Settled(o) /\ p.held = c.held
        /\ TagOf(r, g, p.hold)
        /\ Len(o) <= room /\ tail = Drop(m, u)
    BY DEF Scanned
  <1>2. c.parked \o p.out \o p.hold = o \o u
    <2> DEFINE v == p.out
               h == p.hold
    <2>1. o \in Seq(I) /\ v \in Seq(I) /\ h \in Seq(I)
      BY <1>1
    <2> HIDE DEF o, v, h, I
    <2>2. (o \o v) \o h = o \o (v \o h)
      BY <2>1, ConcatAssociative, SMTT(60)
    <2> QED
      BY <2>2 DEF o, v, h
  <1>3. u \in Seq(I) /\ Range(u) = Range(p.out) \cup Range(p.hold)
    BY <1>1, ConcatParts, RangeConcat
  <1> HIDE DEF I, o, u
  <1>4. m \in Nat /\ t = o \o w
    BY <1>1, <1>3, TakeConcat, ZenonT(30)
  <1> HIDE DEF m
  <1>5. /\ w \in Seq(I) /\ tail \in Seq(I)
        /\ Range(u) = Range(w) \cup Range(tail)
    <2>1. m \in Nat /\ u \in Seq(I)
      BY <1>3, <1>4
    <2>2. /\ Take(m, u) \in Seq(I) /\ Drop(m, u) \in Seq(I)
          /\ Range(u) = Range(Take(m, u)) \cup Range(Drop(m, u))
      BY <2>1, RangeTake, Zenon
    <2> QED
      BY <1>1, <2>2, Zenon
  <1>6. tail = <<>> => w = u
    <2>1. w \in Seq(I) /\ tail \in Seq(I) /\ u = w \o tail
      <3>1. m \in Nat /\ u \in Seq(I)
        BY <1>3, <1>4
      <3>2. u = Take(m, u) \o Drop(m, u)
        BY <3>1, TakeDrop, Zenon
      <3> QED
        BY <1>1, <1>5, <3>2, Zenon
    <2> HIDE DEF w
    <2>2. w \o <<>> = w
      BY <2>1, ConcatEmptySeq
    <2> QED
      BY <2>1, <2>2
  <1> HIDE DEF w, t
  <1>7. Range(p.hold) = OpenPart(r, g)
    BY <1>1, TagPart
  <1>8. \A x \in Range(u) : x.kind \notin {"dyn", "gone"}
    BY <1>1, <1>3, <1>7, NoPlaceholders
  <1>9. Settled(w) /\ Settled(tail)
    BY <1>5, <1>8 DEF Settled
  <1>10. t \in Seq(I) /\ Range(t) = Range(o) \cup Range(w) /\ Settled(t)
    BY <1>1, <1>4, <1>5, <1>9, ConcatParts, RangeConcat, SettledConcat
  <1>11. Range(a \o t) = Range(a) \cup Range(t) /\ Settled(a \o t)
    BY <1>1, <1>10, RangeConcat, SettledConcat
  <1>12. Range(a \o t) \cup Range(next.parked) = Stuff(r, g) \cup OpenPart(r, g)
    <2>1. Range(c.held) = {}
      BY <1>1, RangeEmpty
    <2> QED
      BY <1>1, <1>3, <1>5, <1>7, <1>10, <1>11, <2>1
  <1>13. Flushed(r, g, a \o t, next)
    BY <1>1, <1>9, <1>11, <1>12 DEF Flushed
  <1>14. tail = <<>> => t = o \o u
    BY <1>4, <1>6
  <1> QED
    BY <1>2, <1>13, <1>14 DEF t, WithTail

\* When all of a flushed stream is sent, it is what is delivered of the page.
LEMMA FlushedAll ==
  ASSUME NEW r, Reading(r), NEW g \in 0 .. Len(r.page), NEW a, NEW c, Flushed(r, g, a, c),
         a \in Seq(ItemsOf(r.q)), c.parked \in Seq(ItemsOf(r.q))
  PROVE  Range(a \o c.parked) = Delivered(Stuff(r, g) \cup OpenPart(r, g))
  <1>1. Range(a \o c.parked) = Range(a) \cup Range(c.parked)
    BY RangeConcat
  <1> DEFINE X == Stuff(r, g) \cup OpenPart(r, g)
  <1>2. \A x \in X : x.kind \notin {"dyn", "gone"}
    BY NoPlaceholders DEF Flushed
  <1>3. Range(a) \cup Range(c.parked) = X
    BY DEF Flushed
  <1> HIDE DEF X
  <1>4. Delivered(X) = X
    BY <1>2, DeliveredSettled
  <1> QED
    BY <1>1, <1>3, <1>4 DEF X

\* What was sent, parked and held with the partial tag is all of the page.
AllHeld(r, g, a, parked, all, hold) ==
  \E Y : /\ Range(all) = Y \cup Range(hold)
         /\ Range(a) \cup Range(parked) \cup Y = Stuff(r, g)

\* So it is when what was held is joined.
LEMMA AfterJoin ==
  ASSUME NEW r, Reading(r), NEW g \in 0 .. Len(r.page), NEW a \in Seq(ItemsOf(r.q)),
         NEW parked \in Seq(ItemsOf(r.q)), NEW all \in Seq(ItemsOf(r.q)), NEW hold,
         TagOf(r, g, hold), AllHeld(r, g, a, parked, all, hold), Settled(a), Settled(parked)
  PROVE  Range(a \o (parked \o Join(all))) = Delivered(Stuff(r, g) \cup OpenPart(r, g))
  <1> DEFINE I == ItemsOf(r.q)
             j == Join(all)
             A == Range(a) \cup Range(parked)
  <1>10. PICK Y : /\ Range(all) = Y \cup Range(hold)
                  /\ Range(a) \cup Range(parked) \cup Y = Stuff(r, g)
    BY DEF AllHeld
  <1>1. j \in Seq(I)
    BY JoinOrder, TwoWays
  <1>2. Range(j) = Delivered(Range(all))
    BY JoinRange
  <1> HIDE DEF I, j
  <1>3. a \in Seq(I) /\ parked \in Seq(I)
    BY DEF I
  <1>9. parked \o j \in Seq(I) /\ Range(parked \o j) = Range(parked) \cup Range(j)
    BY <1>1, <1>3, ConcatParts, RangeConcat
  <1>4. Range(a \o (parked \o j)) = Range(a) \cup Range(parked \o j)
    <2> DEFINE w == parked \o j
    <2>1. w \in Seq(I)
      BY <1>9
    <2> HIDE DEF w
    <2>2. Range(a \o w) = Range(a) \cup Range(w)
      BY <1>3, <2>1, RangeConcat
    <2> QED
      BY <2>2 DEF w
  <1>5. Delivered(A) = A
    <2>1. \A x \in A : x.kind \notin {"dyn", "gone"}
      BY DEF Settled
    <2> HIDE DEF A
    <2> QED
      BY <2>1, DeliveredSettled
  <1>6. Range(hold) = OpenPart(r, g)
    BY TagPart
  <1>7. A \cup Range(all) = Stuff(r, g) \cup OpenPart(r, g)
    BY <1>6, <1>10
  <1>8. Delivered(A \cup Range(all)) = Delivered(A) \cup Delivered(Range(all))
    BY DeliveredSettled
  <1> QED
    BY <1>2, <1>4, <1>5, <1>7, <1>8, <1>9 DEF j

----------------------------------------------------------------------------
(***************************************************************************)
(* What a call of the body hook finds, and what it makes of its chunk, in  *)
(* a response to which nothing has happened.                               *)
(***************************************************************************)

\* Every request has a reading of its page.
LEMMA ReadingFacts ==
  ASSUME WellFormed, Typed, NEW q \in 1 .. seq
  PROVE  /\ Reading(ReadingOf(q)) /\ q \in Requests
         /\ ReadingOf(q).q = q /\ ReadingOf(q).page = reqs[q].page
         /\ ReadingOf(q).marker = reqs[q].marker /\ reqs[q].on \in BOOLEAN
  <1>1. seq \in Nat /\ seq <= MaxRequests
    BY LenProperties DEF Typed, TypeOK, seq
  <1>2. q \in Requests
    BY <1>1 DEF Requests
  <1>3. reqs[q] \in [page : Pages[q], on : BOOLEAN, marker : BOOLEAN]
    BY DEF Typed, TypeOK
  <1>4. reqs[q].page \in Seq(Kinds)
    BY <1>2, <1>3 DEF Requests
  <1>5. \E at : Reads(reqs[q].page, at)
    BY <1>2, <1>3 DEF WellFormed
  <1>6. Reads(reqs[q].page, CHOOSE at : Reads(reqs[q].page, at))
    BY <1>5
  <1>7. /\ ReadingOf(q).q = q /\ ReadingOf(q).page = reqs[q].page
        /\ ReadingOf(q).marker = reqs[q].marker
        /\ ReadingOf(q).at = CHOOSE at : Reads(reqs[q].page, at)
    BY DEF ReadingOf
  <1> QED
    BY <1>2, <1>3, <1>4, <1>6, <1>7 DEF Reading

\* The reading, with the flag that a context has.
Read(q, sub) == [ReadingOf(q) EXCEPT !.marker = sub]

\* The flag of the context changes nothing of the reading but its marker.
LEMMA ReadFacts ==
  ASSUME NEW q, Reading(ReadingOf(q)), NEW sub \in BOOLEAN
  PROVE  /\ Reading(Read(q, sub)) /\ Read(q, sub).marker = sub
         /\ Read(q, sub).q = q /\ Read(q, sub).page = ReadingOf(q).page
         /\ sub = reqs[q].marker => Read(q, sub) = ReadingOf(q)
  <1> DEFINE at == CHOOSE at : Reads(reqs[q].page, at)
  <1>1. ReadingOf(q) = [q |-> q, page |-> reqs[q].page, marker |-> reqs[q].marker, at |-> at]
    BY DEF ReadingOf
  <1> HIDE DEF at
  <1>2. Read(q, sub) = [q |-> q, page |-> reqs[q].page, marker |-> sub, at |-> at]
    BY <1>1 DEF Read
  <1> QED
    BY <1>1, <1>2 DEF Reading

\* The context that a hook finds, or begins with.
LEMMA ContextAt ==
  ASSUME EsiInv, WholeInv, WellFormed, NEW s \in Sessions, Live(s), Filters(s),
         NEW q, q = resp[s].req, Clean(q), ends[q] = 0
  PROVE  /\ "header" \notin events[q]
         /\ reqs[q].marker => Context(s).subrequest
         /\ \/ Steady(Read(q, Context(s).subrequest), resp[s].fed, out[q], Context(s))
            \/ /\ resp[s].eof /\ Context(s).subrequest = reqs[q].marker
               /\ Flushed(ReadingOf(q), resp[s].fed, out[q], Context(s))
  <1>1. q \in 1 .. seq /\ q \in Requests /\ resp[s].fed \in Nat /\ reqs[q] \in Requested
    BY LiveFacts DEF EsiInv
  <1>2. Reading(ReadingOf(q))
    BY <1>1, ReadingFacts DEF EsiInv
  <1>3. Progress(s)
    BY DEF WholeInv
  <1>4. Context(s) \in CtxOf(q)
    BY ContextGood
  <1>5. CASE SlotIsFor(s)
    <2>1. Context(s) = slot.ctx /\ slot.ctx # NoCtx
      BY <1>5 DEF Context, Filters
    <2>2. /\ "header" \notin events[q]
          /\ \/ Steady(ReadingOf(q), resp[s].fed, out[q], slot.ctx)
             \/ resp[s].eof /\ Flushed(ReadingOf(q), resp[s].fed, out[q], slot.ctx)
          /\ slot.ctx.subrequest = reqs[q].marker
      BY <1>3, <1>5, <2>1 DEF Progress
    <2>3. slot.ctx.subrequest \in BOOLEAN
      BY <1>4, <2>1 DEF CtxOf
    <2>4. Read(q, slot.ctx.subrequest) = ReadingOf(q)
      BY <1>2, <2>2, <2>3, ReadFacts
    <2> QED
      BY <2>1, <2>2, <2>4
  <1>6. CASE ~ SlotIsFor(s)
    <2>1. Gate(s) /\ Context(s) = NewCtx(FragmentSeen(s))
      BY <1>6 DEF Context, Filters
    <2>2. CacheIsFor(s)
      BY <2>1 DEF Gate
    <2>3. resp[s].fed = 0 /\ out[q] = <<>> /\ "header" \notin events[q]
      BY <1>3, <1>6, <2>2 DEF Progress
    <2> DEFINE c == Context(s)
               r == Read(q, c.subrequest)
    <2>4. /\ c.mode = "pass" /\ c.hold = <<>> /\ c.parked = <<>> /\ c.held = <<>>
          /\ c.subrequest = FragmentSeen(s)
      BY <2>1 DEF NewCtx
    <2>5. reqs[q].marker => c.subrequest
      BY <1>6, <2>1, <2>4 DEF FragmentSeen
    <2>6. c.subrequest \in BOOLEAN
      BY <1>4 DEF CtxOf
    <2> HIDE DEF c
    <2>7. Reading(r)
      BY <1>2, <2>6, ReadFacts
    <2> HIDE DEF r
    <2>8. r.at[0] = "pass" /\ "pass" \notin Heads
      BY <2>7 DEF Reading, Reads, Heads
    <2>9. ModeAt(r, 0) = "pass"
      BY <2>8 DEF ModeAt
    <2>10. Includes(r, 0) = {} /\ Texts(r, 0) = {}
      BY DEF Includes, Texts
    <2>11. Stuff(r, 0) = {} /\ NoIncludes(r, 0)
      BY <2>10 DEF Stuff, NoIncludes
    <2>12. TagOf(r, 0, <<>>)
      BY <2>8 DEF TagOf
    <2>13. Range(<<>>) = {} /\ Settled(<<>>)
      BY RangeEmpty DEF Settled
    <2>14. Steady(r, 0, <<>>, c)
      BY <2>4, <2>8, <2>9, <2>11, <2>12, <2>13 DEF Steady
    <2> QED
      BY <2>3, <2>5, <2>14 DEF c, r
  <1> QED
    BY <1>5, <1>6

\* Nothing comes of nothing.
LEMMA ScanNothing ==
  ASSUME NEW c, c.hold = <<>>, NEW p, p = Process(c, <<>>)
  PROVE  p = ScanStart(c)
  <1>1. <<>> \o <<>> = <<>> /\ Len(<<>>) = 0
    BY EmptySeq, ConcatEmptySeq
  <1>2. p = Scan(c, <<>>)
    BY <1>1 DEF Process
  <1> DEFINE Good == [i \in 0 .. 0 |-> {ScanStart(c)}]
  <1>3. ScanStart(c) \in Good[0]
    OBVIOUS
  <1>4. \A i \in 1 .. Len(<<>>) : \A s \in Good[i - 1] : Absorb(s, <<>>[i]) \in Good[i]
    BY <1>1
  <1>5. \E s \in Good[Len(<<>>)] : Scan(c, <<>>) = FailOpen(s)
    <2> HIDE DEF Good
    <2> QED
      BY <1>1, <1>3, <1>4, ScanInduction
  <1>6. p = FailOpen(ScanStart(c))
    BY <1>1, <1>2, <1>5
  <1>7. Len(ScanStart(c).hold) = 0
    BY <1>1 DEF ScanStart
  <1>8. ~ (0 > HoldMax)
    OBVIOUS
  <1> QED
    BY <1>6, <1>7, <1>8 DEF FailOpen

\* The next atoms of the page.
LEMMA ChunkBetween ==
  ASSUME NEW s \in Sessions, NEW n \in Nat, NEW f, f = resp[s].fed, f \in Nat,
         NEW r, r.q = resp[s].req, r.page = reqs[resp[s].req].page
  PROVE  Chunk(s, n) = Between(r, f, f + n)
  <1>1. /\ ((f + n) - (f + 1)) + 1 = n /\ (f + n) - f = n
        /\ \A i \in 1 .. n : (f + 1) + (i - 1) = f + i
    BY SMTT(30)
  <1>2. Chunk(s, n) = [i \in 1 .. n |-> [req |-> r.q, pos |-> f + i, kind |-> r.page[f + i]]]
    <2>1. Chunk(s, n) = [i \in 1 .. ((f + n) - (f + 1)) + 1 |->
                           [req |-> r.q, pos |-> (f + 1) + (i - 1),
                            kind |-> r.page[(f + 1) + (i - 1)]]]
      BY DEF Chunk, Atoms
    <2> QED
      BY <1>1, <2>1
  <1>3. Between(r, f, f + n) =
          [i \in 1 .. n |-> [req |-> r.q, pos |-> f + i, kind |-> r.page[f + i]]]
    BY <1>1 DEF Between, Atom
  <1> QED
    BY <1>2, <1>3

(***************************************************************************)
(* The filter has scanned the next n atoms; or the page is over, nothing   *)
(* was left to scan, and the stream is only to be closed.                  *)
(***************************************************************************)
ScannedAll(s, n, eof, p) ==
  LET q == resp[s].req
      r == ReadingOf(q)
      f == resp[s].fed
  IN  \/ Scanned(r, f + n, out[q], Context(s), p)
      \/ /\ eof /\ Flushed(r, f + n, out[q], Context(s))
         /\ p.out = <<>> /\ p.hold = <<>> /\ ~ p.holding /\ p.held = <<>>

\* What Processed makes of a chunk, for a session whose bytes were all filtered.
LEMMA ProcessedAt ==
  ASSUME EsiInv, WholeInv, WellFormed, NEW s \in Sessions, NEW n \in Nat, NEW eof, NEW room,
         Filtering(s, n, eof, room), Clean(resp[s].req),
         NEW p, p = Processed(s, n), Mishaps(s, p) = {}
  PROVE  ScannedAll(s, n, eof, p) /\ p.subrequest = reqs[resp[s].req].marker
  <1> DEFINE q == resp[s].req
             f == resp[s].fed
             a == out[q]
             c == Context(s)
             g == f + n
  <1>1. Receives(s, n, eof) /\ Filters(s) /\ Live(s)
    BY DEF Filtering, Receives
  <1>2. /\ q \in 1 .. seq /\ q \in Requests /\ f \in Nat /\ reqs[q] \in Requested
        /\ a \in Seq(ItemsOf(q)) /\ resp[s].eof \in BOOLEAN
    BY <1>1, LiveFacts DEF EsiInv
  <1>3. ends[q] = 0
    <2> DEFINE x == Chunk(s, n)
    <2>1. x = Chunk(s, n)
      OBVIOUS
    <2> HIDE DEF x
    <2> QED
      BY <1>1, <2>1, ReceivesFacts
  <1>4. /\ Reading(ReadingOf(q)) /\ ReadingOf(q).q = q /\ ReadingOf(q).page = reqs[q].page
        /\ ReadingOf(q).marker = reqs[q].marker /\ reqs[q].marker \in BOOLEAN
    BY <1>2, ReadingFacts DEF EsiInv, Requested
  <1>5. /\ c \in CtxOf(q)
    BY <1>1, ContextGood
  <1>6. /\ reqs[q].marker => c.subrequest
        /\ \/ Steady(Read(q, c.subrequest), f, a, c)
           \/ resp[s].eof /\ c.subrequest = reqs[q].marker /\ Flushed(ReadingOf(q), f, a, c)
    BY <1>1, <1>3, ContextAt
  <1>7. g <= Len(reqs[q].page) /\ Len(reqs[q].page) \in Nat /\ (resp[s].eof => f = Len(reqs[q].page))
    <2>1. Progress(s)
      BY <1>1 DEF WholeInv
    <2> QED
      BY <1>1, <1>2, <2>1, LenProperties DEF Receives, PageLength, Requested, Progress
  <1> DEFINE d == [c EXCEPT !.parked = <<>>]
             x == Chunk(s, n)
  <1>8. /\ d \in CtxOf(q) /\ d.mode = c.mode /\ d.hold = c.hold /\ d.holding = c.holding
        /\ d.held = c.held /\ d.subrequest = c.subrequest /\ d.parked = <<>>
    BY <1>5, EmptySeq DEF CtxOf
  <1>9. p = Process(d, x)
    BY DEF Processed
  <1>10. ~ (p.last = "long") /\ (p.subrequest => reqs[q].marker)
         /\ <<p.mode, p.last>> \notin {<<"strip", "endremove<">>, <<"vars", "endvars<">>}
    BY DEF Mishaps
  <1>11. c.parked \in Seq(ItemsOf(q)) /\ c.held \in Seq(ItemsOf(q)) /\ c.subrequest \in BOOLEAN
    BY <1>5 DEF CtxOf
  <1>12. f \in Nat /\ f = resp[s].fed /\ g = f + n
    BY <1>2
  <1> HIDE DEF f, a, c, d, x, g
  <1>13. CASE Steady(Read(q, c.subrequest), f, a, c)
    <2> DEFINE r == Read(q, c.subrequest)
    <2>1. /\ Reading(r) /\ r.marker = c.subrequest /\ r.q = q /\ r.page = reqs[q].page
          /\ c.subrequest = reqs[q].marker => r = ReadingOf(q)
      BY <1>4, <1>11, ReadFacts
    <2>2. Steady(r, f, a, c)
      BY <1>13
    <2> HIDE DEF r
    <2>3. x = Between(r, f, g)
      BY <1>12, <2>1, ChunkBetween DEF x
    <2> DEFINE prev == Stuff(r, f)
    <2>4. /\ c.mode = ModeAt(r, f) /\ r.at[f] \notin {"endremove<", "endvars<"}
          /\ TagOf(r, f, c.hold) /\ Settled(a) /\ Settled(c.parked)
          /\ Range(a) \cup Range(c.parked) \cup Range(c.held) = prev
          /\ c.holding \/ (c.held = <<>> /\ NoIncludes(r, f))
      BY <2>2 DEF Steady
    <2>5. prev = Stuff(r, f)
      OBVIOUS
    <2> HIDE DEF prev
    <2>6. ScanAt(r, prev, g, p) /\ p \in Scanning(r.q, d)
      <3>1. f + n <= Len(r.page) /\ d \in CtxOf(r.q)
        BY <1>7, <1>8, <1>12, <2>1
      <3>2. d.mode = ModeAt(r, f) /\ TagOf(r, f, d.hold) /\ (d.holding \/ NoIncludes(r, f))
            /\ d.subrequest = r.marker
        BY <1>8, <2>1, <2>4
      <3>3. p = Process(d, Between(r, f, f + n)) /\ p.last # "long"
        BY <1>9, <1>10, <1>12, <2>3
      <3> QED
        BY <1>12, <2>1, <2>4, <2>5, <3>1, <3>2, <3>3, ProcessAt
    <2>7. c.subrequest = reqs[q].marker
      <3>1. p.subrequest = c.subrequest
        BY <2>1, <2>6 DEF ScanAt
      <3> QED
        BY <1>4, <1>6, <1>10, <1>11, <3>1
    <2>8. r = ReadingOf(q)
      BY <2>1, <2>7
    <2>9. /\ p.mode = ModeAt(r, g)
          /\ r.at[g] \in {"endremove<", "endvars<"} => p.last = r.at[g]
          /\ TagOf(r, g, p.hold) /\ p.subrequest = r.marker
          /\ p.holding \/ NoIncludes(r, g)
          /\ OutAt(r, prev, g, p.out)
      BY <2>6 DEF ScanAt
    <2>10. r.at[g] \notin {"endremove<", "endvars<"}
      <3>1. CASE r.at[g] = "endremove<"
        <4>1. ModeAt(r, g) = "strip"
          BY <3>1 DEF ModeAt, Heads
        <4> QED
          BY <1>10, <2>9, <3>1, <4>1
      <3>2. CASE r.at[g] = "endvars<"
        <4>1. ModeAt(r, g) = "vars"
          BY <3>2 DEF ModeAt, Heads
        <4> QED
          BY <1>10, <2>9, <3>2, <4>1
      <3> QED
        BY <3>1, <3>2
    <2>11. prev \cup Range(p.out) = Stuff(r, g)
      BY <2>9, <2>10 DEF OutAt
    <2>12. /\ p.out \in Seq(ItemsOf(q)) /\ p.hold \in Seq(ItemsOf(q)) /\ p.held = c.held
           /\ p.parked = <<>> /\ p.holding \in BOOLEAN /\ (c.holding => p.holding)
      BY <1>8, <2>1, <2>6 DEF Scanning
    <2>13. Scanned(r, g, a, c, p)
      <3>1. ItemsOf(r.q) = ItemsOf(q)
        BY <2>1
      <3>2. a \in Seq(ItemsOf(q))
        BY <1>2 DEF a
      <3>3. p.holding \/ (c.held = <<>> /\ NoIncludes(r, g))
        BY <2>4, <2>9, <2>12, Zenon
      <3>4. Range(a) \cup Range(c.parked) \cup Range(c.held) \cup Range(p.out) = Stuff(r, g)
        BY <2>4, <2>11
      <3> QED
        BY <1>11, <2>4, <2>9, <2>10, <2>12, <3>1, <3>2, <3>3, <3>4 DEF Scanned
    <2> QED
      BY <1>4, <2>8, <2>9, <2>13 DEF ScannedAll, f, a, c, g
  <1>14. CASE resp[s].eof /\ c.subrequest = reqs[q].marker /\ Flushed(ReadingOf(q), f, a, c)
    <2>1. n = 0 /\ g = f /\ eof
      BY <1>1, <1>7, <1>12, <1>14 DEF Receives
    <2>2. c.hold = <<>> /\ c.held = <<>> /\ ~ c.holding
      BY <1>14 DEF Flushed
    <2>3. x = <<>>
      <3>1. x = Between(ReadingOf(q), f, f + n)
        BY <1>4, <1>12, ChunkBetween DEF x
      <3>2. (f + n) - f = 0
        BY <1>12, <2>1
      <3> QED
        BY <3>1, <3>2 DEF Between
    <2>4. p = ScanStart(d)
      BY <1>8, <1>9, <2>2, <2>3, ScanNothing
    <2>5. /\ p.out = <<>> /\ p.hold = <<>> /\ ~ p.holding /\ p.held = <<>>
          /\ p.subrequest = reqs[q].marker
      BY <1>8, <1>14, <2>2, <2>4 DEF ScanStart
    <2> QED
      BY <1>14, <2>1, <2>5 DEF ScannedAll, f, a, c, g
  <1> QED
    BY <1>6, <1>13, <1>14 DEF f, a, c

----------------------------------------------------------------------------
(***************************************************************************)
(* A hook, and the rest of the state.                                      *)
(***************************************************************************)
Served(s, bytes, n, eof, buffered, what) ==
  /\ Live(s) /\ UNCHANGED <<reqs, cache>>
  /\ Deliver(s, bytes) /\ Consumed(s, n, eof, buffered) /\ Happened(resp[s].req, what)
  /\ "finished" \notin what /\ "header" \notin what

\* What it changes.
LEMMA ServedChanges ==
  ASSUME EsiInv, NEW s \in Sessions, NEW bytes, NEW n, NEW eof, NEW buffered, NEW what,
         Served(s, bytes, n, eof, buffered, what)
  PROVE  /\ \A t \in Sessions : resp'[t].req = resp[t].req
         /\ resp'[s].fed = resp[s].fed + n /\ resp'[s].eof = eof /\ resp'[s].buffered = buffered
         /\ out'[resp[s].req] = Sent(s, bytes)
         /\ events'[resp[s].req] = events[resp[s].req] \cup what
         /\ \A p \in Requests : p # resp[s].req => out'[p] = out[p] /\ events'[p] = events[p]
         /\ reqs' = reqs /\ seq' = seq /\ cache' = cache
         /\ \A t \in Sessions : Live(t)' <=> Live(t)
  <1> DEFINE q == resp[s].req
  <1>1. q \in Requests
    BY LiveFacts DEF EsiInv, Served
  <1>2. /\ out \in [Requests -> Seq(Items)] /\ events \in [Requests -> SUBSET Events]
        /\ resp \in [Sessions -> [req : 0 .. seq, fed : Nat, eof : BOOLEAN, buffered : BOOLEAN]]
    BY DEF EsiInv, Typed, TypeOK
  <1>3. resp' = [resp EXCEPT ![s].fed = resp[s].fed + n, ![s].eof = eof, ![s].buffered = buffered]
    BY DEF Served, Consumed
  <1>4. /\ \A t \in Sessions : resp'[t].req = resp[t].req
        /\ resp'[s].fed = resp[s].fed + n /\ resp'[s].eof = eof /\ resp'[s].buffered = buffered
    BY <1>2, <1>3
  <1>5. /\ out' = [out EXCEPT ![q] = out[q] \o bytes]
        /\ events' = [events EXCEPT ![q] = events[q] \cup what]
    BY DEF Served, Deliver, Happened
  <1>6. /\ out'[q] = Sent(s, bytes) /\ events'[q] = events[q] \cup what
        /\ \A p \in Requests : p # q => out'[p] = out[p] /\ events'[p] = events[p]
    BY <1>1, <1>2, <1>5 DEF Sent
  <1>7. reqs' = reqs /\ seq' = seq /\ cache' = cache
    BY DEF Served, seq
  <1>8. \A t \in Sessions : Live(t)' <=> Live(t)
    BY <1>4 DEF Live
  <1> QED
    BY <1>4, <1>6, <1>7, <1>8

\* What was complete stays complete, if nothing more is sent and nothing happens.
LEMMA CompleteStays ==
  ASSUME NEW p, Complete(p), reqs'[p] = reqs[p], out'[p] = out[p],
         "header" \in events'[p] <=> "header" \in events[p]
  PROVE  Complete(p)'
  <1>1. \A i : Kept(p, i)' <=> Kept(p, i)
    BY DEF Kept
  <1> QED
    BY <1>1 DEF Complete

\* It is enough that the hook keeps its own response in order.
LEMMA ServedWhole ==
  ASSUME EsiInv, WholeInv, NEW s \in Sessions,
         NEW bytes, NEW n, NEW eof, NEW buffered, NEW what,
         Served(s, bytes, n, eof, buffered, what),
         Clean(resp[s].req) /\ what = {} => Progress(s)'
  PROVE  WholeInv'
  <1> DEFINE q == resp[s].req
  <1>1. /\ \A t \in Sessions : resp'[t].req = resp[t].req
        /\ out'[q] = Sent(s, bytes)
        /\ events'[q] = events[q] \cup what
        /\ \A p \in Requests : p # q => out'[p] = out[p] /\ events'[p] = events[p]
        /\ reqs' = reqs /\ seq' = seq
        /\ \A t \in Sessions : Live(t)' <=> Live(t)
    BY ServedChanges
  <1>2. Live(s) /\ "finished" \notin what /\ "header" \notin what
    BY DEF Served
  <1>3. q \in 1 .. seq /\ q \in Requests
    BY <1>2, LiveFacts DEF EsiInv
  <1>4. \A t \in Sessions : Live(t) => resp[t].req \in Requests
    BY LiveFacts DEF EsiInv
  <1>5. \A p \in Requests : events[p] \subseteq events'[p]
    BY <1>1
  <1>6. \A p \in Requests : Clean(p)' => Clean(p)
    BY <1>5 DEF Clean
  <1>7. Clean(q)' => what = {}
    BY <1>1, <1>2 DEF Clean
  <1>8. Lone'
    <2>1. \A t \in Sessions : Clean(resp[t].req)' <=> events'[resp[t].req] \subseteq {"header", "finished"}
      BY <1>1 DEF Clean
    <2> QED
      BY <1>1, <1>4, <1>6, <2>1 DEF WholeInv, Lone, Clean
  <1>9. AllFinished'
    <2>1. ASSUME NEW p \in Requests, "finished" \in events'[p], Clean(p)' PROVE Complete(p)'
      <3>1. CASE p = q
        BY <1>1, <1>2, <2>1, <3>1 DEF WholeInv, AllFinished
      <3>2. CASE p # q
        <4>1. reqs'[p] = reqs[p] /\ out'[p] = out[p] /\ events'[p] = events[p]
          BY <1>1, <3>2
        <4>2. Complete(p)
          BY <1>6, <2>1, <4>1 DEF WholeInv, AllFinished
        <4> QED
          BY <4>1, <4>2, CompleteStays
      <3> QED
        BY <3>1, <3>2
    <2>2. ASSUME NEW p \in Requests, p > seq' PROVE events'[p] = {}
      <3>1. seq \in Nat /\ p > seq
        BY <1>1, <1>2, <2>2, LiveFacts DEF EsiInv
      <3>2. p # q
        BY <1>3, <3>1 DEF Requests
      <3>3. events'[p] = events[p]
        BY <1>1, <3>2
      <3>4. events[p] = {}
        BY <3>1 DEF WholeInv, AllFinished
      <3> QED
        BY <3>3, <3>4
    <2>3. \A t \in Sessions : Live(t) => "finished" \notin events'[resp[t].req]
      BY <1>1, <1>2, <1>4 DEF WholeInv, AllFinished
    <2> QED
      BY <1>1, <2>1, <2>2, <2>3 DEF AllFinished
  <1>10. ASSUME NEW t \in Sessions, Live(t), events'[resp[t].req] \subseteq {"header", "finished"}
         PROVE  Progress(t)'
    <2>1. Clean(resp[t].req)
      BY <1>4, <1>5, <1>10 DEF Clean
    <2>2. t = s
      BY <1>2, <1>10, <2>1 DEF WholeInv, Lone
    <2>3. Clean(q) /\ what = {}
      BY <1>1, <1>2, <1>10, <2>1, <2>2
    <2> QED
      BY <2>2, <2>3
  <1>11. \A t \in Sessions : (Live(t) /\ Clean(resp[t].req))' => Progress(t)'
    BY <1>1, <1>10 DEF Clean
  <1> QED
    BY <1>8, <1>9, <1>11 DEF WholeInv

\* What a hook that keeps the slot leaves, when it has had g atoms of the page.
Continued(s, g, eof, bytes, next) ==
  LET q == resp[s].req IN
  /\ ends[q] = 0 /\ g <= PageLength(s) /\ (eof => g = PageLength(s))
  /\ "header" \in events[q] => ~ CacheIsFor(s) /\ next = NoCtx
  /\ next = NoCtx =>
       Unfiltered(q) /\ Range(Sent(s, bytes)) = Range(Between(ReadingOf(q), 0, g))
  /\ next # NoCtx =>
       /\ \/ Steady(ReadingOf(q), g, Sent(s, bytes), next)
          \/ eof /\ Flushed(ReadingOf(q), g, Sent(s, bytes), next)
       /\ next.subrequest = reqs[q].marker

\* A hook that keeps the slot.
LEMMA KeepsProgress ==
  ASSUME EsiInv, NEW s \in Sessions, NEW bytes, NEW n, NEW eof, NEW buffered, NEW next,
         Served(s, bytes, n, eof, buffered, {}), Keep(s, next), UNCHANGED ends,
         NEW g, g = resp[s].fed + n, Continued(s, g, eof, bytes, next)
  PROVE  Progress(s)'
  <1> SUFFICES ASSUME NEW q, q = resp[s].req PROVE Progress(s)'
    OBVIOUS
  <1>6. /\ ends[q] = 0 /\ g <= PageLength(s) /\ (eof => g = PageLength(s))
        /\ "header" \in events[q] => ~ CacheIsFor(s) /\ next = NoCtx
        /\ next = NoCtx =>
             Unfiltered(q) /\ Range(Sent(s, bytes)) = Range(Between(ReadingOf(q), 0, g))
        /\ next # NoCtx =>
             /\ \/ Steady(ReadingOf(q), g, Sent(s, bytes), next)
                \/ eof /\ Flushed(ReadingOf(q), g, Sent(s, bytes), next)
             /\ next.subrequest = reqs[q].marker
    BY DEF Continued
  <1>0. /\ resp'[s].req = resp[s].req /\ resp'[s].fed = resp[s].fed + n /\ resp'[s].eof = eof
        /\ out'[resp[s].req] = Sent(s, bytes) /\ events'[resp[s].req] = events[resp[s].req] \cup {}
        /\ reqs' = reqs /\ seq' = seq /\ cache' = cache
    <2> DEFINE what == {}
    <2>1. Served(s, bytes, n, eof, buffered, what)
      OBVIOUS
    <2> HIDE DEF what
    <2>2. /\ resp'[s].req = resp[s].req /\ resp'[s].fed = resp[s].fed + n /\ resp'[s].eof = eof
          /\ out'[resp[s].req] = Sent(s, bytes)
          /\ events'[resp[s].req] = events[resp[s].req] \cup what
          /\ reqs' = reqs /\ seq' = seq /\ cache' = cache
      BY <2>1, ServedChanges
    <2> QED
      BY <2>2 DEF what
  <1>1. /\ resp'[s].req = q /\ resp'[s].fed = g /\ resp'[s].eof = eof
        /\ out'[q] = Sent(s, bytes) /\ events'[q] = events[q]
        /\ reqs' = reqs /\ seq' = seq /\ cache' = cache
    BY <1>0
  <1>2. ends'[q] = 0
    BY <1>6
  <1>3. slot' = [session |-> s, req |-> seq, ctx |-> next]
    BY DEF Keep
  <1>4. SlotIsFor(s)' /\ slot'.ctx = next
    BY <1>1, <1>3 DEF SlotIsFor
  <1>5. /\ PageLength(s)' = PageLength(s)
        /\ CacheIsFor(s)' <=> CacheIsFor(s)
        /\ Unfiltered(q)' <=> Unfiltered(q)
        /\ ReadingOf(q)' = ReadingOf(q)
    BY <1>1 DEF PageLength, CacheIsFor, Unfiltered, ReadingOf
  <1> QED
    BY <1>1, <1>2, <1>4, <1>5, <1>6 DEF Progress

\* A hook that closes the stream.
LEMMA EndsProgress ==
  ASSUME EsiInv, NEW s \in Sessions, NEW bytes, NEW n, NEW eof, NEW buffered,
         Served(s, bytes, n, eof, buffered, {}), End(s), Reset,
         NEW q, q = resp[s].req, ends[q] = 0, NEW g, g = resp[s].fed + n,
         g <= PageLength(s), eof => g = PageLength(s), "header" \notin events[q],
         Range(Positions(Sent(s, bytes))) = {i \in DOMAIN reqs[q].page : Kept(q, i)},
         Settled(Sent(s, bytes))
  PROVE  Progress(s)'
  <1>0. /\ resp'[s].req = resp[s].req /\ resp'[s].fed = resp[s].fed + n /\ resp'[s].eof = eof
        /\ out'[resp[s].req] = Sent(s, bytes) /\ events'[resp[s].req] = events[resp[s].req] \cup {}
        /\ reqs' = reqs /\ seq' = seq /\ cache' = cache
    <2> DEFINE what == {}
    <2>1. Served(s, bytes, n, eof, buffered, what)
      OBVIOUS
    <2> HIDE DEF what
    <2>2. /\ resp'[s].req = resp[s].req /\ resp'[s].fed = resp[s].fed + n /\ resp'[s].eof = eof
          /\ out'[resp[s].req] = Sent(s, bytes)
          /\ events'[resp[s].req] = events[resp[s].req] \cup what
          /\ reqs' = reqs /\ seq' = seq /\ cache' = cache
      BY <2>1, ServedChanges
    <2> QED
      BY <2>2 DEF what
  <1>1. /\ resp'[s].req = q /\ resp'[s].fed = g /\ resp'[s].eof = eof
        /\ out'[q] = Sent(s, bytes) /\ events'[q] = events[q]
        /\ reqs' = reqs /\ seq' = seq /\ cache' = cache
    BY <1>0
  <1>2. ends'[q] = 1
    <2>1. q \in Requests /\ ends \in [Requests -> Nat]
      BY LiveFacts DEF EsiInv, Served, Typed, TypeOK
    <2> QED
      BY <2>1 DEF End
  <1>3. slot'.session = NoSession
    BY DEF Reset, NoSlot
  <1>4. ~ SlotIsFor(s)'
    BY <1>3 DEF SlotIsFor
  <1>5. PageLength(s)' = PageLength(s)
    BY <1>1 DEF PageLength
  <1>6. \A i : Kept(q, i)' <=> Kept(q, i)
    BY <1>1 DEF Kept
  <1>7. Complete(q)'
    BY <1>1, <1>6 DEF Complete
  <1> QED
    BY <1>1, <1>2, <1>4, <1>5, <1>7 DEF Progress

----------------------------------------------------------------------------
(***************************************************************************)
(* What a client has received, when it is all of the page.                 *)
(***************************************************************************)
LEMMA PositionsOf ==
  ASSUME NEW y
  PROVE  Range(Positions(y)) = {x.pos : x \in Range(y)}
  <1>1. DOMAIN Positions(y) = DOMAIN y /\ \A i \in DOMAIN y : Positions(y)[i] = y[i].pos
    BY DEF Positions
  <1> DEFINE P == Positions(y)
  <1> HIDE DEF P
  <1>2. DOMAIN P = DOMAIN y /\ \A i \in DOMAIN y : P[i] = y[i].pos
    BY <1>1 DEF P
  <1>3. Range(P) = {x.pos : x \in Range(y)}
    BY <1>2 DEF Range
  <1> QED
    BY <1>3 DEF P

\* What the client of request q may have received at the end.
WholeOf(q, y) ==
  /\ Range(Positions(y)) = {i \in DOMAIN reqs[q].page : Kept(q, i)}
  /\ Settled(y)

\* With the filter: what is delivered of the page.
LEMMA FilteredWhole ==
  ASSUME WellFormed, Typed, NEW q \in 1 .. seq, reqs[q].on, "header" \notin events[q],
         NEW r, r = ReadingOf(q), NEW N, N = Len(reqs[q].page),
         NEW y, Range(y) = Delivered(Stuff(r, N) \cup OpenPart(r, N))
  PROVE  WholeOf(q, y)
  <1>1. Reading(r) /\ r.page = reqs[q].page /\ r.marker = reqs[q].marker
    BY ReadingFacts
  <1>2. N = Len(r.page)
    BY <1>1
  <1> DEFINE X == Delivered(Stuff(r, N) \cup OpenPart(r, N))
  <1>3. X = Delivered(Stuff(r, N) \cup OpenPart(r, N)) /\ Range(y) = X
    OBVIOUS
  <1> HIDE DEF X
  <1>4. {x.pos : x \in X} = KeptOf(r) /\ \A x \in X : x.kind \notin {"dyn", "gone"}
    BY <1>1, <1>2, <1>3, DeliveredKept
  <1>5. DOMAIN reqs[q].page = 1 .. Len(r.page)
    BY <1>1, LenProperties DEF Reading
  <1>6. \A i : Kept(q, i) <=> /\ ~ Removed(r.page, i)
                              /\ \/ r.page[i] = "text"
                                 \/ r.page[i] = "dyn<" /\ ~ r.marker
                                 \/ NeverClosed(r.page, i)
    BY <1>1 DEF Kept
  <1>7. {i \in DOMAIN reqs[q].page : Kept(q, i)} = KeptOf(r)
    BY <1>5, <1>6 DEF KeptOf
  <1>8. Range(Positions(y)) = {x.pos : x \in X}
    BY <1>3, PositionsOf
  <1> QED
    BY <1>3, <1>4, <1>7, <1>8 DEF WholeOf, Settled

\* Without it: the page.
LEMMA UnfilteredWhole ==
  ASSUME WellFormed, Typed, NEW q \in 1 .. seq, Unfiltered(q),
         NEW N, N = Len(reqs[q].page),
         NEW y, Range(y) = Range(Between(ReadingOf(q), 0, N))
  PROVE  WholeOf(q, y)
  <1> DEFINE r == ReadingOf(q)
  <1>1. Reading(r) /\ r.page = reqs[q].page
    BY ReadingFacts
  <1> HIDE DEF r
  <1>2. N \in Nat /\ DOMAIN reqs[q].page = 1 .. N /\ N = Len(r.page)
    BY <1>1, LenProperties DEF Reading
  <1>3. Range(y) = AtomsFrom(r, 0, N)
    BY <1>2, RangeBetween DEF r
  <1>4. Range(y) = {Atom(r, i) : i \in 1 .. N}
    BY <1>3 DEF AtomsFrom
  <1>5. \A i \in 1 .. N : Atom(r, i).pos = i /\ Atom(r, i).kind \in Kinds
    BY <1>1, <1>2, Step DEF Atom
  <1>6. {x.pos : x \in Range(y)} = 1 .. N
    BY <1>4, <1>5
  <1>7. "dyn" \notin Kinds /\ "gone" \notin Kinds
    BY DEF Kinds, Heads, Tails
  <1>8. Settled(y)
    BY <1>4, <1>5, <1>7 DEF Settled
  <1>9. {i \in DOMAIN reqs[q].page : Kept(q, i)} = 1 .. N
    BY <1>2 DEF Kept, Unfiltered
  <1> QED
    BY <1>6, <1>8, <1>9, PositionsOf DEF WholeOf

----------------------------------------------------------------------------
(***************************************************************************)
(* Each hook.                                                              *)
(***************************************************************************)

\* The places of the next k atoms after f.
LEMMA Shifted ==
  ASSUME NEW f \in Nat, NEW k \in Nat
  PROVE  /\ \A i \in 1 .. k : f + i \in f + 1 .. f + k
         /\ \A i \in f + 1 .. f + k : i - f \in 1 .. k /\ f + (i - f) = i
  OBVIOUS

\* Bypass: what was sent is the page so far.
LEMMA ForwardWhole ==
  ASSUME EsiInv, WholeInv, WellFormed, NEW s \in Sessions, NEW n \in Nat, NEW eof \in BOOLEAN,
         NEW room \in Nat, Forward(s, n, eof, room)
  PROVE  WholeInv'
  <1> DEFINE q == resp[s].req
             f == resp[s].fed
             r == ReadingOf(q)
             x == Chunk(s, n)
             b == Take(room, x)
             k == Len(b)
             last == eof /\ Len(b) = n
             g == f + k
  <1>1. Receives(s, n, eof) /\ ~ Filters(s)
    BY DEF Forward
  <1>2. /\ Live(s) /\ ends[q] = 0 /\ UNCHANGED <<reqs, cache>>
        /\ x \in Seq(ItemsOf(q)) /\ Len(x) = n
    BY <1>1, ReceivesFacts
  <1>3. /\ q \in 1 .. seq /\ q \in Requests /\ f \in Nat /\ out[q] \in Seq(ItemsOf(q))
        /\ events \in [Requests -> SUBSET Events] /\ reqs[q] \in Requested
    BY <1>2, LiveFacts DEF EsiInv, Typed, TypeOK
  <1>4. Reading(r) /\ r.q = q /\ r.page = reqs[q].page
    BY <1>3, ReadingFacts DEF EsiInv
  <1>5. x = Between(r, f, f + n)
    BY <1>2, <1>3, <1>4, ChunkBetween
  <1>6. /\ Deliver(s, b) /\ Consumed(s, k, last, FALSE) /\ Keep(s, NoCtx) /\ UNCHANGED ends
        /\ Happened(q, {})
    BY <1>3 DEF Forward, Happened
  <1>7. f + n <= PageLength(s) /\ (eof => f + n = PageLength(s)) /\ PageLength(s) \in Nat
        /\ PageLength(s) = Len(r.page)
    BY <1>1, <1>3, <1>4, LenProperties DEF Receives, PageLength, Requested
  <1> HIDE DEF x, r
  <1>8. /\ b \in Seq(ItemsOf(q)) /\ k \in Nat /\ k <= n /\ DOMAIN b = 1 .. k
        /\ \A i \in 1 .. k : b[i] = x[i]
    <2>1. b \in Seq(ItemsOf(q))
      BY <1>2, TakeDrop
    <2>2. k \in Nat /\ k <= Len(x) /\ \A i \in 1 .. k : b[i] = x[i]
      BY <1>2, TakeElements
    <2>3. DOMAIN b = 1 .. k
      BY <2>1, LenProperties
    <2> QED
      BY <1>2, <2>1, <2>2, <2>3
  <1>9. Range(b) = AtomsFrom(r, f, g)
    <2>1. \A i \in 1 .. n : x[i] = Atom(r, f + i)
      <3> DEFINE l == f + n
      <3>1. f \in Nat /\ l \in Nat /\ f <= l /\ l - f = n /\ x = Between(r, f, l)
        BY <1>3, <1>5
      <3> HIDE DEF l, f
      <3>2. \A i \in 1 .. l - f : Between(r, f, l)[i] = Atom(r, f + i)
        BY <3>1, RangeBetween
      <3> QED
        BY <3>1, <3>2
    <2>2. \A i \in 1 .. k : b[i] = Atom(r, f + i)
      BY <1>8, <2>1
    <2>8. f \in Nat /\ k \in Nat /\ g = f + k
      BY <1>3, <1>8
    <2> HIDE DEF b, k, f
    <2>3. \A i \in 1 .. k : f + i \in f + 1 .. g
      BY <2>8, Shifted
    <2>4. \A i \in f + 1 .. g : i - f \in 1 .. k /\ f + (i - f) = i
      BY <2>8, Shifted
    <2>5. \A y \in Range(b) : y \in AtomsFrom(r, f, g)
      BY <1>8, <2>2, <2>3 DEF Range, AtomsFrom
    <2>6. \A i \in f + 1 .. g : Atom(r, i) \in Range(b)
      BY <1>8, <2>2, <2>4 DEF Range
    <2>7. \A y \in AtomsFrom(r, f, g) : y \in Range(b)
      BY <2>6 DEF AtomsFrom
    <2> QED
      BY <2>5, <2>7
  <1>14. g = f + k /\ (last => k = n /\ eof)
    OBVIOUS
  <1> HIDE DEF b, k, last, g, f
  <1>10. g \in Nat /\ g <= PageLength(s) /\ (last => g = PageLength(s)) /\ f <= g
    <2>1. g \in Nat /\ g <= PageLength(s) /\ f <= g
      BY <1>3, <1>7, <1>8, <1>14
    <2>2. last => g = PageLength(s)
      BY <1>7, <1>14
    <2> QED
      BY <2>1, <2>2
  <1>11. Served(s, b, k, last, FALSE, {})
    BY <1>2, <1>6 DEF Served
  <1>12. ASSUME Clean(q) PROVE Progress(s)'
    <2>1. Progress(s)
      BY <1>2, <1>12 DEF WholeInv
    <2>2. "header" \in events[q] => ~ CacheIsFor(s)
      BY <2>1 DEF Progress
    <2>3. Unfiltered(q) /\ Range(out[q]) = AtomsFrom(r, 0, f)
      <3>1. CASE SlotIsFor(s)
        <4>1. slot.ctx = NoCtx
          BY <1>1, <3>1 DEF Filters, Context
        <4>2. Unfiltered(q) /\ Range(out[q]) = Range(Between(r, 0, f))
          BY <2>1, <3>1, <4>1 DEF Progress, r, f
        <4> QED
          BY <1>3, <4>2, RangeBetween DEF f
      <3>2. CASE ~ SlotIsFor(s)
        <4>1. f = 0 /\ out[q] = <<>> /\ (Unfiltered(q) \/ CacheIsFor(s))
          BY <1>2, <2>1, <3>2 DEF Progress, f
        <4>2. ~ Gate(s)
          <5>1. Gate(s) => Context(s) = NewCtx(FragmentSeen(s))
            BY <3>2 DEF Context
          <5>2. NewCtx(FragmentSeen(s)) # NoCtx
            BY DEF NewCtx, NoCtx
          <5> QED
            BY <1>1, <5>1, <5>2 DEF Filters
        <4>3. q = seq
          BY <1>2, <1>12 DEF WholeInv, Lone
        <4>4. Unfiltered(q)
          BY <4>1, <4>2, <4>3 DEF Gate, Unfiltered
        <4>5. AtomsFrom(r, 0, f) = {}
          BY <4>1 DEF AtomsFrom
        <4> QED
          BY <4>1, <4>4, <4>5, RangeEmpty
      <3> QED
        BY <3>1, <3>2
    <2>4. Range(Sent(s, b)) = Range(Between(r, 0, g))
      <3>1. Range(Sent(s, b)) = Range(out[q]) \cup Range(b)
        BY <1>3, <1>8, RangeConcat DEF Sent
      <3>2. AtomsFrom(r, 0, f) \cup AtomsFrom(r, f, g) = AtomsFrom(r, 0, g)
        <4>1. (0 + 1 .. f) \cup (f + 1 .. g) = 0 + 1 .. g
          BY <1>3, <1>10 DEF f
        <4> QED
          BY <4>1 DEF AtomsFrom
      <3>3. Range(Between(r, 0, g)) = AtomsFrom(r, 0, g)
        BY <1>10, RangeBetween
      <3> QED
        BY <1>9, <2>3, <3>1, <3>2, <3>3
    <2> DEFINE next == NoCtx
    <2>5. /\ Keep(s, next) /\ UNCHANGED ends /\ ends[q] = 0 /\ g = resp[s].fed + k
          /\ "header" \in events[q] => ~ CacheIsFor(s) /\ next = NoCtx
          /\ next = NoCtx =>
               Unfiltered(q) /\ Range(Sent(s, b)) = Range(Between(ReadingOf(q), 0, g))
          /\ next = NoCtx
      BY <1>2, <1>6, <2>2, <2>3, <2>4 DEF g, f, r
    <2>6. ends[q] = 0 /\ g <= PageLength(s) /\ (last => g = PageLength(s))
      BY <1>10, <1>11, <2>5
    <2> HIDE DEF next
    <2>7. Continued(s, g, last, b, next)
      BY <2>5, <2>6 DEF Continued
    <2> QED
      BY <1>10, <1>11, <2>5, <2>7, KeepsProgress
  <1> DEFINE what == {}
  <1>13. Served(s, b, k, last, FALSE, what) /\ (Clean(resp[s].req) /\ what = {} => Progress(s)')
    BY <1>11, <1>12
  <1> HIDE DEF what
  <1> QED
    BY <1>13, ServedWhole

\* A hook of a filtered response that keeps the context next; that ends the stream.
Known(s, n, g, eof) ==
  /\ ends[resp[s].req] = 0 /\ "header" \notin events[resp[s].req]
  /\ g = resp[s].fed + n /\ g <= PageLength(s) /\ (eof => g = PageLength(s))

Continues(q, g, eof, sent, next) ==
  /\ next # NoCtx /\ next.subrequest = reqs[q].marker
  /\ \/ Steady(ReadingOf(q), g, sent, next)
     \/ eof /\ Flushed(ReadingOf(q), g, sent, next)

\* A hook that keeps the context keeps the progress of its response.
LEMMA KeepsFiltering ==
  ASSUME EsiInv, NEW s \in Sessions, NEW bytes, NEW n, NEW eof, NEW buffered, NEW next,
         Served(s, bytes, n, eof, buffered, {}), Keep(s, next), UNCHANGED ends,
         NEW g, Known(s, n, g, eof), Continues(resp[s].req, g, eof, Sent(s, bytes), next)
  PROVE  Progress(s)'
  <1>1. g = resp[s].fed + n
    BY DEF Known
  <1>2. Continued(s, g, eof, bytes, next)
    BY DEF Known, Continues, Continued
  <1> QED
    BY <1>1, <1>2, KeepsProgress

\* A hook that ends the response has sent the whole page.
LEMMA EndsFiltering ==
  ASSUME EsiInv, NEW s \in Sessions, NEW bytes, NEW n, NEW eof, NEW buffered,
         Served(s, bytes, n, eof, buffered, {}), End(s), Reset,
         NEW g, Known(s, n, g, eof), WholeOf(resp[s].req, Sent(s, bytes))
  PROVE  Progress(s)'
  <1> DEFINE q == resp[s].req
  <1>1. /\ ends[q] = 0 /\ g = resp[s].fed + n /\ g <= PageLength(s) /\ (eof => g = PageLength(s))
        /\ "header" \notin events[q]
        /\ Range(Positions(Sent(s, bytes))) = {i \in DOMAIN reqs[q].page : Kept(q, i)}
        /\ Settled(Sent(s, bytes))
    BY DEF Known, WholeOf
  <1> QED
    BY <1>1, EndsProgress

\* What is parked goes out in part: nothing is lost.
LEMMA ParkedLess ==
  ASSUME NEW r, NEW f, NEW S, NEW a \in Seq(S), NEW c, c.parked \in Seq(S), NEW room \in Nat,
         NEW d, d.mode = c.mode, d.hold = c.hold, d.held = c.held, d.holding = c.holding,
         d.parked = Drop(room, c.parked)
  PROVE  /\ Steady(r, f, a, c) => Steady(r, f, a \o Take(room, c.parked), d)
         /\ Flushed(r, f, a, c) => Flushed(r, f, a \o Take(room, c.parked), d)
  <1> DEFINE t == Take(room, c.parked)
             u == c.parked
  <1>1. /\ t \in Seq(S) /\ d.parked \in Seq(S)
        /\ Range(u) = Range(t) \cup Range(d.parked)
    <2>1. u \in Seq(S)
      OBVIOUS
    <2> HIDE DEF u
    <2>2. /\ Take(room, u) \in Seq(S) /\ Drop(room, u) \in Seq(S)
          /\ Range(u) = Range(Take(room, u)) \cup Range(Drop(room, u))
      BY <2>1, RangeTake
    <2> QED
      BY <2>2 DEF u
  <1>2. u = c.parked
    OBVIOUS
  <1> HIDE DEF t, u
  <1>3. Range(a \o t) = Range(a) \cup Range(t)
    BY <1>1, RangeConcat
  <1>4. Settled(u) => Settled(t) /\ Settled(d.parked)
    BY <1>1 DEF Settled
  <1>5. Settled(a) /\ Settled(t) => Settled(a \o t)
    BY <1>1, SettledConcat
  <1>6. Range(a \o t) \cup Range(d.parked) = Range(a) \cup Range(c.parked)
    BY <1>1, <1>2, <1>3
  <1>7. Steady(r, f, a, c) => Steady(r, f, a \o t, d)
    BY <1>2, <1>4, <1>5, <1>6 DEF Steady
  <1>8. Flushed(r, f, a, c) => Flushed(r, f, a \o t, d)
    BY <1>2, <1>4, <1>5, <1>6 DEF Flushed
  <1> QED
    BY <1>7, <1>8 DEF t

\* The hook that still cannot write what was parked (on_rcvd_resp_body_esi_hook).
LEMMA StillBlockedWhole ==
  ASSUME EsiInv, WholeInv, WellFormed, NEW s \in Sessions, NEW n \in Nat, NEW eof \in BOOLEAN,
         NEW room \in Nat, StillBlocked(s, n, eof, room)
  PROVE  WholeInv'
  <1> DEFINE q == resp[s].req
             f == resp[s].fed
             a == out[q]
             c == Context(s)
             b == Take(room, c.parked)
             d == [c EXCEPT !.parked = Drop(room, c.parked)]
             what == IF n = 0 THEN {} ELSE {"blocked"}
  <1>1. Receives(s, n, eof) /\ Filters(s) /\ Len(c.parked) > room
    BY DEF StillBlocked
  <1>2. Live(s) /\ ends[q] = 0 /\ UNCHANGED <<reqs, cache>>
    BY <1>1, ReceivesFacts
  <1>3. q \in 1 .. seq /\ q \in Requests /\ f \in Nat /\ a \in Seq(ItemsOf(q))
        /\ reqs[q] \in Requested
    BY <1>2, LiveFacts DEF EsiInv
  <1>4. c \in CtxOf(q)
    BY <1>1, <1>2, ContextGood
  <1>5. c.parked \in Seq(ItemsOf(q))
    BY <1>4 DEF CtxOf
  <1>6. Drop(room, c.parked) \in Seq(ItemsOf(q))
    BY <1>5, TakeDrop
  <1>7. /\ d \in CtxOf(q) /\ d.parked = Drop(room, c.parked) /\ d.mode = c.mode
        /\ d.held = c.held /\ d.hold = c.hold /\ d.holding = c.holding
        /\ d.subrequest = c.subrequest
    BY <1>4, <1>6 DEF CtxOf
  <1>8. d # NoCtx
    BY <1>3, <1>7, OwnItems
  <1>9. /\ Deliver(s, b) /\ Keep(s, d) /\ Consumed(s, n, eof, TRUE)
        /\ Happened(q, what) /\ UNCHANGED ends
    BY DEF StillBlocked
  <1>10. SlotIsFor(s) /\ c = slot.ctx /\ slot.ctx # NoCtx
    <2>1. ASSUME ~ SlotIsFor(s) PROVE FALSE
      <3>1. c = NewCtx(FragmentSeen(s)) \/ c = NoCtx
        BY <2>1 DEF Context
      <3>2. c.parked = <<>>
        BY <1>1, <3>1 DEF Filters, NewCtx
      <3>3. Len(<<>>) = 0
        BY EmptySeq
      <3> QED
        BY <1>1, <3>2, <3>3
    <2> QED
      BY <1>1, <2>1 DEF Filters, Context
  <1>11. /\ f + n <= PageLength(s) /\ (eof => f + n = PageLength(s)) /\ (resp[s].eof => eof)
    BY <1>1 DEF Receives
  <1>12. b = Take(room, c.parked) /\ (what = {} => n = 0) /\ "finished" \notin what
         /\ "header" \notin what
    OBVIOUS
  <1> HIDE DEF a, b, c, d, what
  <1>13. Served(s, b, n, eof, TRUE, what)
    BY <1>2, <1>9, <1>12 DEF Served
  <1>14. ASSUME Clean(q), what = {} PROVE Progress(s)'
    <2>1. Progress(s)
      BY <1>2, <1>14 DEF WholeInv
    <2>2. /\ "header" \notin events[q]
          /\ \/ Steady(ReadingOf(q), f, a, c)
             \/ resp[s].eof /\ Flushed(ReadingOf(q), f, a, c)
          /\ c.subrequest = reqs[q].marker
      BY <1>10, <2>1 DEF Progress, a
    <2>3. f + n = f
      BY <1>3, <1>12, <1>14
    <2>4. \/ Steady(ReadingOf(q), f, a \o b, d)
          \/ eof /\ Flushed(ReadingOf(q), f, a \o b, d)
      BY <1>3, <1>5, <1>7, <1>11, <1>12, <2>2, ParkedLess
    <2>5. Sent(s, b) = a \o b
      BY DEF Sent, a
    <2>6. Served(s, b, n, eof, TRUE, {})
      BY <1>13, <1>14
    <2> DEFINE g == f + n
    <2>7. Known(s, n, g, eof)
      BY <1>2, <1>11, <2>2 DEF Known
    <2>8. Continues(q, g, eof, Sent(s, b), d)
      BY <1>7, <1>8, <2>2, <2>3, <2>4, <2>5 DEF Continues
    <2> HIDE DEF g
    <2> QED
      BY <1>9, <2>6, <2>7, <2>8, KeepsFiltering
  <1> QED
    BY <1>13, <1>14, ServedWhole

\* What a hook knows that has processed its chunk.
Calls(s, n, eof, room, q, c, g) ==
  /\ Live(s) /\ UNCHANGED <<reqs, cache>> /\ reqs[q].on /\ q \in 1 .. seq /\ q \in Requests
  /\ out[q] \in Seq(ItemsOf(q)) /\ c.parked \in Seq(ItemsOf(q)) /\ Len(c.parked) <= room
  /\ Reading(ReadingOf(q)) /\ ReadingOf(q).q = q /\ ReadingOf(q).page = reqs[q].page
  /\ ReadingOf(q).marker = reqs[q].marker
  /\ g \in 0 .. Len(reqs[q].page) /\ (eof => g = Len(reqs[q].page))
  /\ Clean(q) => Known(s, n, g, eof)

\* What holds of every call of the hook that processes a chunk.
LEMMA FilteringFacts ==
  ASSUME EsiInv, WholeInv, WellFormed, NEW s \in Sessions, NEW n \in Nat, NEW eof \in BOOLEAN,
         NEW room \in Nat, Filtering(s, n, eof, room),
         NEW q, q = resp[s].req, NEW c, c = Context(s), NEW g, g = resp[s].fed + n
  PROVE  Calls(s, n, eof, room, q, c, g)
  <1>1. Receives(s, n, eof) /\ Filters(s) /\ Len(c.parked) <= room
    BY DEF Filtering
  <1>2. Live(s) /\ ends[q] = 0 /\ UNCHANGED <<reqs, cache>>
    <2> DEFINE x == Chunk(s, n)
    <2>1. x = Chunk(s, n)
      OBVIOUS
    <2> HIDE DEF x
    <2> QED
      BY <1>1, <2>1, ReceivesFacts
  <1>3. /\ q \in 1 .. seq /\ q \in Requests /\ resp[s].fed \in Nat
        /\ out[q] \in Seq(ItemsOf(q)) /\ reqs[q] \in Requested
    BY <1>2, LiveFacts DEF EsiInv
  <1>4. c \in CtxOf(q) /\ reqs[q].on
    BY <1>1, <1>2, ContextGood
  <1>5. c.parked \in Seq(ItemsOf(q))
    BY <1>4 DEF CtxOf
  <1>6. /\ Reading(ReadingOf(q)) /\ ReadingOf(q).q = q /\ ReadingOf(q).page = reqs[q].page
        /\ ReadingOf(q).marker = reqs[q].marker
    BY <1>3, ReadingFacts DEF EsiInv
  <1>7. g \in Nat /\ g <= PageLength(s) /\ (eof => g = PageLength(s))
    BY <1>1, <1>3 DEF Receives
  <1>8. PageLength(s) = Len(reqs[q].page) /\ PageLength(s) \in Nat
    BY <1>3, LenProperties DEF PageLength, Requested
  <1>9. g \in 0 .. Len(reqs[q].page) /\ (eof => g = Len(reqs[q].page))
    BY <1>7, <1>8
  <1>10. ASSUME Clean(q) PROVE Known(s, n, g, eof)
    <2>1. "header" \notin events[q]
      BY <1>1, <1>2, <1>10, ContextAt
    <2> QED
      BY <1>2, <1>7, <2>1 DEF Known
  <1> QED
    BY <1>1, <1>2, <1>3, <1>4, <1>5, <1>6, <1>9, <1>10 DEF Calls

\* Output is held.
LEMMA HoldWhole ==
  ASSUME EsiInv, WholeInv, WellFormed, NEW s \in Sessions, NEW n \in Nat, NEW room \in Nat,
         Hold(s, n, room)
  PROVE  WholeInv'
  <1> DEFINE q == resp[s].req
             a == out[q]
             c == Context(s)
             p == Processed(s, n)
             d == [Ctx(p) EXCEPT !.held = @ \o p.out]
             what == Mishaps(s, p)
             g == resp[s].fed + n
             r == ReadingOf(q)
  <1>1. Filtering(s, n, FALSE, room) /\ FALSE \in BOOLEAN
    BY DEF Hold
  <1>2. /\ Live(s) /\ UNCHANGED <<reqs, cache>>
        /\ r.marker = reqs[q].marker /\ (Clean(q) => Known(s, n, g, FALSE))
    <2>1. Calls(s, n, FALSE, room, q, c, g)
      BY <1>1, FilteringFacts
    <2> HIDE DEF c, g
    <2> QED
      BY <2>1 DEF Calls
  <1>3. /\ p.holding /\ Keep(s, d) /\ Happened(q, what) /\ Deliver(s, c.parked)
        /\ Consumed(s, n, FALSE, FALSE) /\ UNCHANGED ends
    BY DEF Hold
  <1>4. "finished" \notin what /\ "header" \notin what
    BY DEF Mishaps
  <1>5. Clean(q) /\ what = {} => ScannedAll(s, n, FALSE, p)
    BY <1>1, ProcessedAt
  <1>6. ScannedAll(s, n, FALSE, p) => Scanned(r, g, a, c, p)
    BY <1>3 DEF ScannedAll
  <1>7. d = [Ctx(p) EXCEPT !.held = @ \o p.out] /\ p.holding
    BY <1>3
  <1>8. NoCtx # d
    BY DEF Ctx, NoCtx
  <1>9. Sent(s, c.parked) = a \o c.parked
    BY DEF Sent
  <1> HIDE DEF a, c, p, d, what, g, r
  <1>10. Served(s, c.parked, n, FALSE, FALSE, what)
    BY <1>2, <1>3, <1>4 DEF Served
  <1>11. ASSUME Clean(q), what = {} PROVE Progress(s)'
    <2>1. Steady(r, g, a \o c.parked, d) /\ d.subrequest = r.marker
      BY <1>5, <1>6, <1>7, <1>11, AfterHold
    <2>2. Continues(q, g, FALSE, Sent(s, c.parked), d)
      BY <1>2, <1>8, <1>9, <2>1 DEF Continues, r
    <2>3. Served(s, c.parked, n, FALSE, FALSE, {}) /\ Known(s, n, g, FALSE)
      BY <1>2, <1>10, <1>11
    <2> QED
      BY <1>3, <2>2, <2>3, KeepsFiltering
  <1> QED
    BY <1>10, <1>11, ServedWhole

\* Output is written.
LEMMA StreamWhole ==
  ASSUME EsiInv, WholeInv, WellFormed, NEW s \in Sessions, NEW n \in Nat, NEW room \in Nat,
         Stream(s, n, room)
  PROVE  WholeInv'
  <1> DEFINE q == resp[s].req
             a == out[q]
             c == Context(s)
             p == Processed(s, n)
             rest == Drop(Left(room, c.parked), p.out)
             bytes == Take(room, c.parked \o p.out)
             d == [Ctx(p) EXCEPT !.holding = FALSE, !.parked = rest]
             what == Mishaps(s, p) \cup (IF p.holding THEN {"gave up"} ELSE {})
             g == resp[s].fed + n
             r == ReadingOf(q)
             more == rest # <<>>
  <1>1. Filtering(s, n, FALSE, room) /\ FALSE \in BOOLEAN
    BY DEF Stream
  <1>2. /\ Live(s) /\ UNCHANGED <<reqs, cache>> /\ Reading(r) /\ r.page = reqs[q].page
        /\ g \in 0 .. Len(reqs[q].page) /\ Len(c.parked) <= room
        /\ r.marker = reqs[q].marker /\ (Clean(q) => Known(s, n, g, FALSE))
    <2>1. Calls(s, n, FALSE, room, q, c, g)
      BY <1>1, FilteringFacts
    <2> HIDE DEF c, g
    <2> QED
      BY <2>1 DEF Calls
  <1>3. /\ Keep(s, d) /\ Happened(q, what) /\ Deliver(s, bytes)
        /\ Consumed(s, n, FALSE, more) /\ UNCHANGED ends
    BY DEF Stream
  <1>4. "finished" \notin what /\ "header" \notin what
    BY DEF Mishaps
  <1>5. what = {} => ~ p.holding /\ Mishaps(s, p) = {}
    <2> DEFINE m == Mishaps(s, p)
    <2> HIDE DEF m
    <2>1. what = m \cup (IF p.holding THEN {"gave up"} ELSE {})
      BY DEF m
    <2> HIDE DEF p, what
    <2> QED
      BY <2>1 DEF m
  <1>6. Clean(q) /\ Mishaps(s, p) = {} => ScannedAll(s, n, FALSE, p)
    BY <1>1, ProcessedAt
  <1>7. ScannedAll(s, n, FALSE, p) => Scanned(r, g, a, c, p)
    BY DEF ScannedAll
  <1>8. /\ d.mode = p.mode /\ d.hold = p.hold /\ d.parked = rest /\ d.held = p.held
        /\ d.holding = FALSE /\ d.subrequest = p.subrequest
    BY DEF Ctx
  <1>9. NoCtx # d
    BY DEF Ctx, NoCtx
  <1>10. Sent(s, bytes) = a \o bytes /\ bytes = Take(room, c.parked \o p.out)
         /\ rest = Drop(Left(room, c.parked), p.out)
    BY DEF Sent
  <1> HIDE DEF a, c, p, d, what, g, r, rest, bytes, more
  <1>11. Served(s, bytes, n, FALSE, more, what)
    BY <1>2, <1>3, <1>4 DEF Served
  <1>12. ASSUME Clean(q), what = {} PROVE Progress(s)'
    <2>1. Scanned(r, g, a, c, p) /\ ~ p.holding
      BY <1>5, <1>6, <1>7, <1>12
    <2>2. Steady(r, g, a \o bytes, d)
      <3>1. g \in 0 .. Len(r.page)
        BY <1>2
      <3>2. Steady(r, g, a \o Take(room, c.parked \o p.out), d)
        BY <1>2, <1>8, <1>10, <2>1, <3>1, AfterStream
      <3> QED
        BY <1>10, <3>2
    <2>3. d.subrequest = reqs[q].marker
      BY <1>2, <1>8, <2>1 DEF Scanned
    <2>4. Continues(q, g, FALSE, Sent(s, bytes), d)
      BY <1>9, <1>10, <2>2, <2>3 DEF Continues, r
    <2>5. Served(s, bytes, n, FALSE, more, {}) /\ Known(s, n, g, FALSE)
      BY <1>2, <1>11, <1>12
    <2> QED
      BY <1>3, <2>4, <2>5, KeepsFiltering
  <1> QED
    BY <1>11, <1>12, ServedWhole

\* The last chunk, with output held.
LEMMA EndHeldWhole ==
  ASSUME EsiInv, WholeInv, WellFormed, NEW s \in Sessions, NEW n \in Nat, NEW room \in Nat,
         EndHeld(s, n, room)
  PROVE  WholeInv'
  <1> DEFINE q == resp[s].req
             a == out[q]
             c == Context(s)
             p == Processed(s, n)
             last == IF Fits(p.held, p.out) THEN p.held \o p.out ELSE p.held
             all == IF last # <<>> /\ Fits(last, p.hold) THEN last \o p.hold ELSE last
             full == c.parked \o Join(all)
             bytes == Take(room, full)
             what == Mishaps(s, p)
                       \cup (IF Len(all) < Len(p.held \o p.out \o p.hold)
                               THEN {"gave up"} ELSE {})
                       \cup (IF Len(full) > room THEN {"blocked"} ELSE {})
             g == resp[s].fed + n
             r == ReadingOf(q)
             I == ItemsOf(q)
             N == Len(reqs[q].page)
  <1>1. Filtering(s, n, TRUE, room) /\ TRUE \in BOOLEAN
    BY DEF EndHeld
  <1>2. /\ Live(s) /\ UNCHANGED <<reqs, cache>> /\ Reading(r) /\ r.page = reqs[q].page
        /\ g \in 0 .. N /\ g = N /\ q \in 1 .. seq /\ reqs[q].on
        /\ a \in Seq(I) /\ c.parked \in Seq(I) /\ Len(c.parked) <= room /\ r.q = q
        /\ r.marker = reqs[q].marker /\ (Clean(q) => Known(s, n, g, TRUE))
    <2>1. Calls(s, n, TRUE, room, q, c, g)
      BY <1>1, FilteringFacts
    <2> HIDE DEF c, g
    <2> QED
      BY <2>1 DEF Calls
  <1>3. /\ p.holding /\ Happened(q, what) /\ Deliver(s, bytes)
        /\ Consumed(s, n, TRUE, FALSE) /\ End(s) /\ Reset
    BY DEF EndHeld
  <1>4. "finished" \notin what /\ "header" \notin what
    BY DEF Mishaps
  <1>5. what = {} => /\ Mishaps(s, p) = {} /\ ~ (Len(full) > room)
                     /\ ~ (Len(all) < Len(p.held \o p.out \o p.hold))
    <2> DEFINE m == Mishaps(s, p)
    <2> HIDE DEF m
    <2>1. what = m \cup (IF Len(all) < Len(p.held \o p.out \o p.hold)
                               THEN {"gave up"} ELSE {})
                   \cup (IF Len(full) > room THEN {"blocked"} ELSE {})
      BY DEF m
    <2> HIDE DEF p, what, all, full
    <2> QED
      BY <2>1 DEF m
  <1>6. Clean(q) /\ Mishaps(s, p) = {} => ScannedAll(s, n, TRUE, p)
    BY <1>1, ProcessedAt
  <1>7. ScannedAll(s, n, TRUE, p) => Scanned(r, g, a, c, p)
    BY <1>3 DEF ScannedAll
  <1>8. Sent(s, bytes) = a \o bytes /\ bytes = Take(room, full) /\ full = c.parked \o Join(all)
    BY DEF Sent
  <1>9. Known(s, n, g, TRUE) => "header" \notin events[q]
    BY DEF Known
  <1>10. all \in {p.held, p.held \o p.out, p.held \o p.hold, (p.held \o p.out) \o p.hold}
    <2> HIDE DEF p
    <2> QED
      OBVIOUS
  <1> HIDE DEF a, c, p, last, all, full, bytes, what, g, r, N
  <1>11. Served(s, bytes, n, TRUE, FALSE, what)
    BY <1>2, <1>3, <1>4 DEF Served
  <1>12. ASSUME Clean(q), what = {} PROVE Progress(s)'
    <2>1. Scanned(r, g, a, c, p) /\ "header" \notin events[q] /\ Known(s, n, g, TRUE)
      BY <1>2, <1>5, <1>6, <1>7, <1>9, <1>12
    <2> DEFINE h == p.held
               o == p.out
               e == p.hold
    <2>2. /\ h \in Seq(I) /\ o \in Seq(I) /\ e \in Seq(I) /\ h = c.held
          /\ TagOf(r, g, e) /\ Settled(a) /\ Settled(c.parked)
          /\ Range(a) \cup Range(c.parked) \cup Range(h) \cup Range(o) = Stuff(r, g)
      BY <1>2, <2>1 DEF Scanned
    <2>3. all \in {h, h \o o, h \o e, (h \o o) \o e} /\ ~ (Len(all) < Len(h \o o \o e))
      BY <1>5, <1>10, <1>12
    <2> HIDE DEF h, o, e
    <2>4. all \in Seq(I) /\ Range(all) = (Range(h) \cup Range(o)) \cup Range(e)
      <3>1. /\ h \o o \in Seq(I) /\ h \o e \in Seq(I)
            /\ Len(h \o o) = Len(h) + Len(o) /\ Len(h \o e) = Len(h) + Len(e)
            /\ Len(h) \in Nat /\ Len(o) \in Nat /\ Len(e) \in Nat
            /\ Range(h \o o) = Range(h) \cup Range(o) /\ Range(h \o e) = Range(h) \cup Range(e)
        BY <2>2, ConcatParts, RangeConcat
      <3>2. /\ (h \o o) \o e \in Seq(I) /\ Len((h \o o) \o e) = Len(h) + Len(o) + Len(e)
            /\ Range((h \o o) \o e) = Range(h \o o) \cup Range(e)
        <4> DEFINE u == h \o o
        <4>1. u \in Seq(I) /\ Len(u) = Len(h) + Len(o)
          BY <3>1
        <4>5. e \in Seq(I)
          BY <2>2
        <4> HIDE DEF u, I
        <4>2. u \o e \in Seq(I) /\ Len(u \o e) = Len(u) + Len(e)
          BY <4>5, <4>1, ConcatParts
        <4>3. Range(u \o e) = Range(u) \cup Range(e)
          BY <4>5, <4>1, RangeConcat
        <4> QED
          BY <3>1, <4>1, <4>2, <4>3 DEF u
      <3>3. \A z \in Seq(I) : Len(z) = 0 => Range(z) = {}
        BY LenProperties, EmptySeq, RangeEmpty DEF Range
      <3>4. h \o o \o e = (h \o o) \o e
        OBVIOUS
      <3>5. ~ (Len(all) < Len(h) + Len(o) + Len(e))
        BY <2>3, <3>2, <3>4
      <3>6. CASE all = h
        BY <2>2, <3>1, <3>3, <3>5, <3>6
      <3>7. CASE all = h \o o
        BY <2>2, <3>1, <3>3, <3>5, <3>7
      <3>8. CASE all = h \o e
        BY <2>2, <3>1, <3>3, <3>5, <3>8
      <3>9. CASE all = (h \o o) \o e
        BY <3>1, <3>2, <3>9
      <3> QED
        BY <2>3, <3>6, <3>7, <3>8, <3>9
    <2>5. Range(a \o (c.parked \o Join(all))) = Delivered(Stuff(r, g) \cup OpenPart(r, g))
      <3> DEFINE Y == Range(h) \cup Range(o)
                 b == c.parked
      <3>1. Range(all) = Y \cup Range(e) /\ Range(a) \cup Range(b) \cup Y = Stuff(r, g)
        BY <2>2, <2>4
      <3>2. b \in Seq(ItemsOf(r.q)) /\ a \in Seq(ItemsOf(r.q)) /\ all \in Seq(ItemsOf(r.q))
            /\ Settled(b)
        BY <1>2, <2>2, <2>4
      <3>3. g \in 0 .. Len(r.page)
        BY <1>2 DEF N
      <3>5. TagOf(r, g, e) /\ Settled(a) /\ Reading(r)
        BY <1>2, <2>2
      <3> HIDE DEF Y, b
      <3>6. AllHeld(r, g, a, b, all, e)
        BY <3>1 DEF AllHeld
      <3>4. Range(a \o (b \o Join(all))) = Delivered(Stuff(r, g) \cup OpenPart(r, g))
        BY <3>2, <3>3, <3>5, <3>6, AfterJoin
      <3> QED
        BY <3>4 DEF b
    <2>6. bytes = full
      <3>1. Join(all) \in Seq(I)
        BY <2>4, JoinOrder, TwoWays
      <3>2. full \in Seq(I)
        BY <1>2, <1>8, <3>1, ConcatParts
      <3>3. Len(full) \in Nat /\ Len(full) <= room
        BY <1>5, <1>12, <3>2, LenProperties
      <3> QED
        BY <1>8, <3>2, <3>3, TakeDrop
    <2>7. WholeOf(q, Sent(s, bytes))
      <3> DEFINE y == Sent(s, bytes)
      <3>1. Range(y) = Delivered(Stuff(r, N) \cup OpenPart(r, N))
        BY <1>2, <1>8, <2>5, <2>6
      <3>2. r = ReadingOf(q) /\ N = Len(reqs[q].page) /\ Typed
        BY DEF r, N, EsiInv
      <3> HIDE DEF y
      <3>3. WholeOf(q, y)
        BY <1>2, <2>1, <3>1, <3>2, FilteredWhole
      <3> QED
        BY <3>3 DEF y
    <2>8. Served(s, bytes, n, TRUE, FALSE, {})
      BY <1>11, <1>12
    <2> QED
      BY <1>3, <2>1, <2>7, <2>8, EndsFiltering
  <1> QED
    BY <1>11, <1>12, ServedWhole

\* The last chunk, with nothing held: the cases of EndStream after its chunk.
LEMMA EndStreamWhole ==
  ASSUME EsiInv, WholeInv, WellFormed, NEW s \in Sessions, NEW n \in Nat, NEW room \in Nat,
         EndStream(s, n, room)
  PROVE  WholeInv'
  <1> DEFINE q == resp[s].req
             a == out[q]
             c == Context(s)
             p == Processed(s, n)
             rest == Drop(Left(room, c.parked), p.out)
             tail == Drop(Left(room, c.parked), p.out \o p.hold)
             part == Take(room, c.parked \o p.out)
             full == c.parked \o p.out \o p.hold
             most == Take(room, full)
             d == [Ctx(p) EXCEPT !.parked = rest]
             e == [Ctx(p) EXCEPT !.parked = tail, !.hold = <<>>]
             what == Mishaps(s, p)
             g == resp[s].fed + n
             r == ReadingOf(q)
             N == Len(reqs[q].page)
  <1>1. Filtering(s, n, TRUE, room) /\ TRUE \in BOOLEAN /\ ~ p.holding
    BY DEF EndStream
  <1>2. /\ Live(s) /\ UNCHANGED <<reqs, cache>> /\ Reading(r) /\ r.page = reqs[q].page
        /\ g \in 0 .. N /\ g = N /\ q \in 1 .. seq /\ reqs[q].on
        /\ a \in Seq(ItemsOf(q)) /\ c.parked \in Seq(ItemsOf(q)) /\ Len(c.parked) <= room /\ r.q = q
        /\ r.marker = reqs[q].marker /\ (Clean(q) => Known(s, n, g, TRUE))
    <2>1. Calls(s, n, TRUE, room, q, c, g)
      BY <1>1, FilteringFacts
    <2> HIDE DEF c, g
    <2> QED
      BY <2>1 DEF Calls
  <1>3. /\ Happened(q, what)
        /\ \/ /\ rest # <<>> /\ Deliver(s, part) /\ Keep(s, d) /\ Consumed(s, n, TRUE, TRUE)
              /\ UNCHANGED ends
           \/ /\ tail # <<>> /\ Deliver(s, most) /\ Keep(s, e) /\ Consumed(s, n, TRUE, TRUE)
              /\ UNCHANGED ends
           \/ /\ tail = <<>> /\ Deliver(s, full) /\ Reset /\ Consumed(s, n, TRUE, FALSE) /\ End(s)
    BY DEF EndStream
  <1>4. "finished" \notin what /\ "header" \notin what
    BY DEF Mishaps
  <1>5. Clean(q) /\ what = {} =>
          ScannedAll(s, n, TRUE, p) /\ p.subrequest = reqs[q].marker
    BY <1>1, ProcessedAt
  <1>6. ScannedAll(s, n, TRUE, p) =>
          \/ Scanned(r, g, a, c, p)
          \/ Flushed(r, g, a, c) /\ p.out = <<>> /\ p.hold = <<>>
    BY DEF ScannedAll
  <1>7. /\ d.mode = p.mode /\ d.hold = p.hold /\ d.parked = rest /\ d.held = p.held
        /\ d.holding = p.holding /\ d.subrequest = p.subrequest /\ d # NoCtx
        /\ e.hold = <<>> /\ e.parked = tail /\ e.held = p.held
        /\ e.holding = p.holding /\ e.subrequest = p.subrequest /\ e # NoCtx
    BY DEF Ctx, NoCtx
  <1>8. /\ rest = Drop(Left(room, c.parked), p.out) /\ part = Take(room, c.parked \o p.out)
        /\ tail = Drop(Left(room, c.parked), p.out \o p.hold)
        /\ most = Take(room, c.parked \o p.out \o p.hold) /\ full = c.parked \o p.out \o p.hold
    OBVIOUS
  <1>9. Known(s, n, g, TRUE) => "header" \notin events[q]
    BY DEF Known
  <1> HIDE DEF a, c, p, rest, tail, part, full, most, d, e, what, g, r, N
  <1>10. p.holding \in BOOLEAN => d.holding = FALSE /\ e.holding = FALSE
    BY <1>1, <1>7, Zenon
  <1>11. ASSUME p.out = <<>>, p.hold = <<>>
         PROVE  rest = <<>> /\ tail = <<>> /\ full = c.parked
    <2> DEFINE m == Left(room, c.parked)
               I == ItemsOf(q)
               b == c.parked
    <2>1. m \in Nat
      BY <1>2, LenProperties DEF Left
    <2>2. <<>> \in Seq(I) /\ Len(<<>>) = 0 /\ <<>> \o <<>> = <<>> /\ b \in Seq(I)
      BY <1>2, EmptySeq, ConcatEmptySeq
    <2> HIDE DEF m, I, b
    <2>6. Len(<<>>) <= m
      BY <2>1, <2>2
    <2>3. Drop(m, <<>>) = <<>>
      BY <2>1, <2>2, <2>6, TakeDrop, Zenon
    <2>4. b \o <<>> = b
      BY <2>2, ConcatEmptySeq
    <2>5. full = c.parked \o (<<>> \o <<>>) \/ full = (c.parked \o <<>>) \o <<>>
      BY <1>8, <1>11
    <2> QED
      BY <1>8, <1>11, <2>2, <2>3, <2>4, <2>5 DEF m, b
  <1>12. g \in 0 .. Len(r.page)
    BY <1>2 DEF N
  <1>13. CASE rest # <<>> /\ Deliver(s, part) /\ Keep(s, d) /\ Consumed(s, n, TRUE, TRUE)
              /\ UNCHANGED ends
    <2>1. Served(s, part, n, TRUE, TRUE, what)
      BY <1>2, <1>3, <1>4, <1>13 DEF Served
    <2>2. ASSUME Clean(q), what = {} PROVE Progress(s)'
      <3>1. Scanned(r, g, a, c, p) /\ p.subrequest = reqs[q].marker
        BY <1>5, <1>6, <1>11, <1>13, <2>2
      <3>2. d.holding = FALSE
        BY <1>10, <3>1 DEF Scanned
      <3>3. Steady(r, g, a \o Take(room, c.parked \o p.out), d)
        BY <1>1, <1>2, <1>7, <1>8, <1>12, <3>1, <3>2, AfterStream
      <3>4. Sent(s, part) = a \o Take(room, c.parked \o p.out)
        BY <1>8 DEF Sent, a
      <3>5. Continues(q, g, TRUE, Sent(s, part), d)
        BY <1>7, <3>1, <3>3, <3>4 DEF Continues, r
      <3>6. Served(s, part, n, TRUE, TRUE, {}) /\ Known(s, n, g, TRUE)
        BY <1>2, <2>1, <2>2
      <3> QED
        BY <1>13, <3>5, <3>6, KeepsFiltering
    <2> QED
      BY <2>1, <2>2, ServedWhole
  <1>14. Scanned(r, g, a, c, p) =>
           /\ Flushed(r, g, a \o most, e)
           /\ tail = <<>> => most = full
    <2> HAVE Scanned(r, g, a, c, p)
    <2>1. e.holding = FALSE
      BY <1>10 DEF Scanned
    <2>2. WithTail(r, g, a, c, p, room, tail, e)
      <3>1. /\ Reading(r) /\ g \in 0 .. Len(r.page) /\ Scanned(r, g, a, c, p) /\ ~ p.holding
            /\ Len(c.parked) <= room /\ room \in Nat
            /\ tail = Drop(Left(room, c.parked), p.out \o p.hold)
            /\ e.hold = <<>> /\ e.parked = tail /\ e.held = p.held /\ e.holding = FALSE
        BY <1>1, <1>2, <1>7, <1>8, <1>12, <2>1
      <3> QED
        BY <3>1, AfterTail
    <2> QED
      BY <1>8, <2>2 DEF WithTail
  <1>15. CASE tail # <<>> /\ Deliver(s, most) /\ Keep(s, e) /\ Consumed(s, n, TRUE, TRUE)
              /\ UNCHANGED ends
    <2>1. Served(s, most, n, TRUE, TRUE, what)
      BY <1>2, <1>3, <1>4, <1>15 DEF Served
    <2>2. ASSUME Clean(q), what = {} PROVE Progress(s)'
      <3>1. Scanned(r, g, a, c, p) /\ p.subrequest = reqs[q].marker
        BY <1>5, <1>6, <1>11, <1>15, <2>2
      <3>2. Sent(s, most) = a \o most
        BY DEF Sent, a
      <3>3. Continues(q, g, TRUE, Sent(s, most), e)
        BY <1>7, <1>14, <3>1, <3>2 DEF Continues, r
      <3>4. Served(s, most, n, TRUE, TRUE, {}) /\ Known(s, n, g, TRUE)
        BY <1>2, <2>1, <2>2
      <3> QED
        BY <1>15, <3>3, <3>4, KeepsFiltering
    <2> QED
      BY <2>1, <2>2, ServedWhole
  <1>16. CASE tail = <<>> /\ Deliver(s, full) /\ Reset /\ Consumed(s, n, TRUE, FALSE) /\ End(s)
    <2>1. Served(s, full, n, TRUE, FALSE, what)
      BY <1>2, <1>3, <1>4, <1>16 DEF Served
    <2>2. ASSUME Clean(q), what = {} PROVE Progress(s)'
      <3>1. Known(s, n, g, TRUE) /\ "header" \notin events[q]
        BY <1>2, <1>9, <2>2
      <3>2. Range(a \o full) = Delivered(Stuff(r, g) \cup OpenPart(r, g))
        <4>1. CASE Scanned(r, g, a, c, p)
          <5> DEFINE w == a \o full
                     I == ItemsOf(r.q)
          <5>1. Flushed(r, g, w, e) /\ e.parked = <<>> /\ r.q = q
            BY <1>2, <1>7, <1>14, <1>16, <4>1
          <5>2. p.out \in Seq(I) /\ p.hold \in Seq(I) /\ a \in Seq(I) /\ c.parked \in Seq(I)
            BY <4>1 DEF Scanned
          <5>3. w \in Seq(I) /\ <<>> \in Seq(I)
            <6> DEFINE b == c.parked
                       o == p.out
                       h == p.hold
            <6>1. b \in Seq(I) /\ o \in Seq(I) /\ h \in Seq(I) /\ a \in Seq(I)
              BY <5>2
            <6>2. full = b \o o \o h
              BY <1>8
            <6> HIDE DEF b, o, h, I
            <6>3. o \o h \in Seq(I) /\ b \o o \in Seq(I)
              BY <6>1, ConcatParts
            <6>4. (b \o o) \o h \in Seq(I) /\ b \o (o \o h) \in Seq(I)
              BY <6>1, <6>3, ConcatParts
            <6>5. full \in Seq(I)
              BY <6>2, <6>4
            <6> QED
              BY <6>1, <6>5, ConcatParts, EmptySeq
          <5> HIDE DEF w
          <5>4. Range(w \o e.parked) = Delivered(Stuff(r, g) \cup OpenPart(r, g))
            <6>1. /\ Reading(r) /\ g \in 0 .. Len(r.page) /\ Flushed(r, g, w, e)
                  /\ w \in Seq(ItemsOf(r.q)) /\ e.parked \in Seq(ItemsOf(r.q))
              BY <1>2, <1>12, <5>1, <5>3 DEF I
            <6> HIDE DEF I
            <6> QED
              BY <6>1, FlushedAll
          <5>5. w \o <<>> = w
            BY <5>3, ConcatEmptySeq
          <5> QED
            BY <5>1, <5>4, <5>5 DEF w
        <4>2. CASE Flushed(r, g, a, c) /\ p.out = <<>> /\ p.hold = <<>>
          <5>1. full = c.parked
            BY <1>11, <4>2
          <5>2. Range(a \o c.parked) = Delivered(Stuff(r, g) \cup OpenPart(r, g))
            BY <1>2, <1>12, <4>2, FlushedAll
          <5> QED
            BY <5>1, <5>2
        <4> QED
          BY <1>5, <1>6, <2>2, <4>1, <4>2
      <3>3. WholeOf(q, Sent(s, full))
        <4> DEFINE y == Sent(s, full)
        <4>1. Range(y) = Delivered(Stuff(r, N) \cup OpenPart(r, N))
          BY <1>2, <3>2 DEF Sent, a
        <4>2. r = ReadingOf(q) /\ N = Len(reqs[q].page) /\ Typed
          BY DEF r, N, EsiInv
        <4> HIDE DEF y
        <4>3. WholeOf(q, y)
          BY <1>2, <3>1, <4>1, <4>2, FilteredWhole
        <4> QED
          BY <4>3 DEF y
      <3>4. Served(s, full, n, TRUE, FALSE, {})
        BY <2>1, <2>2
      <3> QED
        BY <1>16, <3>1, <3>3, <3>4, EndsFiltering
    <2> QED
      BY <2>1, <2>2, ServedWhole
  <1> QED
    BY <1>3, <1>13, <1>15, <1>16

\* The end of a response: what the filter still keeps is all that is missing.
LEMMA LeftoverWhole ==
  ASSUME EsiInv, WellFormed, NEW s \in Sessions, Live(s), Filtered(s), Progress(s), resp[s].eof,
         NEW room \in Nat, EndMishaps(slot.ctx, room) = {},
         NEW q, q = resp[s].req
  PROVE  WholeOf(q, out[q] \o Take(room, Leftover(slot.ctx)))
  <1> DEFINE a == out[q]
             c == slot.ctx
             b == c.parked
             h == c.held
             e == c.hold
             l == Leftover(c)
             r == ReadingOf(q)
             N == Len(reqs[q].page)
             I == ItemsOf(q)
             X == Stuff(r, N) \cup OpenPart(r, N)
             all == IF TagFits(c) THEN h \o e ELSE h
  <1>1. q \in 1 .. seq /\ q \in Requests /\ a \in Seq(I) /\ reqs[q] \in Requested
    BY LiveFacts DEF EsiInv
  <1>2. c \in CtxOf(q) /\ reqs[q].on
    BY DEF EsiInv, Owned
  <1>3. b \in Seq(I) /\ h \in Seq(I) /\ e \in Seq(I) /\ c.holding \in BOOLEAN
    BY <1>2 DEF CtxOf
  <1>4. Reading(r) /\ r.q = q /\ r.page = reqs[q].page /\ N \in Nat /\ N \in 0 .. Len(r.page)
        /\ N = Len(r.page)
    BY <1>1, ReadingFacts, LenProperties DEF EsiInv, Requested
  <1>5. /\ "header" \notin events[q]
        /\ Steady(r, N, a, c) \/ Flushed(r, N, a, c)
    BY DEF Progress, Filtered, PageLength
  <1>6. /\ ~ (c.holding /\ e # <<>> /\ ~ TagFits(c))
        /\ ~ (Len(l) > room)
    <2> HIDE DEF c, e, l
    <2>1. (IF c.holding /\ e # <<>> /\ ~ TagFits(c) THEN {"gave up"} ELSE {})
            \cup (IF Len(l) > room THEN {"blocked"} ELSE {}) = {}
      BY DEF EndMishaps, c, e, l
    <2> QED
      BY <2>1
  <1>7. /\ ~ c.holding => l = b \o e
        /\ c.holding => l = b \o Join(all)
    BY DEF Leftover
  <1>8. TagFits(c) => all = h \o e
    OBVIOUS
  <1>9. ~ TagFits(c) => all = h
    OBVIOUS
  <1> HIDE DEF a, c, b, h, e, l, r, N, I, all, X
  <1>10. all \in Seq(I) /\ (c.holding => Range(all) = Range(h) \cup Range(e))
    <2>1. h \o e \in Seq(I) /\ Range(h \o e) = Range(h) \cup Range(e)
      BY <1>3, ConcatParts, RangeConcat
    <2>2. CASE TagFits(c)
      BY <1>8, <2>1, <2>2
    <2>3. CASE ~ TagFits(c)
      <3>1. all = h /\ (c.holding => e = <<>>)
        BY <1>6, <1>9, <2>3
      <3>2. e = <<>> => Range(e) = {}
        BY RangeEmpty
      <3> QED
        BY <1>3, <3>1, <3>2
    <2> QED
      BY <2>2, <2>3
  <1>11. l \in Seq(I)
    <2>1. Join(all) \in Seq(I)
      BY <1>10, JoinOrder, TwoWays DEF I
    <2>2. b \o e \in Seq(I) /\ b \o Join(all) \in Seq(I)
      BY <1>3, <2>1, ConcatParts
    <2>3. CASE c.holding
      BY <1>7, <2>2, <2>3
    <2>4. CASE ~ c.holding
      BY <1>7, <2>2, <2>4
    <2> QED
      BY <2>3, <2>4
  <1>12. Take(room, l) = l
    <2>1. Len(l) \in Nat /\ Len(l) <= room
      BY <1>6, <1>11, LenProperties
    <2> QED
      BY <1>11, <2>1, TakeDrop, Zenon
  <1>13. Steady(r, N, a, c) => /\ TagOf(r, N, e) /\ Settled(a) /\ Settled(b)
                               /\ Range(a) \cup Range(b) \cup Range(h) = Stuff(r, N)
                               /\ c.holding \/ (h = <<>> /\ NoIncludes(r, N))
    BY DEF Steady, b, h, e
  <1>14. Range(a \o l) = Delivered(X)
    <2>1. CASE Steady(r, N, a, c) /\ c.holding
      <3>1. AllHeld(r, N, a, b, all, e)
        BY <1>10, <1>13, <2>1 DEF AllHeld
      <3>2. /\ a \in Seq(ItemsOf(r.q)) /\ b \in Seq(ItemsOf(r.q)) /\ all \in Seq(ItemsOf(r.q))
            /\ TagOf(r, N, e) /\ Settled(a) /\ Settled(b)
        BY <1>1, <1>3, <1>4, <1>10, <1>13, <2>1 DEF I
      <3>3. Range(a \o (b \o Join(all))) = Delivered(Stuff(r, N) \cup OpenPart(r, N))
        <4>1. Reading(r) /\ N \in 0 .. Len(r.page)
          BY <1>4
        <4> QED
          BY <3>1, <3>2, <4>1, AfterJoin
      <3> QED
        BY <1>7, <2>1, <3>3 DEF X
    <2> DEFINE none == [hold |-> <<>>, held |-> <<>>, holding |-> FALSE, parked |-> l]
    <2>2. none.parked = l
      OBVIOUS
    <2>3. CASE Steady(r, N, a, c) /\ ~ c.holding
      <3>1. Range(l) = Range(b) \cup Range(e)
        <4>1. Range(b \o e) = Range(b) \cup Range(e)
          BY <1>3, RangeConcat
        <4> QED
          BY <1>7, <2>3, <4>1
      <3>2. Range(e) = OpenPart(r, N)
        BY <1>4, <1>13, <2>3, TagPart
      <3>3. Range(h) = {} /\ NoIncludes(r, N)
        BY <1>13, <2>3, RangeEmpty
      <3>4. Range(a) \cup Range(l) = Stuff(r, N) \cup OpenPart(r, N)
        BY <1>13, <2>3, <3>1, <3>2, <3>3
      <3>5. Settled(a) /\ Settled(l)
        BY <1>4, <1>13, <2>3, <3>1, <3>2, NoPlaceholders DEF Settled
      <3>6. Flushed(r, N, a, none)
        BY <3>3, <3>4, <3>5 DEF Flushed
      <3>7. a \in Seq(ItemsOf(r.q)) /\ none.parked \in Seq(ItemsOf(r.q))
        BY <1>1, <1>4, <1>11, <2>2 DEF I
      <3> HIDE DEF none
      <3> QED
        BY <1>4, <2>2, <3>6, <3>7, FlushedAll DEF X
    <2>4. CASE Flushed(r, N, a, c)
      <3>1. e = <<>> /\ ~ c.holding
        BY <2>4 DEF Flushed, e
      <3>2. b \o <<>> = b
        BY <1>3, ConcatEmptySeq
      <3>3. l = c.parked
        BY <1>7, <3>1, <3>2 DEF b
      <3>4. a \in Seq(ItemsOf(r.q)) /\ c.parked \in Seq(ItemsOf(r.q))
        BY <1>1, <1>3, <1>4 DEF I, b
      <3>5. Reading(r) /\ N \in 0 .. Len(r.page)
        BY <1>4
      <3>6. Range(a \o c.parked) = Delivered(X)
        BY <2>4, <3>4, <3>5, FlushedAll DEF X
      <3> QED
        BY <3>3, <3>6
    <2> QED
      BY <1>5, <2>1, <2>3, <2>4
  <1>15. WholeOf(q, a \o l)
    <2> DEFINE y == a \o l
    <2>1. Range(y) = Delivered(Stuff(r, N) \cup OpenPart(r, N))
      BY <1>14 DEF X
    <2>2. r = ReadingOf(q) /\ N = Len(reqs[q].page) /\ Typed
      BY DEF r, N, EsiInv
    <2> HIDE DEF y
    <2>3. WholeOf(q, y)
      BY <1>1, <1>2, <1>5, <2>1, <2>2, FilteredWhole
    <2> QED
      BY <2>3 DEF y
  <1> QED
    BY <1>12, <1>15 DEF a, l, c

\* The end of a response.
LEMMA RcvdWhole ==
  ASSUME EsiInv, WholeInv, WellFormed, NEW s \in Sessions, NEW room \in Nat, Rcvd(s, room)
  PROVE  WholeInv'
  <1> DEFINE q == resp[s].req
             finished == IF resp[s].eof THEN {"finished"} ELSE {}
             bytes == Take(room, Leftover(slot.ctx))
             mishaps == EndMishaps(slot.ctx, room)
             extra == IF Filtered(s) THEN mishaps ELSE {}
             what == finished \cup extra
  <1>1. /\ Live(s) /\ resp' = [resp EXCEPT ![s] = Idle] /\ slot' = NoSlot
        /\ reqs' = reqs /\ seq' = seq /\ cache' = cache
    BY DEF Rcvd, Reset, seq
  <1>2. /\ q \in 1 .. seq /\ q \in Requests /\ seq \in Nat
        /\ out \in [Requests -> Seq(Items)] /\ events \in [Requests -> SUBSET Events]
        /\ resp \in [Sessions -> [req : 0 .. seq, fed : Nat, eof : BOOLEAN, buffered : BOOLEAN]]
    BY <1>1, LiveFacts DEF EsiInv, Typed, TypeOK
  <1>3. /\ out' = IF Filtered(s) THEN [out EXCEPT ![q] = out[q] \o bytes] ELSE out
        /\ events' = [events EXCEPT ![q] = events[q] \cup what]
    <2>1. CASE Filtered(s)
      <3>1. out' = [out EXCEPT ![q] = out[q] \o bytes] /\ Happened(q, finished \cup mishaps)
        BY <2>1 DEF Rcvd, Deliver, Filtered
      <3> HIDE DEF mishaps, finished
      <3>2. what = finished \cup mishaps
        BY <2>1
      <3> QED
        BY <2>1, <3>1, <3>2 DEF Happened
    <2>2. CASE ~ Filtered(s)
      <3>1. out' = out /\ Happened(q, finished)
        BY <2>2 DEF Rcvd, Filtered
      <3> HIDE DEF mishaps, finished
      <3>2. what = finished
        BY <2>2
      <3> QED
        BY <2>2, <3>1, <3>2 DEF Happened
    <2> QED
      BY <2>1, <2>2
  <1>4. "finished" \notin extra /\ "header" \notin extra /\ (extra \subseteq {"header", "finished"} => extra = {})
    BY DEF EndMishaps
  <1>5. finished \subseteq {"finished"} /\ ("finished" \in finished => resp[s].eof)
    OBVIOUS
  <1>6. Filtered(s) => extra = EndMishaps(slot.ctx, room)
    OBVIOUS
  <1> HIDE DEF bytes, finished, extra, mishaps
  <1>7. /\ events'[q] = events[q] \cup what
        /\ out'[q] = IF Filtered(s) THEN out[q] \o bytes ELSE out[q]
        /\ \A p \in Requests : p # q => out'[p] = out[p] /\ events'[p] = events[p]
    <2> HIDE DEF what
    <2>1. events'[q] = events[q] \cup what /\ \A p \in Requests : p # q => events'[p] = events[p]
      BY <1>2, <1>3
    <2>2. CASE Filtered(s)
      BY <1>2, <1>3, <2>1, <2>2
    <2>3. CASE ~ Filtered(s)
      BY <1>3, <2>1, <2>3
    <2> QED
      BY <2>2, <2>3
  <1>8. \A t \in Sessions : Live(t)' => t # s /\ Live(t) /\ resp'[t] = resp[t]
    BY <1>1, <1>2 DEF Live, Idle
  <1>9. \A t \in Sessions : Live(t)' =>
          resp[t].req # q /\ resp[t].req \in Requests /\ events'[resp'[t].req] = events[resp[t].req]
    <2> TAKE t \in Sessions
    <2> HAVE Live(t)'
    <2>1. t # s /\ Live(t) /\ resp'[t] = resp[t]
      BY <1>8
    <2>2. resp[t].req # q
      BY <1>1, <2>1 DEF EsiInv, Fresh
    <2>3. resp[t].req \in Requests
      BY <2>1, LiveFacts DEF EsiInv
    <2> QED
      BY <1>7, <2>1, <2>2, <2>3
  <1>10. ASSUME NEW t \in Sessions, Live(t)', events'[resp'[t].req] \subseteq {"header", "finished"}
         PROVE  FALSE
    <2>1. t # s /\ Live(t) /\ Clean(resp[t].req)
      BY <1>8, <1>9, <1>10 DEF Clean
    <2> QED
      BY <1>1, <2>1 DEF WholeInv, Lone
  <1>11. Lone' /\ \A t \in Sessions : (Live(t) /\ Clean(resp[t].req))' => Progress(t)'
    <2>1. \A t \in Sessions : ~ (Live(t) /\ Clean(resp[t].req))'
      BY <1>10 DEF Clean
    <2> QED
      BY <2>1 DEF Lone
  <1>12. ASSUME NEW p \in Requests, "finished" \in events'[p],
                events'[p] \subseteq {"header", "finished"}
         PROVE  Complete(p)'
    <2>1. CASE p # q
      <3>1. out'[p] = out[p] /\ events'[p] = events[p] /\ reqs'[p] = reqs[p]
        BY <1>1, <1>7, <2>1
      <3>2. Complete(p)
        BY <1>12, <3>1 DEF WholeInv, AllFinished, Clean
      <3> QED
        BY <3>1, <3>2, CompleteStays
    <2>2. CASE p = q
      <3>1. Clean(q) /\ extra \subseteq {"header", "finished"}
        BY <1>7, <1>12, <2>2 DEF Clean
      <3>2. extra = {}
        BY <1>4, <3>1
      <3>3. "finished" \notin events[q]
        BY <1>1 DEF WholeInv, AllFinished
      <3>4. resp[s].eof
        BY <1>4, <1>5, <1>7, <1>12, <2>2, <3>3
      <3>5. Progress(s)
        BY <1>1, <3>1 DEF WholeInv
      <3>6. "header" \in events'[q] <=> "header" \in events[q]
        BY <1>4, <1>5, <1>7
      <3>7. WholeOf(q, out'[q])
        <4>1. CASE Filtered(s)
          <5>1. WholeOf(q, out[q] \o bytes)
            <6>1. EndMishaps(slot.ctx, room) = {}
              BY <1>6, <3>2, <4>1
            <6> QED
              BY <1>1, <3>4, <3>5, <4>1, <6>1, LeftoverWhole DEF bytes
          <5> QED
            BY <1>7, <4>1, <5>1
        <4>2. CASE ~ Filtered(s)
          <5>1. out'[q] = out[q]
            BY <1>7, <4>2
          <5>2. CASE ~ SlotIsFor(s)
            <6>1. ends[q] # 0
              BY <3>4, <3>5, <5>2 DEF Progress
            <6>2. ends[q] > 0
              BY <1>2, <6>1 DEF EsiInv, Typed, TypeOK
            <6>3. Complete(q)
              BY <3>5, <6>2 DEF Progress
            <6> QED
              BY <5>1, <6>3 DEF Complete, WholeOf
          <5>3. CASE SlotIsFor(s)
            <6>1. slot.ctx = NoCtx
              BY <4>2, <5>3 DEF Filtered
            <6>2. /\ Unfiltered(q)
                  /\ Range(out[q]) = Range(Between(ReadingOf(q), 0, Len(reqs[q].page)))
              BY <3>4, <3>5, <5>3, <6>1 DEF Progress, PageLength
            <6> DEFINE y == out[q]
                       N == Len(reqs[q].page)
            <6>3. Range(y) = Range(Between(ReadingOf(q), 0, N)) /\ N = Len(reqs[q].page)
              BY <6>2
            <6> HIDE DEF y, N
            <6>4. WholeOf(q, y)
              BY <1>2, <6>2, <6>3, UnfilteredWhole DEF EsiInv
            <6> QED
              BY <5>1, <6>4 DEF y
          <5> QED
            BY <5>2, <5>3
        <4> QED
          BY <4>1, <4>2
      <3>8. /\ WholeOf(p, out'[p]) /\ reqs'[p] = reqs[p]
            /\ "header" \in events'[p] <=> "header" \in events[p]
        BY <1>1, <2>2, <3>6, <3>7
      <3>9. \A i : Kept(p, i)' <=> Kept(p, i)
        BY <3>8 DEF Kept
      <3> QED
        BY <3>8, <3>9 DEF Complete, WholeOf
    <2> QED
      BY <2>1, <2>2
  <1>13. AllFinished'
    <2>1. \A p \in Requests : p > seq' => events'[p] = {}
      <3> TAKE p \in Requests
      <3> HAVE p > seq'
      <3>1. p > seq /\ p # q
        BY <1>1, <1>2 DEF Requests
      <3> QED
        BY <1>7, <3>1 DEF WholeInv, AllFinished
    <2>2. \A t \in Sessions : Live(t)' => "finished" \notin events'[resp'[t].req]
      BY <1>8, <1>9 DEF WholeInv, AllFinished
    <2> QED
      BY <1>12, <2>1, <2>2 DEF AllFinished, Clean
  <1> QED
    BY <1>11, <1>13 DEF WholeInv

\* A new request.
LEMMA UriMapWhole ==
  ASSUME EsiInv, WholeInv, NEW s \in Sessions, NEW on \in BOOLEAN, NEW marker \in BOOLEAN,
         seq < MaxRequests, NEW page \in Pages[seq + 1], UriMap(s, page, on, marker)
  PROVE  WholeInv'
  <1> DEFINE q == seq + 1
             new == [page |-> page, on |-> on, marker |-> marker]
             others == {resp[t].req : t \in {t \in Sessions \ {s} : Live(t)}}
  <1>1. /\ resp \in [Sessions -> [req : 0 .. seq, fed : Nat, eof : BOOLEAN, buffered : BOOLEAN]]
        /\ events \in [Requests -> SUBSET Events] /\ reqs \in Seq(Requested)
        /\ slot.req \in 0 .. seq
    BY DEF EsiInv, Typed, TypeOK
  <1>2. seq \in Nat /\ q \in Nat /\ q \in Requests /\ MaxRequests \in Nat
    BY <1>1, LenProperties DEF seq, Requests
  <1>3. /\ reqs' = Append(reqs, new) /\ resp' = [resp EXCEPT ![s] = [Idle EXCEPT !.req = q]]
        /\ cache' = [session |-> s, req |-> q]
        /\ slot' = slot /\ out' = out /\ ends' = ends
    BY DEF UriMap
  <1>4. new \in Requested /\ page \in Seq(Kinds)
    BY <1>2 DEF Requested, Requests
  <1>5. /\ seq' = q /\ reqs'[q] = new
        /\ \A p \in 1 .. seq : reqs'[p] = reqs[p]
    <2> HIDE DEF new
    <2>1. Len(reqs) = seq
      BY DEF seq
    <2>2. Append(reqs, new) \in Seq(Requested) /\ Len(Append(reqs, new)) = Len(reqs) + 1
          /\ \A p \in 1 .. Len(reqs) : Append(reqs, new)[p] = reqs[p]
          /\ Append(reqs, new)[Len(reqs) + 1] = new
      BY <1>1, <1>4, AppendProperties
    <2>3. seq' = Len(reqs')
      BY DEF seq
    <2> QED
      BY <1>3, <2>1, <2>2, <2>3
  <1>6. /\ resp'[s].req = q /\ resp'[s].fed = 0 /\ ~ resp'[s].eof /\ ~ resp'[s].buffered
        /\ \A t \in Sessions : t # s => resp'[t] = resp[t]
    BY <1>1, <1>3 DEF Idle
  <1>7. ~ SlotIsFor(s)'
    BY <1>1, <1>2, <1>3, <1>5 DEF SlotIsFor
  <1>8. \A t \in Sessions : Live(t)' /\ t # s => Live(t) /\ resp[t].req \in others
    BY <1>6 DEF Live
  <1>9. events' = IF others = {}
                    THEN events
                    ELSE [p \in Requests |->
                            IF p \in others \cup {q} THEN events[p] \cup {"shared"} ELSE events[p]]
    BY DEF UriMap
  <1>10. \A p \in others : p \in 1 .. seq
    <2> TAKE p \in others
    <2>1. PICK t \in Sessions : Live(t) /\ p = resp[t].req
      OBVIOUS
    <2> QED
      BY <2>1, LiveFacts DEF EsiInv
  <1>11. page \in Seq(Kinds) /\ new.page = page
    BY <1>4
  <1> HIDE DEF new, others
  <1>12. ASSUME others # {}
         PROVE  /\ "shared" \in events'[q] /\ \A p \in others : "shared" \in events'[p]
    <2>1. \A p \in others : p \in Requests
      BY <1>2, <1>10 DEF Requests
    <2> QED
      BY <1>2, <1>9, <1>12, <2>1
  <1>13. \A p \in Requests : events'[p] = events[p] \/ "shared" \in events'[p]
    BY <1>9
  <1>14. \A p \in Requests : "finished" \in events'[p] => "finished" \in events[p]
    BY <1>9
  <1>15. \A p \in Requests : p > q => events'[p] = events[p]
    <2> TAKE p \in Requests
    <2> HAVE p > q
    <2>1. p \notin others \cup {q}
      BY <1>2, <1>10
    <2> QED
      BY <1>9, <2>1
  <1>16. \A p \in Requests : p > seq => events[p] = {}
    BY DEF WholeInv, AllFinished
  <1>17. ASSUME NEW t \in Sessions, Live(t)', events'[resp'[t].req] \subseteq {"header", "finished"}
         PROVE  t = s /\ others = {}
    <2>1. others = {}
      <3>1. SUFFICES ASSUME others # {} PROVE FALSE
        OBVIOUS
      <3>2. resp'[t].req \in others \cup {q}
        BY <1>6, <1>8, <1>17
      <3>3. "shared" \in events'[resp'[t].req]
        BY <1>12, <3>1, <3>2
      <3> QED
        BY <1>17, <3>3
    <2> QED
      BY <1>8, <1>17, <2>1
  <1>18. Lone'
    <2>1. ASSUME NEW t \in Sessions, Live(t)',
                 events'[resp'[t].req] \subseteq {"header", "finished"}
          PROVE  resp'[t].req = seq' /\ \A u \in Sessions : Live(u)' => u = t
      BY <1>5, <1>6, <1>8, <1>17, <2>1
    <2> QED
      BY <2>1 DEF Lone, Clean
  <1>19. AllFinished'
    <2>1. ASSUME NEW p \in Requests, "finished" \in events'[p],
                 events'[p] \subseteq {"header", "finished"}
          PROVE  Complete(p)'
      <3>1. events'[p] = events[p]
        BY <1>13, <2>1
      <3>2. p \in 1 .. seq
        BY <1>2, <1>16, <2>1, <3>1 DEF Requests
      <3>3. reqs'[p] = reqs[p] /\ out'[p] = out[p]
        BY <1>3, <1>5, <3>2
      <3>4. Complete(p)
        BY <2>1, <3>1 DEF WholeInv, AllFinished, Clean
      <3> QED
        BY <3>1, <3>3, <3>4, CompleteStays
    <2>2. \A p \in Requests : p > seq' => events'[p] = {}
      <3> TAKE p \in Requests
      <3> HAVE p > seq'
      <3>1. p > q /\ p > seq
        BY <1>2, <1>5 DEF Requests
      <3> QED
        BY <1>15, <1>16, <3>1
    <2>3. ASSUME NEW t \in Sessions, Live(t)' PROVE "finished" \notin events'[resp'[t].req]
      <3>1. CASE t = s
        <4>1. events[q] = {}
          BY <1>2, <1>16
        <4> QED
          BY <1>2, <1>6, <1>14, <3>1, <4>1
      <3>2. CASE t # s
        <4>1. Live(t) /\ resp'[t] = resp[t]
          BY <1>6, <1>8, <2>3, <3>2
        <4>2. resp[t].req \in Requests /\ "finished" \notin events[resp[t].req]
          BY <4>1, LiveFacts DEF EsiInv, WholeInv, AllFinished
        <4> QED
          BY <1>14, <4>1, <4>2
      <3> QED
        BY <3>1, <3>2
    <2> QED
      BY <2>1, <2>2, <2>3 DEF AllFinished, Clean
  <1>20. ASSUME others = {} PROVE Progress(s)'
    <2>1. events'[q] = {} /\ out'[q] = <<>> /\ ends'[q] = 0
      BY <1>2, <1>3, <1>9, <1>16, <1>20 DEF EsiInv, Fresh
    <2>2. PageLength(s)' = Len(reqs'[resp'[s].req].page)
      BY DEF PageLength
    <2>3. PageLength(s)' \in Nat
      <3>1. reqs'[resp'[s].req].page = page
        BY <1>5, <1>6, <1>11
      <3> QED
        BY <1>11, <2>2, <3>1, LenProperties
    <2>4. resp'[s].fed <= PageLength(s)'
      BY <1>6, <2>3
    <2>5. CacheIsFor(s)'
      <3>1. cache'.session = s /\ cache'.req = seq'
        BY <1>3, <1>5
      <3> QED
        BY <3>1 DEF CacheIsFor
    <2>6. /\ events'[resp'[s].req] = {} /\ out'[resp'[s].req] = <<>> /\ ends'[resp'[s].req] = 0
      BY <1>6, <2>1
    <2> QED
      BY <1>6, <1>7, <2>4, <2>5, <2>6 DEF Progress
  <1>21. \A t \in Sessions : (Live(t) /\ Clean(resp[t].req))' => Progress(t)'
    <2>1. ASSUME NEW t \in Sessions, Live(t)',
                 events'[resp'[t].req] \subseteq {"header", "finished"}
          PROVE  Progress(t)'
      <3>1. t = s /\ others = {}
        BY <1>17, <2>1
      <3> QED
        BY <1>20, <3>1
    <2> QED
      BY <2>1 DEF Clean
  <1> QED
    BY <1>18, <1>19, <1>21 DEF WholeInv

\* The header hook drops the directives.
LEMMA SendRespHeaderWhole ==
  ASSUME EsiInv, WholeInv, NEW s \in Sessions, SendRespHeader(s)
  PROVE  WholeInv'
  <1> DEFINE q == resp[s].req
             early == ~ SlotIsFor(s) /\ ~ (resp[s].fed > 0)
             what == IF SlotIsFor(s) \/ resp[s].fed > 0 THEN {} ELSE {"header"}
  <1>1. /\ Live(s) /\ CacheIsFor(s) /\ cache' = [session |-> NoSession, req |-> 0]
        /\ reqs' = reqs /\ resp' = resp /\ slot' = slot /\ out' = out /\ ends' = ends
        /\ seq' = seq
    BY DEF SendRespHeader, seq
  <1>2. /\ q \in 1 .. seq /\ q \in Requests /\ seq \in Nat /\ resp[s].fed \in Nat
        /\ events \in [Requests -> SUBSET Events] /\ ends \in [Requests -> Nat]
        /\ reqs[q] \in Requested
    BY <1>1, LiveFacts DEF EsiInv, Typed, TypeOK
  <1>3. events' = [events EXCEPT ![q] = events[q] \cup what]
    BY DEF SendRespHeader, Happened
  <1>4. /\ what \subseteq {"header"} /\ (early => what = {"header"}) /\ (~ early => what = {})
    OBVIOUS
  <1> HIDE DEF what, early
  <1>5. /\ events'[q] = events[q] \cup what
        /\ \A p \in Requests : p # q => events'[p] = events[p]
    BY <1>2, <1>3
  <1>6. /\ \A t \in Sessions : Live(t)' <=> Live(t)
        /\ \A t \in Sessions : SlotIsFor(t)' <=> SlotIsFor(t)
        /\ \A t \in Sessions : PageLength(t)' = PageLength(t)
        /\ \A t \in Sessions : ~ CacheIsFor(t)'
    BY <1>1 DEF Live, SlotIsFor, PageLength, CacheIsFor
  <1>7. \A p \in Requests : events'[p] \subseteq {"header", "finished"} => Clean(p)
    BY <1>4, <1>5 DEF Clean
  <1>8. Lone'
    <2>1. ASSUME NEW t \in Sessions, Live(t), events'[resp[t].req] \subseteq {"header", "finished"}
          PROVE  resp[t].req = seq /\ \A u \in Sessions : Live(u) => u = t
      <3>1. resp[t].req \in Requests
        BY <2>1, LiveFacts DEF EsiInv
      <3>2. Clean(resp[t].req)
        BY <1>7, <2>1, <3>1
      <3> QED
        BY <2>1, <3>2 DEF WholeInv, Lone
    <2> QED
      BY <1>1, <1>6, <2>1 DEF Lone, Clean
  <1>9. "finished" \notin events'[q] /\ "finished" \notin events[q]
    BY <1>1, <1>4, <1>5 DEF WholeInv, AllFinished
  <1>10. AllFinished'
    <2>1. ASSUME NEW p \in Requests, "finished" \in events'[p],
                 events'[p] \subseteq {"header", "finished"}
          PROVE  Complete(p)'
      <3>1. p # q
        BY <1>9, <2>1
      <3>2. events'[p] = events[p] /\ reqs'[p] = reqs[p] /\ out'[p] = out[p]
        BY <1>1, <1>5, <3>1
      <3>3. Complete(p)
        BY <2>1, <3>2 DEF WholeInv, AllFinished, Clean
      <3> QED
        BY <3>2, <3>3, CompleteStays
    <2>2. \A p \in Requests : p > seq' => events'[p] = {}
      <3> TAKE p \in Requests
      <3> HAVE p > seq'
      <3>1. p > seq /\ p # q
        BY <1>1, <1>2 DEF Requests
      <3> QED
        BY <1>5, <3>1 DEF WholeInv, AllFinished
    <2>3. ASSUME NEW t \in Sessions, Live(t) PROVE "finished" \notin events'[resp[t].req]
      <3>1. resp[t].req \in Requests /\ "finished" \notin events[resp[t].req]
        BY <2>3, LiveFacts DEF EsiInv, WholeInv, AllFinished
      <3> QED
        BY <1>5, <1>9, <3>1
    <2> QED
      BY <1>1, <1>6, <2>1, <2>2, <2>3 DEF AllFinished, Clean
  <1>11. ASSUME Clean(q) PROVE Progress(s)'
    <2>1. Progress(s)
      BY <1>1, <1>11 DEF WholeInv
    <2>2. "header" \notin events[q]
      BY <1>1, <2>1 DEF Progress
    <2>3. "header" \in events'[q] <=> early
      BY <1>4, <1>5, <2>2
    <2>4. /\ resp[s].fed <= PageLength(s) /\ (resp[s].eof => resp[s].fed = PageLength(s))
          /\ ~ SlotIsFor(s) /\ ends[q] = 0 =>
               resp[s].fed = 0 /\ out[q] = <<>> /\ ~ resp[s].eof /\ ~ resp[s].buffered
          /\ SlotIsFor(s) /\ slot.ctx = NoCtx =>
               Unfiltered(q) /\ Range(out[q]) = Range(Between(ReadingOf(q), 0, resp[s].fed))
          /\ SlotIsFor(s) /\ slot.ctx # NoCtx =>
               /\ \/ Steady(ReadingOf(q), resp[s].fed, out[q], slot.ctx)
                  \/ resp[s].eof /\ Flushed(ReadingOf(q), resp[s].fed, out[q], slot.ctx)
               /\ slot.ctx.subrequest = reqs[q].marker
          /\ ends[q] > 0 => Complete(q)
      BY <2>1 DEF Progress
    <2>5. early <=> ~ SlotIsFor(s) /\ resp[s].fed = 0
      BY <1>2 DEF early
    <2>6. /\ Unfiltered(q) => Unfiltered(q)'
          /\ early => Unfiltered(q)'
      BY <1>1, <2>2, <2>3 DEF Unfiltered
    <2>7. ASSUME ends[q] > 0 PROVE Complete(q)'
      <3>1. Complete(q)
        BY <2>4, <2>7
      <3>2. CASE ~ early
        <4>1. reqs'[q] = reqs[q] /\ out'[q] = out[q] /\ events'[q] = events[q]
          BY <1>1, <1>4, <1>5, <3>2
        <4>2. \A i : Kept(q, i)' <=> Kept(q, i)
          BY <1>1, <4>1 DEF Kept
        <4> QED
          BY <1>1, <3>1, <4>2 DEF Complete
      <3>3. CASE early
        <4>1. Len(reqs[q].page) = 0
          <5>1. resp[s].eof
            BY <1>1, <2>7 DEF EsiInv, Ended
          <5> QED
            BY <2>4, <2>5, <3>3, <5>1 DEF PageLength
        <4>2. DOMAIN reqs[q].page = {}
          BY <1>2, <4>1, LenProperties DEF Requested
        <4>3. Range(Positions(out[q])) = {} /\ Settled(out[q])
          BY <3>1, <4>2 DEF Complete
        <4> QED
          BY <1>1, <4>2, <4>3 DEF Complete
      <3> QED
        BY <3>2, <3>3
    <2>8. ReadingOf(q)' = ReadingOf(q)
      BY <1>1 DEF ReadingOf
    <2>9. /\ resp' = resp /\ out' = out /\ ends' = ends /\ slot' = slot /\ reqs' = reqs
          /\ (SlotIsFor(s)' <=> SlotIsFor(s)) /\ PageLength(s)' = PageLength(s)
          /\ ~ CacheIsFor(s)'
      BY <1>1, <1>6
    <2> QED
      BY <2>3, <2>4, <2>5, <2>6, <2>7, <2>8, <2>9 DEF Progress
  <1>12. \A t \in Sessions : (Live(t) /\ Clean(resp[t].req))' => Progress(t)'
    <2>1. ASSUME NEW t \in Sessions, Live(t), events'[resp[t].req] \subseteq {"header", "finished"}
          PROVE  Progress(t)'
      <3>1. resp[t].req \in Requests
        BY <2>1, LiveFacts DEF EsiInv
      <3>2. Clean(resp[t].req)
        BY <1>7, <2>1, <3>1
      <3>3. t = s
        BY <1>1, <2>1, <3>2 DEF WholeInv, Lone
      <3> QED
        BY <1>11, <3>2, <3>3
    <2> QED
      BY <1>1, <1>6, <2>1 DEF Clean
  <1> QED
    BY <1>8, <1>10, <1>12 DEF WholeInv

----------------------------------------------------------------------------
(***************************************************************************)
(* The invariant, and the theorem.                                         *)
(***************************************************************************)
LEMMA InitWhole == Init => WholeInv
  <1> SUFFICES ASSUME Init PROVE WholeInv
    OBVIOUS
  <1>1. /\ \A s \in Sessions : ~ Live(s)
        /\ \A q \in Requests : events[q] = {}
    BY DEF Init, Live, Idle
  <1> QED
    BY <1>1 DEF WholeInv, Lone, AllFinished

\* Every step keeps WholeInv.
LEMMA NextWhole ==
  ASSUME WellFormed, EsiInv, WholeInv, [Next]_vars
  PROVE  WholeInv'
  <1>1. ASSUME NEW s \in Sessions, NEW on \in BOOLEAN, NEW marker \in BOOLEAN,
               seq < MaxRequests, NEW page \in Pages[seq + 1], UriMap(s, page, on, marker)
        PROVE  WholeInv'
    BY <1>1, UriMapWhole
  <1>2. ASSUME NEW s \in Sessions, SendRespHeader(s) PROVE WholeInv'
    BY <1>2, SendRespHeaderWhole
  <1>3. ASSUME NEW s \in Sessions, NEW room \in Rooms, Live(s), NEW n \in 0 .. PageLength(s),
               Recv(s, n, room)
        PROVE  WholeInv'
    <2>1. room \in Nat /\ n \in Nat
      BY <1>3, Amounts
    <2>2. ASSUME NEW eof \in BOOLEAN, Forward(s, n, eof, room) PROVE WholeInv'
      BY <2>1, <2>2, ForwardWhole
    <2>3. ASSUME NEW eof \in BOOLEAN, StillBlocked(s, n, eof, room) PROVE WholeInv'
      BY <2>1, <2>3, StillBlockedWhole
    <2>4. CASE Hold(s, n, room)
      BY <2>1, <2>4, HoldWhole
    <2>5. CASE Stream(s, n, room)
      BY <2>1, <2>5, StreamWhole
    <2>6. CASE EndHeld(s, n, room)
      BY <2>1, <2>6, EndHeldWhole
    <2>7. CASE EndStream(s, n, room)
      BY <2>1, <2>7, EndStreamWhole
    <2> QED
      BY <1>3, <2>2, <2>3, <2>4, <2>5, <2>6, <2>7 DEF Recv
  <1>4. ASSUME NEW s \in Sessions, NEW room \in Rooms, Rcvd(s, room) PROVE WholeInv'
    <2>1. room \in Nat
      OBVIOUS
    <2> QED
      BY <1>4, <2>1, RcvdWhole
  <1>5. CASE UNCHANGED vars
    <2>1. /\ reqs' = reqs /\ resp' = resp /\ cache' = cache /\ slot' = slot
          /\ out' = out /\ ends' = ends /\ events' = events /\ seq' = seq
      BY <1>5 DEF vars, seq
    <2>2. /\ \A t \in Sessions : Live(t)' <=> Live(t)
          /\ \A t \in Sessions : Clean(resp[t].req)' <=> Clean(resp[t].req)
          /\ \A p : Clean(p)' <=> Clean(p)
      BY <2>1 DEF Live, Clean
    <2>3. \A p : Complete(p)' <=> Complete(p)
      BY <2>1 DEF Complete, Kept
    <2>4. \A t \in Sessions : Progress(t) => Progress(t)'
      BY <2>1, <2>3 DEF Progress, PageLength, SlotIsFor, CacheIsFor, Unfiltered, ReadingOf,
                        Complete, Kept
    <2>5. Lone' /\ AllFinished'
      BY <2>1, <2>2, <2>3 DEF WholeInv, Lone, AllFinished
    <2> QED
      BY <2>2, <2>4, <2>5 DEF WholeInv
  <1> QED
    BY <1>1, <1>2, <1>3, <1>4, <1>5 DEF Next

\* WholeInv holds of every state.
LEMMA AlwaysWhole ==
  ASSUME WellFormed
  PROVE  Spec => []WholeInv
  <1>1. EsiInv /\ WholeInv /\ [Next]_vars => WholeInv'
    BY NextWhole
  <1> QED
    BY <1>1, InitWhole, AlwaysInv, PTL DEF Spec

(***************************************************************************)
(* A client gets the whole page, however it is cut into chunks and however *)
(* slow the network is, if the tags of the page are well formed and none   *)
(* of the history's exceptions happened to the response.                   *)
(***************************************************************************)
THEOREM WholePageSent ==
  ASSUME WellFormed
  PROVE  Spec => []WholePage
  <1>1. ASSUME EsiInv, WholeInv PROVE WholePage
    <2>1. ASSUME NEW q \in Requests, events[q] \ {"header"} = {"finished"}
          PROVE  /\ InOrder(q)
                 /\ Range(Positions(out[q])) = {i \in DOMAIN reqs[q].page : Kept(q, i)}
                 /\ \A i \in DOMAIN out[q] : out[q][i].kind \notin {"dyn", "gone"}
      <3>1. "gave up" \notin events[q] /\ "finished" \in events[q] /\ Clean(q)
        <4>1. \A x : (x \in events[q] /\ x # "header") <=> x = "finished"
          <5>1. \A x : x \in events[q] \ {"header"} <=> x \in {"finished"}
            BY <2>1, Zenon
          <5> QED
            BY <5>1
        <4>2. "finished" \in events[q]
          BY <4>1, Zenon
        <4>3. "gave up" # "finished" /\ "gave up" # "header"
          OBVIOUS
        <4>4. "gave up" \notin events[q]
          BY <4>1, <4>3, Zenon
        <4>5. Clean(q)
          BY <4>1 DEF Clean
        <4> QED
          BY <4>2, <4>4, <4>5
      <3>2. Chain("order", out[q])
        BY <1>1, <3>1, TwoWays DEF EsiInv, InOrderSoFar, Allows
      <3>3. InOrder(q)
        BY <3>2 DEF Chain, InOrder
      <3>4. Complete(q)
        BY <1>1, <3>1 DEF WholeInv, AllFinished
      <3> QED
        BY <3>3, <3>4 DEF Complete, Settled, Range
    <2> QED
      BY <2>1 DEF WholePage
  <1> QED
    BY <1>1, AlwaysInv, AlwaysWhole, PTL
=============================================================================
