--------------------------- MODULE ParserProofs ---------------------------
(***************************************************************************)
(* Proofs about Parser, for any set of lines and any depths of its stacks: *)
(* whatever the text.                                                      *)
(***************************************************************************)
EXTENDS Parser, SequenceTheorems, TLAPS

USE ParserAssumption

\* A sequence, of whatever.
IsSeq(k) == \E X : k \in Seq(X)

\* The places a directive may go to.
Places == Slots \cup {"top", "ifs", "ifmod"}

(***************************************************************************)
(* What is true of the parser's variables.  An IfModule has saved a depth  *)
(* of the stack of Ifs that the stack can have.                            *)
(***************************************************************************)
Shape(s) ==
  s = [top |-> s.top, fm |-> s.fm, files |-> s.files, any |-> s.any, all |-> s.all,
       limit |-> s.limit, innermost |-> s.innermost, ifmod |-> s.ifmod, ifs |-> s.ifs,
       conds |-> s.conds, skip |-> s.skip]

FrameOK(f) ==
  /\ f = [arg |-> f.arg, kids |-> f.kids, saved |-> f.saved]
  /\ f.saved.ifs \in Nat /\ f.saved.ifs <= MAX_IF_DEPTH

IfModulesOK(k) ==
  /\ IsSeq(k) /\ Len(k) <= MAX_IFMODULE_DEPTH
  /\ \A i \in 1 .. Len(k) : FrameOK(k[i])

IfsOK(k) == IsSeq(k) /\ Len(k) <= MAX_IF_DEPTH

StateOK(s) ==
  /\ Shape(s)
  /\ IfModulesOK(s.ifmod)
  /\ IfsOK(s.ifs)
  /\ s.skip \in Nat
  /\ s.innermost \in {"none", "any", "all"}

-----------------------------------------------------------------------------
(***************************************************************************)
(* Sequences of whatever.                                                  *)
(***************************************************************************)
\* The length and the empty sequence.
LEMMA SeqBasics ==
  ASSUME NEW k, IsSeq(k)
  PROVE  Len(k) \in Nat /\ (k # <<>> => Len(k) > 0) /\ IsSeq(<<>>) /\ Len(<<>>) = 0
  BY DEF IsSeq

\* An element is put at the end.
LEMMA SeqAppend ==
  ASSUME NEW k, IsSeq(k), NEW v
  PROVE  /\ IsSeq(Append(k, v)) /\ Len(Append(k, v)) = Len(k) + 1
         /\ \A i \in 1 .. Len(k) : Append(k, v)[i] = k[i]
         /\ Append(k, v)[Len(k) + 1] = v
  <1>1. PICK X : k \in Seq(X)
    BY DEF IsSeq
  <1>2. k \in Seq(X \cup {v}) /\ v \in X \cup {v}
    BY <1>1
  <1>3. Append(k, v) \in Seq(X \cup {v})
    BY <1>2
  <1> QED
    BY <1>2, <1>3 DEF IsSeq

\* The last element is replaced.
Replaced(k, v) == [k EXCEPT ![Len(k)] = v]

\* It stays a sequence of the same length.
LEMMA SeqReplace ==
  ASSUME NEW k, IsSeq(k), NEW v
  PROVE  /\ IsSeq(Replaced(k, v)) /\ Len(Replaced(k, v)) = Len(k)
         /\ \A i \in 1 .. Len(k) :
              /\ i # Len(k) => Replaced(k, v)[i] = k[i]
              /\ i = Len(k) => Replaced(k, v)[i] = v
  <1>1. PICK X : k \in Seq(X)
    BY DEF IsSeq
  <1>2. k \in Seq(X \cup {v}) /\ v \in X \cup {v}
    BY <1>1
  <1> DEFINE r == Replaced(k, v)
  <1>3. k \in [1 .. Len(k) -> X \cup {v}] /\ Len(k) \in Nat
    BY <1>2, LenProperties
  <1>4. r \in [1 .. Len(k) -> X \cup {v}]
    BY <1>2, <1>3 DEF Replaced
  <1>5. r \in Seq(X \cup {v})
    BY <1>3, <1>4, SeqDef
  <1>6. Len(r) = Len(k)
    BY <1>3, <1>4, <1>5, LenProperties
  <1> QED
    BY <1>3, <1>5, <1>6 DEF IsSeq, Replaced

\* The first elements are kept.
LEMMA SeqPrefix ==
  ASSUME NEW k, IsSeq(k), NEW n \in Nat, n <= Len(k)
  PROVE  /\ IsSeq(SubSeq(k, 1, n)) /\ Len(SubSeq(k, 1, n)) = n
         /\ \A i \in 1 .. n : SubSeq(k, 1, n)[i] = k[i]
  <1>1. PICK X : k \in Seq(X)
    BY DEF IsSeq
  <1>2. SubSeq(k, 1, n) \in Seq(X)
    BY <1>1
  <1> QED
    BY <1>1, <1>2 DEF IsSeq

\* All but the last.
LEMMA SeqFront ==
  ASSUME NEW k, IsSeq(k), k # <<>>
  PROVE  /\ IsSeq(Front(k)) /\ Len(Front(k)) = Len(k) - 1
         /\ \A i \in 1 .. Len(k) - 1 : Front(k)[i] = k[i]
  <1>1. Len(k) - 1 \in Nat /\ Len(k) - 1 <= Len(k)
    BY SeqBasics
  <1>2. Front(k) = SubSeq(k, 1, Len(k) - 1)
    BY DEF Front
  <1> HIDE DEF Front
  <1> QED
    BY <1>1, <1>2, SeqPrefix

\* The smaller of two numbers.
LEMMA MinOfTwo ==
  ASSUME NEW a \in Nat, NEW b \in Nat
  PROVE  Min({a, b}) \in Nat /\ Min({a, b}) <= a /\ Min({a, b}) <= b
  BY DEF Min

\* The smallest of up to eight.
LEMMA MinOfEight ==
  ASSUME NEW S \in SUBSET (1 .. 8), S # {}
  PROVE  Min(S) \in S /\ \A i \in S : Min(S) <= i
  <1>1. \E x \in S : \A y \in S : x <= y
    <2>1. CASE 1 \in S
      BY <2>1
    <2>2. CASE 1 \notin S /\ 2 \in S
      BY <2>2
    <2>3. CASE 1 \notin S /\ 2 \notin S /\ 3 \in S
      BY <2>3
    <2>4. CASE 1 \notin S /\ 2 \notin S /\ 3 \notin S /\ 4 \in S
      BY <2>4
    <2>5. CASE 1 \notin S /\ 2 \notin S /\ 3 \notin S /\ 4 \notin S /\ 5 \in S
      BY <2>5
    <2>6. CASE 1 \notin S /\ 2 \notin S /\ 3 \notin S /\ 4 \notin S /\ 5 \notin S /\ 6 \in S
      BY <2>6
    <2>7. CASE 1 \notin S /\ 2 \notin S /\ 3 \notin S /\ 4 \notin S /\ 5 \notin S /\ 6 \notin S /\ 7 \in S
      BY <2>7
    <2>8. CASE 1 \notin S /\ 2 \notin S /\ 3 \notin S /\ 4 \notin S /\ 5 \notin S /\ 6 \notin S /\ 7 \notin S /\ 8 \in S
      BY <2>8
    <2>9. \E x \in S : x \in 1 .. 8
      OBVIOUS
    <2>10. \E x \in S : x = 1 \/ x = 2 \/ x = 3 \/ x = 4 \/ x = 5 \/ x = 6 \/ x = 7 \/ x = 8
      BY <2>9
    <2> QED
      BY <2>1, <2>2, <2>3, <2>4, <2>5, <2>6, <2>7, <2>8, <2>10
  <1> QED
    BY <1>1 DEF Min

-----------------------------------------------------------------------------
(***************************************************************************)
(* One field of the state changes.                                         *)
(***************************************************************************)
\* What is in a slot, or at the top, or waits, is of no account here.
With(s, c, v) == [s EXCEPT ![c] = v]

\* So the state stays as it should be.
LEMMA FreeField ==
  ASSUME NEW s, StateOK(s), NEW c \in Slots \cup {"top", "conds"}, NEW v
  PROVE  /\ StateOK(With(s, c, v))
         /\ c # "top" => With(s, c, v).top = s.top
  <1> DEFINE r == With(s, c, v)
  <1>1. DOMAIN s = {"top", "fm", "files", "any", "all", "limit", "innermost", "ifmod", "ifs",
                    "conds", "skip"}
    BY DEF StateOK, Shape
  <1>2. r = [f \in DOMAIN s |-> IF f = c THEN v ELSE s[f]]
    BY <1>1 DEF With
  <1>3. /\ r.ifmod = s.ifmod /\ r.ifs = s.ifs /\ r.skip = s.skip /\ r.innermost = s.innermost
        /\ c # "top" => r.top = s.top
    BY <1>1, <1>2 DEF Slots
  <1>4. Shape(r)
    BY <1>1, <1>2 DEF Shape
  <1> QED
    BY <1>3, <1>4 DEF StateOK

\* The count of skipped blocks.
LEMMA CountFields ==
  ASSUME NEW s, StateOK(s), NEW n \in Nat
  PROVE  StateOK([s EXCEPT !.skip = n]) /\ [s EXCEPT !.skip = n].top = s.top
  BY DEF StateOK, Shape

\* The stacks.
LEMMA StackIfs ==
  ASSUME NEW s, StateOK(s), NEW k, IfsOK(k)
  PROVE  StateOK(With(s, "ifs", k)) /\ With(s, "ifs", k).top = s.top
  <1> DEFINE r == With(s, "ifs", k)
  <1>1. DOMAIN s = {"top", "fm", "files", "any", "all", "limit", "innermost", "ifmod", "ifs",
                    "conds", "skip"}
    BY DEF StateOK, Shape
  <1>2. r = [f \in DOMAIN s |-> IF f = "ifs" THEN k ELSE s[f]]
    BY <1>1 DEF With
  <1>3. /\ r.ifs = k /\ r.ifmod = s.ifmod /\ r.skip = s.skip /\ r.innermost = s.innermost /\ r.top = s.top
    BY <1>1, <1>2
  <1>4. Shape(r)
    BY <1>1, <1>2 DEF Shape
  <1> QED
    BY <1>3, <1>4 DEF StateOK

\* The same of the IfModules.
LEMMA StackIfModules ==
  ASSUME NEW s, StateOK(s), NEW k, IfModulesOK(k)
  PROVE  StateOK(With(s, "ifmod", k)) /\ With(s, "ifmod", k).top = s.top
  <1> DEFINE r == With(s, "ifmod", k)
  <1>1. DOMAIN s = {"top", "fm", "files", "any", "all", "limit", "innermost", "ifmod", "ifs",
                    "conds", "skip"}
    BY DEF StateOK, Shape
  <1>2. r = [f \in DOMAIN s |-> IF f = "ifmod" THEN k ELSE s[f]]
    BY <1>1 DEF With
  <1>3. /\ r.ifmod = k /\ r.ifs = s.ifs /\ r.skip = s.skip /\ r.innermost = s.innermost /\ r.top = s.top
    BY <1>1, <1>2
  <1>4. Shape(r)
    BY <1>1, <1>2 DEF Shape
  <1> QED
    BY <1>3, <1>4 DEF StateOK

\* Which Require container is innermost.
LEMMA InnermostField ==
  ASSUME NEW s, StateOK(s), NEW k, k \in {"none", "any", "all"}
  PROVE  StateOK(With(s, "innermost", k)) /\ With(s, "innermost", k).top = s.top
  <1> DEFINE r == With(s, "innermost", k)
  <1>1. DOMAIN s = {"top", "fm", "files", "any", "all", "limit", "innermost", "ifmod", "ifs",
                    "conds", "skip"}
    BY DEF StateOK, Shape
  <1>2. r = [f \in DOMAIN s |-> IF f = "innermost" THEN k ELSE s[f]]
    BY <1>1 DEF With
  <1>3. /\ r.innermost = k /\ r.ifs = s.ifs /\ r.ifmod = s.ifmod /\ r.skip = s.skip /\ r.top = s.top
    BY <1>1, <1>2
  <1>4. Shape(r)
    BY <1>1, <1>2 DEF Shape
  <1> QED
    BY <1>3, <1>4 DEF StateOK

-----------------------------------------------------------------------------
(***************************************************************************)
(* Where a directive goes, and that it does no harm there.                 *)
(***************************************************************************)
\* An order ends with the top, which is always open: there is a first one.
LEMMA FirstOpenPlace ==
  ASSUME NEW s, NEW order \in Seq(Places), Len(order) \in 1 .. 8, order[Len(order)] = "top"
  PROVE  FirstOpen(s, order) \in Places
  <1> DEFINE T == {i \in 1 .. Len(order) : IsOpen(s, order[i])}
  <1>0. IsOpen(s, "top")
    BY DEF IsOpen
  <1>a. IsOpen(s, order[Len(order)])
    BY <1>0, Zenon
  <1>b. \A n \in 1 .. 8 : n \in 1 .. n
    OBVIOUS
  <1>1. Len(order) \in T
    BY <1>a, <1>b, Zenon
  <1>2. T \in SUBSET (1 .. 8) /\ T # {}
    BY <1>1
  <1>3. Min(T) \in T
    BY <1>2, MinOfEight
  <1>4. order[Min(T)] \in Places
    BY <1>3, ElementOfSeq
  <1> QED
    BY <1>4 DEF FirstOpen

\* The orders of the code.
LEMMA OrdersPlace ==
  ASSUME NEW s
  PROVE  /\ FirstOpen(s, Nested) \in Places
         /\ FirstOpen(s, FilesOrder) \in Places
         /\ FirstOpen(s, <<"ifs", "all", "files", "fm", "limit", "ifmod", "top">>) \in Places
         /\ FirstOpen(s, <<"ifs", "any", "files", "fm", "limit", "ifmod", "top">>) \in Places
         /\ FirstOpen(s, <<"ifs", "fm", "files", "ifmod", "top">>) \in Places
  <1>1. /\ Nested \in Seq(Places) /\ Len(Nested) \in 1 .. 8 /\ Nested[Len(Nested)] = "top"
    BY DEF Nested, Places, Slots
  <1>2. /\ FilesOrder \in Seq(Places) /\ Len(FilesOrder) \in 1 .. 8 /\ FilesOrder[Len(FilesOrder)] = "top"
    BY DEF FilesOrder, Places, Slots
  <1> DEFINE a == <<"ifs", "all", "files", "fm", "limit", "ifmod", "top">>
             b == <<"ifs", "any", "files", "fm", "limit", "ifmod", "top">>
             c == <<"ifs", "fm", "files", "ifmod", "top">>
  <1>3. a \in Seq(Places) /\ Len(a) \in 1 .. 8 /\ a[Len(a)] = "top"
    BY DEF Places, Slots
  <1>4. b \in Seq(Places) /\ Len(b) \in 1 .. 8 /\ b[Len(b)] = "top"
    BY DEF Places, Slots
  <1>5. c \in Seq(Places) /\ Len(c) \in 1 .. 8 /\ c[Len(c)] = "top"
    BY DEF Places, Slots
  <1> HIDE DEF a, b, c
  <1>6. FirstOpen(s, Nested) \in Places
    BY <1>1, FirstOpenPlace
  <1>7. FirstOpen(s, FilesOrder) \in Places
    BY <1>2, FirstOpenPlace
  <1>8. FirstOpen(s, a) \in Places
    BY <1>3, FirstOpenPlace
  <1>9. FirstOpen(s, b) \in Places
    BY <1>4, FirstOpenPlace
  <1>10. FirstOpen(s, c) \in Places
    BY <1>5, FirstOpenPlace
  <1> QED
    BY <1>6, <1>7, <1>8, <1>9, <1>10 DEF a, b, c

\* A frame that takes another child.
LEMMA FrameKid ==
  ASSUME NEW f, FrameOK(f), NEW v
  PROVE  FrameOK([f EXCEPT !.kids = v])
  BY DEF FrameOK

\* A child of the innermost If, or of the innermost IfModule.
LEMMA AddKidOK ==
  ASSUME NEW k, NEW d
  PROVE  /\ IfsOK(k) => IfsOK(AddKid(k, d))
         /\ IfModulesOK(k) => IfModulesOK(AddKid(k, d))
  <1> DEFINE e == [k[Len(k)] EXCEPT !.kids = Append(k[Len(k)].kids, d)]
  <1>1. AddKid(k, d) = Replaced(k, e)
    BY DEF AddKid, Replaced
  <1>2. FrameOK(k[Len(k)]) => FrameOK(e)
    BY FrameKid
  <1> HIDE DEF e
  <1>3. IsSeq(k) =>
          /\ IsSeq(AddKid(k, d)) /\ Len(AddKid(k, d)) = Len(k)
          /\ \A i \in 1 .. Len(k) : AddKid(k, d)[i] \in {e, k[i]} /\ (i = Len(k) => AddKid(k, d)[i] = e)
    BY <1>1, SeqReplace
  <1>4. IfModulesOK(k) => \A i \in 1 .. Len(k) : FrameOK(AddKid(k, d)[i])
    BY <1>2, <1>3 DEF IfModulesOK
  <1> QED
    BY <1>3, <1>4 DEF IfsOK, IfModulesOK

\* Anywhere: and only at the top it becomes a directive of the directory.
LEMMA AddToOK ==
  ASSUME NEW s, StateOK(s), NEW c \in Places, NEW d
  PROVE  StateOK(AddTo(s, c, d)) /\ (c # "top" => AddTo(s, c, d).top = s.top)
  <1>1. CASE c = "top"
    <2>1. AddTo(s, c, d) = With(s, c, Append(s.top, d))
      BY <1>1 DEF AddTo, With
    <2> QED
      BY <1>1, <2>1, FreeField
  <1>2. CASE c = "ifs"
    <2>1. AddTo(s, c, d) = With(s, "ifs", AddKid(s.ifs, d))
      BY <1>2 DEF AddTo, With
    <2>2. IfsOK(AddKid(s.ifs, d))
      BY AddKidOK DEF StateOK
    <2> QED
      BY <1>2, <2>1, <2>2, StackIfs
  <1>3. CASE c = "ifmod"
    <2>1. AddTo(s, c, d) = With(s, "ifmod", AddKid(s.ifmod, d))
      BY <1>3 DEF AddTo, With
    <2>2. IfModulesOK(AddKid(s.ifmod, d))
      BY AddKidOK DEF StateOK
    <2> QED
      BY <1>3, <2>1, <2>2, StackIfModules
  <1>4. CASE c \in Slots
    <2> DEFINE v == [s[c] EXCEPT !.kids = Append(s[c].kids, d)]
    <2>1. AddTo(s, c, d) = With(s, c, v)
      BY <1>4 DEF AddTo, With, Slots
    <2> HIDE DEF v
    <2> QED
      BY <1>4, <2>1, FreeField
  <1> QED
    BY <1>1, <1>2, <1>3, <1>4 DEF Places

\* Conditions that wait are dropped; then what is put somewhere.
LEMMA NoCondsOK ==
  ASSUME NEW s, StateOK(s)
  PROVE  StateOK(NoConds(s)) /\ NoConds(s).top = s.top
  <1>1. NoConds(s) = With(s, "conds", <<>>)
    BY DEF NoConds, With
  <1> QED
    BY <1>1, FreeField

\* A container that is shut and put where it belongs, in one of the orders.
LEMMA PutOK ==
  ASSUME NEW s, StateOK(s), NEW order, FirstOpen(s, order) \in Places, NEW d
  PROVE  StateOK(Put(s, order, d)) /\ StateOK(NoConds(Put(s, order, d)))
  BY AddToOK, NoCondsOK DEF Put

-----------------------------------------------------------------------------
(***************************************************************************)
(* The handlers.                                                           *)
(***************************************************************************)
\* Skipping: the count goes up, or down when it is not zero.
LEMMA SkippedOK ==
  ASSUME NEW s, StateOK(s), s.skip > 0, NEW l
  PROVE  StateOK(Skipped(s, l)) /\ Skipped(s, l).top = s.top
  <1> DEFINE n == IF IfOpen(l) \/ ElseIfOpen(l) \/ ElseOpen(l) THEN s.skip + 1
                  ELSE IF l.tag \in IfClosers /\ l.gt THEN s.skip - 1 ELSE s.skip
  <1>1. n \in Nat
    BY DEF StateOK
  <1>2. Skipped(s, l) = [s EXCEPT !.skip = n]
    BY DEF Skipped
  <1> HIDE DEF n
  <1> QED
    BY <1>1, <1>2, CountFields

\* The stack of Ifs grows up to its bound.
LEMMA PushedOK ==
  ASSUME NEW s, StateOK(s), NEW l
  PROVE  StateOK(Pushed(s, l))
  <1> DEFINE v == [tag |-> l.tag, cond |-> l.cond, kids |-> <<>>]
             k == Append(s.ifs, v)
  <1>1. CASE Len(s.ifs) >= MAX_IF_DEPTH
    BY <1>1 DEF Pushed
  <1>2. CASE ~(Len(s.ifs) >= MAX_IF_DEPTH)
    <2>1. IsSeq(s.ifs) /\ Len(s.ifs) \in Nat
      BY SeqBasics DEF StateOK, IfsOK
    <2>2. IfsOK(k)
      BY <1>2, <2>1, SeqAppend DEF IfsOK
    <2>3. Pushed(s, l) = With(s, "ifs", k)
      BY <1>2 DEF Pushed, With
    <2> HIDE DEF k
    <2> QED
      BY <2>2, <2>3, StackIfs
  <1> QED
    BY <1>1, <1>2

\* ElseIf and Else: that, or they are skipped.
LEMMA ElseOpenedOK ==
  ASSUME NEW s, StateOK(s), NEW l
  PROVE  StateOK(ElseOpened(s, l))
  <1>1. s.skip + 1 \in Nat
    BY DEF StateOK
  <1> QED
    BY <1>1, PushedOK, CountFields DEF ElseOpened

\* The end of an If.
LEMMA IfClosedOK ==
  ASSUME NEW s, StateOK(s), s.ifs # <<>>, NEW l
  PROVE  StateOK(IfClosed(s, l))
  <1> DEFINE kept == With(s, "ifs", Front(s.ifs))
             node == IfNode(Last(s.ifs))
  <1>1. IfsOK(Front(s.ifs))
    BY SeqBasics, SeqFront DEF StateOK, IfsOK
  <1>2. StateOK(kept)
    BY <1>1, StackIfs
  <1>3. IfClosed(s, l) \in {kept, NoConds(Put(kept, Nested, node))}
    BY DEF IfClosed, With
  <1> HIDE DEF kept, node
  <1> QED
    BY <1>2, <1>3, OrdersPlace, PutOK

\* The stack of IfModules grows up to its bound, with the depth of the other.
LEMMA IfModuleOpenedOK ==
  ASSUME NEW s, StateOK(s), NEW l
  PROVE  StateOK(IfModuleOpened(s, l))
  <1> DEFINE v == [arg |-> Argument(l), kids |-> <<>>, saved |-> Snapshot(s)]
             k == Append(s.ifmod, v)
  <1>1. CASE Len(s.ifmod) >= MAX_IFMODULE_DEPTH
    BY <1>1 DEF IfModuleOpened
  <1>2. CASE ~(Len(s.ifmod) >= MAX_IFMODULE_DEPTH)
    <2>1. IsSeq(s.ifmod) /\ Len(s.ifmod) \in Nat
      BY SeqBasics DEF StateOK, IfModulesOK
    <2>2. FrameOK(v)
      BY SeqBasics DEF StateOK, IfsOK, FrameOK, Snapshot
    <2> HIDE DEF v
    <2>3. IfModulesOK(k)
      BY <1>2, <2>1, <2>2, SeqAppend DEF StateOK, IfModulesOK
    <2>4. IfModuleOpened(s, l) = With(s, "ifmod", k)
      BY <1>2 DEF IfModuleOpened, With, v
    <2> HIDE DEF k
    <2> QED
      BY <2>3, <2>4, StackIfModules
  <1> QED
    BY <1>1, <1>2

\* What was opened inside an IfModule goes with it; the Ifs shrink to a depth
\* they may have.
LEMMA DiscardedOK ==
  ASSUME NEW s, StateOK(s), NEW saved, saved.ifs \in Nat, saved.ifs <= MAX_IF_DEPTH
  PROVE  StateOK(Discarded(s, saved)) /\ Discarded(s, saved).ifmod = s.ifmod
  <1> DEFINE n == Min({Len(s.ifs), saved.ifs})
             r == Discarded(s, saved)
  <1>1. DOMAIN s = {"top", "fm", "files", "any", "all", "limit", "innermost", "ifmod", "ifs",
                    "conds", "skip"}
    BY DEF StateOK, Shape
  <1>2. /\ r.ifmod = s.ifmod /\ r.ifs = SubSeq(s.ifs, 1, n)
        /\ r.skip = s.skip /\ r.innermost = s.innermost
    BY <1>1 DEF Discarded, Slots
  <1>3. Shape(r)
    <2>1. r = [c \in DOMAIN s |-> r[c]]
      BY DEF Discarded
    <2> HIDE DEF r
    <2> QED
      BY <1>1, <2>1 DEF Shape
  <1>4. IsSeq(s.ifs) /\ Len(s.ifs) \in Nat /\ Len(s.ifs) <= MAX_IF_DEPTH
    BY SeqBasics DEF StateOK, IfsOK
  <1>5. n \in Nat /\ n <= Len(s.ifs)
    BY <1>4, MinOfTwo
  <1> HIDE DEF n
  <1>6. IfsOK(SubSeq(s.ifs, 1, n))
    BY <1>4, <1>5, SeqPrefix DEF IfsOK
  <1> HIDE DEF r
  <1>7. StateOK(r)
    BY <1>2, <1>3, <1>6 DEF StateOK
  <1> QED
    BY <1>2, <1>7 DEF r

\* The end of an IfModule.
LEMMA IfModuleClosedOK ==
  ASSUME NEW s, StateOK(s), s.ifmod # <<>>
  PROVE  StateOK(IfModuleClosed(s))
  <1> DEFINE m == Last(s.ifmod)
             t == Discarded(s, m.saved)
             kept == With(t, "ifmod", Front(t.ifmod))
  <1>1. IsSeq(s.ifmod) /\ Len(s.ifmod) \in Nat /\ Len(s.ifmod) > 0
    BY SeqBasics DEF StateOK, IfModulesOK
  <1>2. FrameOK(m)
    BY <1>1 DEF StateOK, IfModulesOK, Last
  <1>3. StateOK(t) /\ t.ifmod = s.ifmod
    BY <1>2, DiscardedOK DEF FrameOK
  <1>4. IfModulesOK(Front(s.ifmod))
    <2> DEFINE k == s.ifmod
    <2>1. IfModulesOK(k)
      BY DEF StateOK
    <2> HIDE DEF k, m, t, kept
    <2>2. IsSeq(k) /\ k # <<>> /\ Len(k) \in Nat /\ Len(k) <= MAX_IFMODULE_DEPTH
      BY <1>1, <2>1 DEF IfModulesOK, k
    <2>3. /\ IsSeq(Front(k)) /\ Len(Front(k)) = Len(k) - 1
          /\ \A i \in 1 .. Len(k) - 1 : Front(k)[i] = k[i]
      BY <2>2, SeqFront
    <2>4. \A i \in 1 .. Len(k) : FrameOK(k[i])
      BY <2>1 DEF IfModulesOK
    <2>5. \A i \in 1 .. Len(Front(k)) : FrameOK(Front(k)[i])
      BY <2>2, <2>3, <2>4
    <2>6. IfModulesOK(Front(k))
      BY <2>2, <2>3, <2>5 DEF IfModulesOK
    <2> QED
      BY <2>6 DEF k
  <1> HIDE DEF t
  <1>5. StateOK(kept)
    BY <1>3, <1>4, StackIfModules
  <1>6. IfModuleClosed(s) = Put(kept, Nested, Container("IfModule", m.arg, m.kids))
    BY DEF IfModuleClosed, With, t
  <1> HIDE DEF kept, m
  <1> QED
    BY <1>5, <1>6, OrdersPlace, PutOK

\* A slot is filled, or shut with its container put where it belongs.
LEMMA SlotOK ==
  ASSUME NEW s, StateOK(s), NEW c \in Slots, NEW v
  PROVE  StateOK(With(s, c, v))
  BY FreeField DEF Slots

\* The ends of Files and FilesMatch.
LEMMA FilesClosedOK ==
  ASSUME NEW s, StateOK(s)
  PROVE  StateOK(FilesMatchClosed(s)) /\ StateOK(FilesClosed(s))
  <1>1. /\ FilesMatchClosed(s) = NoConds(Put(With(s, "fm", Shut), FilesOrder,
                                             Container("FilesMatch", s.fm.arg, s.fm.kids)))
        /\ FilesClosed(s) = NoConds(Put(With(s, "files", Shut), FilesOrder,
                                        Container("Files", s.files.arg, s.files.kids)))
    BY DEF FilesMatchClosed, FilesClosed, With
  <1>2. StateOK(With(s, "fm", Shut)) /\ StateOK(With(s, "files", Shut))
    BY FreeField DEF Slots
  <1> QED
    BY <1>1, <1>2, OrdersPlace, PutOK

\* The end of a Limit.
LEMMA LimitClosedOK ==
  ASSUME NEW s, StateOK(s)
  PROVE  StateOK(LimitClosed(s))
  <1> DEFINE d == Container(IF s.limit.tag = "<Limit" THEN "Limit" ELSE "LimitExcept",
                            s.limit.arg, s.limit.kids)
  <1>1. LimitClosed(s) = NoConds(Put(With(s, "limit", Shut),
                                     <<"ifs", "fm", "files", "ifmod", "top">>, d))
    BY DEF LimitClosed, With
  <1>2. StateOK(With(s, "limit", Shut))
    BY FreeField DEF Slots
  <1> HIDE DEF d
  <1> QED
    BY <1>1, <1>2, OrdersPlace, PutOK

\* A slot and the name of the innermost Require container change together.
LEMMA RequireFields ==
  ASSUME NEW s, StateOK(s), NEW v, NEW q \in {"none", "any", "all"}
  PROVE  /\ StateOK([s EXCEPT !.any = v, !.innermost = q])
         /\ StateOK([s EXCEPT !.all = v, !.innermost = q])
  <1>1. /\ [s EXCEPT !.any = v, !.innermost = q] = With(With(s, "any", v), "innermost", q)
        /\ [s EXCEPT !.all = v, !.innermost = q] = With(With(s, "all", v), "innermost", q)
    BY DEF With
  <1>2. StateOK(With(s, "any", v)) /\ StateOK(With(s, "all", v))
    BY FreeField DEF Slots
  <1> QED
    BY <1>1, <1>2, InnermostField

\* The ends of RequireAny and RequireAll.
LEMMA RequireClosedOK ==
  ASSUME NEW s, StateOK(s)
  PROVE  StateOK(AnyClosed(s)) /\ StateOK(AllClosed(s))
  <1> DEFINE q == IF s.all.open THEN "all" ELSE "none"
             r == IF s.any.open THEN "any" ELSE "none"
             a == [s EXCEPT !.any = Shut, !.innermost = q]
             b == [s EXCEPT !.all = Shut, !.innermost = r]
  <1>1. q \in {"none", "any", "all"} /\ r \in {"none", "any", "all"}
    OBVIOUS
  <1>2. /\ AnyClosed(s) = NoConds(Put(a, <<"ifs", "all", "files", "fm", "limit", "ifmod", "top">>,
                                      Container("RequireAny", None, s.any.kids)))
        /\ AllClosed(s) = NoConds(Put(b, <<"ifs", "any", "files", "fm", "limit", "ifmod", "top">>,
                                      Container("RequireAll", None, s.all.kids)))
    BY DEF AnyClosed, AllClosed
  <1> HIDE DEF q, r
  <1>3. StateOK(a) /\ StateOK(b)
    BY <1>1, RequireFields
  <1> HIDE DEF a, b
  <1> QED
    BY <1>2, <1>3, OrdersPlace, PutOK

-----------------------------------------------------------------------------
(***************************************************************************)
(* A directive.  While something is open, and no RequireAny is left with   *)
(* innermost naming another container, it does not go to the top.          *)
(***************************************************************************)
\* The last part of the order of LeafTarget.
LEMMA LastOrder ==
  ASSUME NEW s
  PROVE  LET c == FirstOpen(s, <<"limit", "ifmod", "top">>) IN
         /\ c \in Places
         /\ s.limit.open \/ s.ifmod # <<>> => c # "top"
  <1> DEFINE order == <<"limit", "ifmod", "top">>
             T == {i \in 1 .. Len(order) : IsOpen(s, order[i])}
  <1>1. order \in Seq(Places) /\ Len(order) = 3
    BY DEF Places, Slots
  <1>2. order[1] = "limit" /\ order[2] = "ifmod" /\ order[3] = "top"
    OBVIOUS
  <1> HIDE DEF order
  <1>3. /\ IsOpen(s, "top")
        /\ s.limit.open => IsOpen(s, "limit")
        /\ s.ifmod # <<>> => IsOpen(s, "ifmod")
    BY DEF IsOpen
  <1>4. /\ 3 \in T
        /\ s.limit.open => 1 \in T
        /\ s.ifmod # <<>> => 2 \in T
    BY <1>1, <1>2, <1>3
  <1>5. T \in SUBSET (1 .. 3) /\ T \in SUBSET (1 .. 8) /\ T # {}
    BY <1>1, <1>4
  <1>6. Min(T) \in 1 .. 3 /\ \A i \in T : Min(T) <= i
    BY <1>5, MinOfEight
  <1>7. FirstOpen(s, order) = order[Min(T)]
    BY DEF FirstOpen
  <1> HIDE DEF T
  <1>8. Min(T) \in {1, 2, 3}
    BY <1>6
  <1>9. FirstOpen(s, order) \in Places
    BY <1>2, <1>7, <1>8 DEF Places, Slots
  <1>10. s.limit.open \/ s.ifmod # <<>> => Min(T) \in {1, 2}
    BY <1>4, <1>6, <1>8
  <1>11. s.limit.open \/ s.ifmod # <<>> => FirstOpen(s, order) # "top"
    BY <1>2, <1>7, <1>10
  <1> QED
    BY <1>9, <1>11 DEF order

\* Where a directive goes.
LEMMA LeafTargetOK ==
  ASSUME NEW s
  PROVE  /\ LeafTarget(s) \in Places
         /\ SomethingOpen(s) /\ ~Astray(s) => LeafTarget(s) # "top"
  <1>1. LeafTarget(s) \in Places
    BY LastOrder DEF LeafTarget, Places, Slots
  <1>2. SomethingOpen(s) /\ ~Astray(s) => LeafTarget(s) # "top"
    BY LastOrder DEF LeafTarget, SomethingOpen, Astray, Slots
  <1> QED
    BY <1>1, <1>2

\* A condition waits, a rule takes the conditions that wait.
LEMMA PlacedOK ==
  ASSUME NEW s, StateOK(s), NEW c \in Places, NEW d
  PROVE  StateOK(Placed(s, c, d)) /\ (c # "top" => Placed(s, c, d).top = s.top)
  <1> DEFINE waits == With(s, "conds", Append(s.conds, d))
             rule == [d EXCEPT !.conds = s.conds]
  <1>1. Placed(s, c, d) \in {waits, NoConds(s), AddTo(NoConds(s), c, rule), s, AddTo(s, c, d)}
    BY DEF Placed, With
  <1>2. StateOK(waits) /\ waits.top = s.top
    BY FreeField
  <1> HIDE DEF waits, rule
  <1>3. StateOK(NoConds(s)) /\ NoConds(s).top = s.top
    BY NoCondsOK
  <1>4. /\ StateOK(AddTo(NoConds(s), c, rule))
        /\ c # "top" => AddTo(NoConds(s), c, rule).top = s.top
    BY <1>3, AddToOK
  <1>5. StateOK(AddTo(s, c, d)) /\ (c # "top" => AddTo(s, c, d).top = s.top)
    BY AddToOK
  <1> QED
    BY <1>1, <1>2, <1>3, <1>4, <1>5

\* A line of its own.
LEMMA DirectiveReadOK ==
  ASSUME NEW s, StateOK(s), NEW l
  PROVE  /\ StateOK(DirectiveRead(s, l))
         /\ SomethingOpen(s) /\ ~Astray(s) => DirectiveRead(s, l).top = s.top
  BY LeafTargetOK, PlacedOK DEF DirectiveRead

-----------------------------------------------------------------------------
(***************************************************************************)
(* One line, by whichever handler takes it.                                *)
(***************************************************************************)
\* The result of a line is that of one handler, whose condition holds.
LEMMA StepOK ==
  ASSUME NEW s, StateOK(s), NEW l
  PROVE  StateOK(Step(s, l))
  <1> DEFINE v == Slot(l)
             handled == Step(s, l)
  <1>1. \/ s.skip > 0 /\ handled = Skipped(s, l)
        \/ s.ifmod # <<>> /\ handled = IfModuleClosed(s)
        \/ handled = IfModuleOpened(s, l)
        \/ s.ifs # <<>> /\ handled = IfClosed(s, l)
        \/ handled = Pushed(s, l)
        \/ handled = ElseOpened(s, l)
        \/ handled \in {FilesMatchClosed(s), FilesClosed(s), AnyClosed(s), AllClosed(s), LimitClosed(s)}
        \/ handled \in {With(s, "fm", v), With(s, "files", v), With(s, "limit", v)}
        \/ handled = [s EXCEPT !.any = v, !.innermost = "any"]
        \/ handled = [s EXCEPT !.all = v, !.innermost = "all"]
        \/ handled = DirectiveRead(s, l)
    <2> DEFINE fm == [s EXCEPT !.fm = v]
               files == [s EXCEPT !.files = v]
               limit == [s EXCEPT !.limit = v]
               any == [s EXCEPT !.any = v, !.innermost = "any"]
               all == [s EXCEPT !.all = v, !.innermost = "all"]
    <2>1. fm = With(s, "fm", v) /\ files = With(s, "files", v) /\ limit = With(s, "limit", v)
      BY DEF With
    <2>2. \/ s.skip > 0 /\ handled = Skipped(s, l)
          \/ s.ifmod # <<>> /\ handled = IfModuleClosed(s)
          \/ handled = IfModuleOpened(s, l)
          \/ s.ifs # <<>> /\ handled = IfClosed(s, l)
          \/ handled = Pushed(s, l)
          \/ handled = ElseOpened(s, l)
          \/ handled = FilesMatchClosed(s)
          \/ handled = fm
          \/ handled = FilesClosed(s)
          \/ handled = files
          \/ handled = AnyClosed(s)
          \/ handled = any
          \/ handled = AllClosed(s)
          \/ handled = all
          \/ handled = LimitClosed(s)
          \/ handled = limit
          \/ handled = DirectiveRead(s, l)
      BY DEF Step
    <2> HIDE DEF fm, files, limit, any, all, handled
    <2>3. QED
      BY <2>1, <2>2 DEF any, all
  <1>2. StateOK(With(s, "fm", v)) /\ StateOK(With(s, "files", v)) /\ StateOK(With(s, "limit", v))
    BY SlotOK DEF Slots
  <1>3. /\ StateOK([s EXCEPT !.any = v, !.innermost = "any"])
        /\ StateOK([s EXCEPT !.all = v, !.innermost = "all"])
    BY RequireFields
  <1> HIDE DEF v, handled
  <1>4. StateOK(handled)
    <2>1. CASE s.skip > 0 /\ handled = Skipped(s, l)
      BY <2>1, SkippedOK
    <2>2. CASE s.ifmod # <<>> /\ handled = IfModuleClosed(s)
      BY <2>2, IfModuleClosedOK
    <2>3. CASE handled = IfModuleOpened(s, l)
      BY <2>3, IfModuleOpenedOK
    <2>4. CASE s.ifs # <<>> /\ handled = IfClosed(s, l)
      BY <2>4, IfClosedOK
    <2>5. CASE handled = Pushed(s, l)
      BY <2>5, PushedOK
    <2>6. CASE handled = ElseOpened(s, l)
      BY <2>6, ElseOpenedOK
    <2>7. CASE handled \in {FilesMatchClosed(s), FilesClosed(s), AnyClosed(s), AllClosed(s), LimitClosed(s)}
      BY <2>7, FilesClosedOK, RequireClosedOK, LimitClosedOK
    <2>8. CASE handled = DirectiveRead(s, l)
      BY <2>8, DirectiveReadOK
    <2> QED
      BY <1>1, <1>2, <1>3, <2>1, <2>2, <2>3, <2>4, <2>5, <2>6, <2>7, <2>8
  <1> QED
    BY <1>4 DEF handled

\* A directive's line is skipped or read as one: no other handler takes it.
LEMMA LineStep ==
  ASSUME NEW s, StateOK(s), NEW l, l.tag = "line", SomethingOpen(s), ~Astray(s)
  PROVE  Step(s, l).top = s.top
  <1>1. /\ ~Closes(l, "</IfModule") /\ ~Closes(l, "</FilesMatch") /\ ~Closes(l, "</Files")
        /\ ~Closes(l, "</RequireAny") /\ ~Closes(l, "</RequireAll")
        /\ ~Closes(l, CloserOf(s.limit.tag)) /\ l.tag \notin IfClosers
    BY DEF Closes, CloserOf, IfClosers
  <1>2. /\ ~IfModuleOpen(l) /\ ~IfOpen(l) /\ ~ElseIfOpen(l) /\ ~ElseOpen(l)
        /\ ~FilesMatchOpen(l) /\ ~FilesOpen(l) /\ ~LimitOpen(l)
        /\ ~RequireOpen(l, "<RequireAny") /\ ~RequireOpen(l, "<RequireAll")
    BY DEF IfModuleOpen, IfOpen, ElseIfOpen, ElseOpen, FilesMatchOpen, FilesOpen, LimitOpen,
           IsLimit, RequireOpen
  <1>3. \/ s.skip > 0 /\ Step(s, l) = Skipped(s, l)
        \/ Step(s, l) = DirectiveRead(s, l)
    BY <1>1, <1>2 DEF Step
  <1> QED
    BY <1>3, SkippedOK, DirectiveReadOK

\* Before the first line.
LEMMA StartOK == StateOK(Start)
  <1>1. IfModulesOK(<<>>) /\ IfsOK(<<>>)
    <2>1. IsSeq(<<>>) /\ Len(<<>>) = 0
      BY DEF IsSeq
    <2> QED
      BY <2>1 DEF IfModulesOK, IfsOK
  <1> QED
    BY <1>1 DEF StateOK, Shape, Start

-----------------------------------------------------------------------------
(***************************************************************************)
(* The specification.                                                      *)
(***************************************************************************)
ParserInv == IsSeq(text) /\ StateOK(st)

\* The invariant holds after any text.
LEMMA Invariance == Spec => []ParserInv
  <1>1. Init => ParserInv
    BY StartOK DEF Init, ParserInv, IsSeq
  <1>2. ParserInv /\ [Next]_vars => ParserInv'
    <2> SUFFICES ASSUME ParserInv, [Next]_vars
                 PROVE  ParserInv'
      OBVIOUS
    <2>1. CASE UNCHANGED vars
      BY <2>1 DEF ParserInv, vars
    <2>2. CASE Next
      <3>1. PICK l \in Lines : Read(l)
        BY <2>2 DEF Next
      <3>2. IsSeq(text')
        BY <3>1, SeqAppend DEF Read, ParserInv
      <3>3. StateOK(Step(st, l)) /\ st' = Step(st, l)
        BY <3>1, StepOK DEF Read, ParserInv
      <3>4. StateOK(st')
        BY <3>3
      <3> QED
        BY <3>2, <3>4 DEF ParserInv
    <2> QED
      BY <2>1, <2>2
  <1> QED
    BY <1>1, <1>2, PTL DEF Spec

(***************************************************************************)
(* Whatever the text, the stacks of htaccess_parse stay within their       *)
(* arrays, an IfModule restores a depth the stack of Ifs can have, and     *)
(* the count of skipped blocks never falls below zero.                     *)
(***************************************************************************)
THEOREM ParserTypes == Spec => []ParserTypeOK
  <1>1. ParserInv => ParserTypeOK
    <2> SUFFICES ASSUME StateOK(st)
                 PROVE  ParserTypeOK
      BY DEF ParserInv
    <2>1. /\ Len(st.ifmod) <= MAX_IFMODULE_DEPTH /\ Len(st.ifs) <= MAX_IF_DEPTH
          /\ st.skip >= 0 /\ st.innermost \in {"none", "any", "all"}
      BY DEF StateOK, IfModulesOK, IfsOK
    <2>2. \A i \in 1 .. Len(st.ifmod) : st.ifmod[i].saved.ifs <= MAX_IF_DEPTH
      BY DEF StateOK, IfModulesOK, FrameOK
    <2> QED
      BY <2>1, <2>2 DEF ParserTypeOK
  <1> QED
    BY <1>1, Invariance, PTL

(***************************************************************************)
(* Whatever the text, a directive that htaccess_parse reads while a        *)
(* container is open is not applied to the whole directory, unless a       *)
(* RequireAny has been left open with innermost naming another container.  *)
(***************************************************************************)
THEOREM StaysContained == Spec => Contained
  <1> DEFINE Kept == text' # text /\ Last(text').tag = "line" /\ SomethingOpen(st) /\ ~Astray(st)
                       => st'.top = st.top
  <1>1. ParserInv /\ [Next]_vars => [Kept]_vars
    <2> SUFFICES ASSUME ParserInv, Next, text' # text, Last(text').tag = "line",
                        SomethingOpen(st), ~Astray(st)
                 PROVE  st'.top = st.top
      BY DEF vars
    <2>1. PICK l \in Lines : Read(l)
      BY DEF Next
    <2>2. text' = Append(text, l) /\ Len(text) \in Nat
      BY <2>1, SeqBasics DEF Read, ParserInv
    <2>3. Last(text') = l
      BY <2>2, SeqAppend DEF ParserInv, Last
    <2>4. StateOK(st) /\ st' = Step(st, l)
      BY <2>1 DEF Read, ParserInv
    <2>5. Step(st, l).top = st.top
      BY <2>3, <2>4, LineStep
    <2> QED
      BY <2>4, <2>5
  <1> QED
    BY <1>1, Invariance, PTL DEF Spec, Contained
=============================================================================
