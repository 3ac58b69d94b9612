------------------------------- MODULE Parser -------------------------------
(***************************************************************************)
(* htaccess_parse: the containers of a .htaccess file, read line by line.  *)
(* The parser keeps no tree while it reads: it has one slot for each kind  *)
(* of container (FilesMatch, Files, RequireAny, RequireAll, Limit), a      *)
(* stack of IfModules and a stack of Ifs, and what is read goes to the     *)
(* first of them, in an order of the kinds that is fixed, that is open.    *)
(*                                                                         *)
(* A line is [tag, kw, text, cond, gt]: the tag it opens or closes ("line" *)
(* for a directive, whose keyword is kw), the words after it, the text of  *)
(* an If's condition, and whether ">" follows.  Blank lines and comments   *)
(* are left out: the parser skips them whatever its state.                 *)
(***************************************************************************)
EXTENDS Leaf

CONSTANTS
    Lines,               \* the lines texts are made of
    MAX_IFMODULE_DEPTH, MAX_IF_DEPTH,
    Condition(_)         \* expr_parse of a condition's text

ASSUME ParserAssumption == MAX_IFMODULE_DEPTH \in Nat /\ MAX_IF_DEPTH \in Nat

VARIABLES
    text,   \* the lines read so far
    st      \* the parser's local variables
vars == <<text, st>>

Slots == {"fm", "files", "any", "all", "limit"}
Shut == [open |-> FALSE, tag |-> "", arg |-> None, kids |-> <<>>]
IsLimit(l) == l.tag \in {"<Limit", "<LimitExcept"}
Argument(l) == IF IsLimit(l) THEN l.text ELSE Unquoted(l.text)
Slot(l) == [open |-> TRUE, tag |-> l.tag, arg |-> Argument(l), kids |-> <<>>]

Start ==
    [top |-> <<>>, fm |-> Shut, files |-> Shut, any |-> Shut, all |-> Shut, limit |-> Shut,
     innermost |-> "none", ifmod |-> <<>>, ifs |-> <<>>, conds |-> <<>>, skip |-> 0]

-----------------------------------------------------------------------------
(***************************************************************************)
(* is_*_open and is_*_close.                                               *)
(***************************************************************************)
\* One name: a word, or whatever stands between two quote marks, then ">".
IsName(t) ==
    \/ Len(t) = 1 /\ t[1] # Q
    \/ Len(t) >= 2 /\ Head(t) = Q /\ Marks(t) = {1, Len(t)}
FilesMatchOpen(l) == l.tag = "<FilesMatch" /\ l.gt /\ IsName(l.text)
FilesOpen(l)      == l.tag = "<Files" /\ l.gt /\ IsName(l.text)
IfModuleOpen(l)   == l.tag = "<IfModule" /\ l.gt /\ IsName(l.text)
IfOpen(l)         == l.tag = "<If" /\ l.gt /\ l.cond # <<>>
ElseIfOpen(l)     == l.tag = "<ElseIf" /\ l.gt /\ l.cond # <<>>
ElseOpen(l)       == l.tag = "<Else" /\ l.gt /\ l.text = <<>>
RequireOpen(l, tag) == l.tag = tag /\ l.gt /\ l.text = <<>>
LimitOpen(l)      == IsLimit(l) /\ l.gt /\ l.text # <<>>
Closes(l, tag)    == l.tag = tag /\ l.gt
IfClosers == {"</If", "</ElseIf", "</Else"}
CloserOf(tag) ==
    CASE tag = "<If" -> "</If" [] tag = "<ElseIf" -> "</ElseIf" [] tag = "<Else" -> "</Else"
      [] tag = "<Limit" -> "</Limit" [] OTHER -> "</LimitExcept"

(***************************************************************************)
(* Where a directive goes: the first open container of an order.           *)
(***************************************************************************)
\* Mutant of Nested: Limit is forgotten.
NestedNoLimit == <<"ifs", "fm", "files", "any", "all", "ifmod", "top">>
Nested == <<"ifs", "fm", "files", "any", "all", "limit", "ifmod", "top">>
IsOpen(s, c) ==
    CASE c = "ifs" -> s.ifs # <<>> [] c = "ifmod" -> s.ifmod # <<>>
      [] c = "top" -> TRUE         [] OTHER       -> s[c].open
FirstOpen(s, order) == order[Min({i \in 1 .. Len(order) : IsOpen(s, order[i])})]

AddKid(stack, d) == [stack EXCEPT ![Len(stack)].kids = Append(@, d)]
AddTo(s, c, d) ==
    CASE c = "top"   -> [s EXCEPT !.top = Append(@, d)]
      [] c = "ifs"   -> [s EXCEPT !.ifs = AddKid(@, d)]
      [] c = "ifmod" -> [s EXCEPT !.ifmod = AddKid(@, d)]
      [] OTHER       -> [s EXCEPT ![c].kids = Append(@, d)]
Put(s, order, d) == AddTo(s, FirstOpen(s, order), d)

KidsOf(s, c) ==
    CASE c = "top" -> s.top [] c = "ifs" -> Last(s.ifs).kids [] c = "ifmod" -> Last(s.ifmod).kids
      [] OTHER -> s[c].kids

\* A container node, and the conditions that wait for a rule dropped.
Container(type, arg, kids) == [D(type) EXCEPT !.name = arg, !.kids = kids]
NoConds(s) == [s EXCEPT !.conds = <<>>]

-----------------------------------------------------------------------------
(***************************************************************************)
(* The handlers, in the order in which the code tries them.                *)
(***************************************************************************)
\* Inside an ElseIf or Else that follows no If: only the nesting is kept.
Skipped(s, l) ==
    [s EXCEPT !.skip = IF IfOpen(l) \/ ElseIfOpen(l) \/ ElseOpen(l) THEN @ + 1
                       ELSE IF l.tag \in IfClosers /\ l.gt THEN @ - 1 ELSE @]

\* Containers opened inside the IfModule are dropped; innermost is left alone.
Discarded(s, saved) ==
    [c \in DOMAIN s |->
        IF c \in Slots /\ ~saved[c] THEN Shut
        ELSE IF c = "ifs" THEN SubSeq(s.ifs, 1, Min({Len(s.ifs), saved.ifs}))
        ELSE IF c = "conds" THEN <<>> ELSE s[c]]
IfModuleClosed(s) ==
    LET m == Last(s.ifmod)
        kept == [Discarded(s, m.saved) EXCEPT !.ifmod = Front(@)]
    IN  Put(kept, Nested, Container("IfModule", m.arg, m.kids))

Snapshot(s) ==
    [ifs |-> Len(s.ifs), fm |-> s.fm.open, files |-> s.files.open,
     any |-> s.any.open, all |-> s.all.open, limit |-> s.limit.open]
IfModuleOpened(s, l) ==
    IF Len(s.ifmod) >= MAX_IFMODULE_DEPTH THEN s
    ELSE [s EXCEPT !.ifmod = Append(@, [arg |-> Argument(l), kids |-> <<>>, saved |-> Snapshot(s)])]

IfType(tag) == CASE tag = "<If" -> "If" [] tag = "<ElseIf" -> "ElseIf" [] OTHER -> "Else"
IfNode(top) ==
    [Container(IfType(top.tag), None, top.kids) EXCEPT
        !.cond = IF top.tag = "<Else" THEN NoCond ELSE Condition(top.cond)]
IfClosed(s, l) ==
    LET top  == Last(s.ifs)
        kept == [s EXCEPT !.ifs = Front(@)]
    IN  IF l.tag # CloserOf(top.tag) THEN kept ELSE NoConds(Put(kept, Nested, IfNode(top)))

\* Mutant of Pushed: no bound.
PushedAlways(s, l) == [s EXCEPT !.ifs = Append(@, [tag |-> l.tag, cond |-> l.cond, kids |-> <<>>])]
Pushed(s, l) ==
    IF Len(s.ifs) >= MAX_IF_DEPTH THEN s
    ELSE [s EXCEPT !.ifs = Append(@, [tag |-> l.tag, cond |-> l.cond, kids |-> <<>>])]

\* ElseIf and Else: the directive before must be an If or an ElseIf.
FollowsIf(s) ==
    LET kids == KidsOf(s, FirstOpen(s, Nested)) IN
    kids # <<>> /\ Last(kids).type \in {"If", "ElseIf"}
ElseOpened(s, l) == IF FollowsIf(s) THEN Pushed(s, l) ELSE [s EXCEPT !.skip = @ + 1]

FilesOrder == <<"ifs", "any", "all", "limit", "ifmod", "top">>
FilesMatchClosed(s) ==
    NoConds(Put([s EXCEPT !.fm = Shut], FilesOrder, Container("FilesMatch", s.fm.arg, s.fm.kids)))
FilesClosed(s) ==
    NoConds(Put([s EXCEPT !.files = Shut], FilesOrder, Container("Files", s.files.arg, s.files.kids)))

AnyClosed(s) ==
    NoConds(Put([s EXCEPT !.any = Shut, !.innermost = IF s.all.open THEN "all" ELSE "none"],
                <<"ifs", "all", "files", "fm", "limit", "ifmod", "top">>,
                Container("RequireAny", None, s.any.kids)))
AllClosed(s) ==
    NoConds(Put([s EXCEPT !.all = Shut, !.innermost = IF s.any.open THEN "any" ELSE "none"],
                <<"ifs", "any", "files", "fm", "limit", "ifmod", "top">>,
                Container("RequireAll", None, s.all.kids)))

LimitClosed(s) ==
    NoConds(Put([s EXCEPT !.limit = Shut], <<"ifs", "fm", "files", "ifmod", "top">>,
                Container(IF s.limit.tag = "<Limit" THEN "Limit" ELSE "LimitExcept",
                          s.limit.arg, s.limit.kids)))

(***************************************************************************)
(* A directive.  A condition waits for the next rule.  RequireAny takes    *)
(* what it is the innermost for, RequireAll whatever comes when it is      *)
(* open; both drop what is not a Require.                                  *)
(***************************************************************************)
RequireLines == {"Require all granted", "Require all denied", "Require ip", "Require not ip",
                 "Require env", "Require valid-user", "Require user", "Require group"}
\* Mutant of LeafTarget: an open Limit does not take the line.
LeafTargetNoLimit(s) ==
    IF s.ifs # <<>> THEN "ifs" ELSE IF s.fm.open THEN "fm" ELSE IF s.files.open THEN "files"
    ELSE IF s.any.open /\ s.innermost = "any" THEN "any"
    ELSE IF s.all.open THEN "all"
    ELSE FirstOpen(s, <<"ifmod", "top">>)
LeafTarget(s) ==
    IF s.ifs # <<>> THEN "ifs" ELSE IF s.fm.open THEN "fm" ELSE IF s.files.open THEN "files"
    ELSE IF s.any.open /\ s.innermost = "any" THEN "any"
    ELSE IF s.all.open THEN "all"
    ELSE FirstOpen(s, <<"limit", "ifmod", "top">>)
Placed(s, to, d) ==
    IF d.type = "RewriteCond" THEN [s EXCEPT !.conds = Append(@, d)]
    ELSE IF d.type = "RewriteRule"
         THEN IF to \in {"any", "all"} THEN NoConds(s)
              ELSE AddTo(NoConds(s), to, [d EXCEPT !.conds = s.conds])
    ELSE IF d = Refused \/ (to \in {"any", "all"} /\ d.type \notin RequireLines) THEN s
    ELSE AddTo(s, to, d)
DirectiveRead(s, l) == Placed(s, LeafTarget(s), ParseLine(l.kw, l.text))

\* One line, by the first handler that takes it.
NoFiles(s) == ~s.fm.open /\ ~s.files.open
NoRequire(s) == ~s.any.open /\ ~s.all.open
Step(s, l) ==
    IF s.skip > 0 THEN Skipped(s, l)
    ELSE IF s.ifmod # <<>> /\ Closes(l, "</IfModule") THEN IfModuleClosed(s)
    ELSE IF IfModuleOpen(l) THEN IfModuleOpened(s, l)
    ELSE IF s.ifs # <<>> /\ l.tag \in IfClosers /\ l.gt THEN IfClosed(s, l)
    ELSE IF IfOpen(l) THEN Pushed(s, l)
    ELSE IF ElseIfOpen(l) \/ ElseOpen(l) THEN ElseOpened(s, l)
    ELSE IF s.fm.open /\ Closes(l, "</FilesMatch") THEN FilesMatchClosed(s)
    ELSE IF NoFiles(s) /\ FilesMatchOpen(l) THEN [s EXCEPT !.fm = Slot(l)]
    ELSE IF s.files.open /\ Closes(l, "</Files") THEN FilesClosed(s)
    ELSE IF NoFiles(s) /\ FilesOpen(l) THEN [s EXCEPT !.files = Slot(l)]
    ELSE IF s.any.open /\ Closes(l, "</RequireAny") THEN AnyClosed(s)
    ELSE IF ~s.any.open /\ RequireOpen(l, "<RequireAny")
         THEN [s EXCEPT !.any = Slot(l), !.innermost = "any"]
    ELSE IF s.all.open /\ Closes(l, "</RequireAll") THEN AllClosed(s)
    ELSE IF ~s.all.open /\ RequireOpen(l, "<RequireAll")
         THEN [s EXCEPT !.all = Slot(l), !.innermost = "all"]
    ELSE IF s.limit.open /\ NoRequire(s) /\ Closes(l, CloserOf(s.limit.tag)) THEN LimitClosed(s)
    ELSE IF ~s.limit.open /\ NoRequire(s) /\ LimitOpen(l) THEN [s EXCEPT !.limit = Slot(l)]
    ELSE DirectiveRead(s, l)

(***************************************************************************)
(* The file may end after any line: Finish is the list then returned; what *)
(* is still open, and conditions without a rule, are dropped.              *)
(***************************************************************************)
Finish(s) == s.top
Parse(lines) ==
    LET After_[i \in 0 .. Len(lines)] == IF i = 0 THEN Start ELSE Step(After_[i - 1], lines[i])
    IN  Finish(After_[Len(lines)])

Init == text = <<>> /\ st = Start

Read(l) == text' = Append(text, l) /\ st' = Step(st, l)

Next == \E l \in Lines : Read(l)
Spec == Init /\ [][Next]_vars

-----------------------------------------------------------------------------
(***************************************************************************)
(* The indices into the parser's fixed arrays stay inside them (ifmod_*,   *)
(* if_*, and the depth saved with an IfModule), and the counter of skipped *)
(* blocks never passes below zero.                                         *)
(***************************************************************************)
ParserTypeOK ==
    /\ Len(st.ifmod) <= MAX_IFMODULE_DEPTH /\ Len(st.ifs) <= MAX_IF_DEPTH
    /\ \A i \in 1 .. Len(st.ifmod) : st.ifmod[i].saved.ifs <= MAX_IF_DEPTH
    /\ st.skip >= 0
    /\ st.innermost \in {"none", "any", "all"}

(***************************************************************************)
(* A directive written while a container is open, in whatever text, is     *)
(* never applied to the whole directory: htaccess_parse puts it into a     *)
(* container or drops it.  The exception is a RequireAny in which a        *)
(* RequireAll was dropped unclosed with the IfModule round it: innermost   *)
(* still names the RequireAll, and the next line goes past the RequireAny. *)
(***************************************************************************)
SomethingOpen(s) == s.ifs # <<>> \/ s.ifmod # <<>> \/ \E c \in Slots : s[c].open
Astray(s) == s.any.open /\ ~s.all.open /\ s.innermost # "any"
Contained ==
    [][ text' # text /\ Last(text').tag = "line" /\ SomethingOpen(st) /\ ~Astray(st)
            => st'.top = st.top ]_vars
=============================================================================
