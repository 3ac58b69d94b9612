------------------------------- MODULE Headers -------------------------------
(***************************************************************************)
(* What the directives of a request do to its response's headers:          *)
(* on_send_resp_header with htaccess_exec_header.c and the executors for   *)
(* types, encodings, caching and error pages.                              *)
(*                                                                         *)
(* A field is a sequence of lines, a line a sequence of elements (what     *)
(* commas or, in a Content-Type, semicolons separate).  A directive is     *)
(*   [type, name, value, when, regex, kids];                               *)
(* value is a line whose elements may be <<"%{", v>>, an environment       *)
(* variable; when the env= condition; regex the elements that the pattern  *)
(* of an edit matches.  A request is                                       *)
(*   [file, ext, set, env, holds, dirs, lines, status, shows]:             *)
(* set its variables and env their values, holds the conditions of If that *)
(* hold (see Expr), lines and status what the server has before the hook.  *)
(*                                                                         *)
(* shows tells two servers apart.  One shows a hook the headers it has     *)
(* set itself; the other those of before the hook, as the comment on the   *)
(* shadow table says of OpenLiteSpeed, Content-Type excepted.              *)
(***************************************************************************)
EXTENDS Naturals, Sequences, SequencesExt, Functions

CONSTANTS
  HDR_SHADOW_SLOTS,  \* Names in the shadow table.
  HDR_MAX,           \* Elements in a line: the buffers of 4096 bytes.
  MAX_IF_DEPTH,      \* If blocks in one another: the parser's stack.
  Fields,            \* The names of headers.
  Elements,          \* What stands between the commas of a line.
  Charsets,          \* The elements "charset=...".
  TextTypes,         \* The types "text/...".
  Directives,        \* The directives, those in blocks included.
  Variables          \* The names of environment variables.

Lines == Seq(Elements)

IfTypes     == {"If", "ElseIf", "Else"}
HeaderActs  == {"set", "unset", "append", "merge", "add", "edit", "edit*"}
NamedTypes  == {"AddType", "AddEncoding", "AddCharset"}
ValuedTypes ==
  {"ForceType", "DefaultType", "AddDefaultCharset", "ExpiresByType", "ExpiresDefault",
   "CacheMaxExpire", "CacheDefaultExpire"}

\* What the parser makes of a line, by its type.
WellTyped(d) ==
  /\ d.kids \in Seq(Directives)
  /\ d.type \in HeaderActs => d.name \in Fields /\ d.value \in Seq(STRING \X Elements)
  /\ d.type \in NamedTypes => d.name \in Elements
  /\ d.type \in ValuedTypes => d.value \in Elements
  /\ d.type = "CacheEnable" => d.value \in Lines \ {<<>>}

ASSUME HeadersAssumption ==
  /\ HDR_SHADOW_SLOTS \in Nat \ {0}
  /\ HDR_MAX \in Nat \ {0}
  /\ MAX_IF_DEPTH \in Nat
  /\ \A d \in Directives : WellTyped(d)
  /\ {"", "text/plain", "off", "esi=on", "3600", "url"} \subseteq Elements
  /\ {"Content-Type", "Content-Encoding", "Cache-Control", "Expires",
      "Location", "X-LiteSpeed-Cache-Control"} \subseteq Fields

(***************************************************************************)
(* Requests, as the hook finds them.                                       *)
(***************************************************************************)
Asks ==
  [file : STRING, ext : STRING, set : SUBSET Variables, env : [Variables -> Lines],
   holds : SUBSET STRING, dirs : Seq(Directives), lines : [Fields -> Seq(Lines)],
   status : Nat, shows : BOOLEAN]

NoLine == <<>>
Always == [var |-> "", not |-> FALSE]
NoRegex == {"(not usable)"}
CrLf == "CR LF"

----------------------------------------------------------------------------
(***************************************************************************)
(* The shadow table: hdr_shadow up to hdr_shadow_count.                    *)
(***************************************************************************)
SlotsOf(table, n) == {i \in DOMAIN table : table[i].name = n}
SlotOf(table, n) == CHOOSE i \in SlotsOf(table, n) : \A j \in SlotsOf(table, n) : i <= j

ShadowGet(table, n) ==
  IF SlotsOf(table, n) = {} THEN NoLine ELSE table[SlotOf(table, n)].value

\* Mutant of Evict: a full table grows.
EvictNone(table) == table

Evict(table) == IF Len(table) >= HDR_SHADOW_SLOTS THEN Tail(table) ELSE table

\* The entry is as long as the buffer.
TooLongLine(line) == Len(line) > HDR_MAX
Clipped(line) == IF TooLongLine(line) THEN SubSeq(line, 1, HDR_MAX) ELSE line

\* Mutant of ShadowSet: a name that is in the table gets a second entry.
ShadowSetNew(table, n, v) == Append(Evict(table), [name |-> n, value |-> Clipped(v)])

ShadowSet(table, n, v) ==
  IF SlotsOf(table, n) # {}
    THEN [table EXCEPT ![SlotOf(table, n)].value = Clipped(v)]
    ELSE Append(Evict(table), [name |-> n, value |-> Clipped(v)])

\* The last entry takes the place of the one that is removed.
ShadowRemove(table, n) ==
  IF SlotsOf(table, n) = {}
    THEN table
    ELSE Front([table EXCEPT ![SlotOf(table, n)] = Last(table)])

----------------------------------------------------------------------------
(***************************************************************************)
(* The server's side, through lsiapi_shim.c.  t is the response in the     *)
(* hook: [table, was, lines, shows, status, page, hint].                   *)
(***************************************************************************)
Shown(t, n) ==
  LET field == IF t.shows \/ n = "Content-Type" THEN t.lines[n] ELSE t.was[n]
  IN  IF field = <<>> THEN NoLine ELSE Head(field)

\* A value with nothing in it is a line, but none that can be read.
AsLine(v) == IF v = <<"">> THEN NoLine ELSE v

SetLine(t, n, v) == [t EXCEPT !.lines[n] = <<AsLine(v)>>]
AddLine(t, n, v) == [t EXCEPT !.lines[n] = Append(@, AsLine(v))]
Unset(t, n)      == [t EXCEPT !.lines[n] = <<>>]

----------------------------------------------------------------------------
(***************************************************************************)
(* exec_header.  An error is only logged: nothing has changed then.        *)
(***************************************************************************)
Met(s, d) == d.when = Always \/ (d.when.var \in s.set) # d.when.not

EnvLine(s, v) == IF v \in s.set THEN s.env[v] ELSE NoLine

Expand(s, value) ==
  FlattenSeq([i \in DOMAIN value |->
                IF value[i][1] = "%{" THEN EnvLine(s, value[i][2]) ELSE <<value[i][2]>>])

Current(t, n) ==
  IF ShadowGet(t.table, n) # NoLine THEN ShadowGet(t.table, n) ELSE Shown(t, n)

Joined(line, v) == line \o (IF v = <<>> THEN <<"">> ELSE v)

Put(t, n, v) == [SetLine(t, n, v) EXCEPT !.table = ShadowSet(@, n, AsLine(v))]

Extend(t, n, v) ==
  IF Current(t, n) = NoLine THEN Put(t, n, v)
  ELSE IF TooLongLine(Joined(Current(t, n), v)) THEN t
  ELSE Put(t, n, Joined(Current(t, n), v))

HasElement(line, v) == Len(v) = 1 /\ v[1] \in Range(line)

AddTable(table, n, v) ==
  LET own == ShadowGet(table, n) IN
  IF own = NoLine THEN ShadowSet(table, n, AsLine(v))
  ELSE IF TooLongLine(Joined(own, v)) THEN table
  ELSE ShadowSet(table, n, Joined(own, v))

Edited(line, regex, v, all) ==
  FlattenSeq([i \in DOMAIN line |->
    IF line[i] \in regex /\ (all \/ \A j \in 1 .. i - 1 : line[j] \notin regex)
      THEN Joined(<<>>, v) ELSE <<line[i]>>])

\* exec_header_edit: a pattern that is too long, does not compile or runs
\* into the limit edits nothing.
EditField(t, n, regex, v, all) ==
  IF \/ Shown(t, n) = NoLine
     \/ regex = NoRegex
     \/ TooLongLine(Edited(Shown(t, n), regex, v, all))
    THEN t
    ELSE SetLine(t, n, Edited(Shown(t, n), regex, v, all))

ExecHeader(s, t, d) ==
  LET v == Expand(s, d.value) IN
  IF ~ Met(s, d) \/ CrLf \in Range(v) THEN t
  ELSE CASE d.type = "set"    -> Put(t, d.name, v)
         [] d.type = "unset"  -> [Unset(t, d.name) EXCEPT !.table = ShadowRemove(@, d.name)]
         [] d.type = "append" -> Extend(t, d.name, v)
         [] d.type = "merge"  -> IF HasElement(Current(t, d.name), v) THEN t
                                 ELSE Extend(t, d.name, v)
         [] d.type = "add"    -> [AddLine(t, d.name, v) EXCEPT
                                    !.table = AddTable(@, d.name, v)]
         [] d.type = "edit"   -> EditField(t, d.name, d.regex, v, FALSE)
         [] d.type = "edit*"  -> EditField(t, d.name, d.regex, v, TRUE)

----------------------------------------------------------------------------
(***************************************************************************)
(* Types, encodings and charsets.  The name of a directive is the type,    *)
(* its value the extensions; a ForceType or DefaultType has a value only.  *)
(***************************************************************************)
TypeShown(t) == Shown(t, "Content-Type")
SetType(t, line) == SetLine(t, "Content-Type", line)
MatchesExt(s, d) == s.ext \in d.value

HasCharset(line) == Range(line) \cap Charsets # {}
WithoutCharset(line) ==
  LET at == {i \in DOMAIN line : line[i] \in Charsets}
  IN  IF at = {} THEN line ELSE SubSeq(line, 1, (CHOOSE i \in at : \A j \in at : i <= j) - 1)

AddCharset(t, charset) ==
  SetType(t, Append(IF TypeShown(t) = NoLine THEN <<"text/plain">>
                    ELSE WithoutCharset(TypeShown(t)), charset))

DefaultCharset(t, charset) ==
  IF \/ charset = "Off"
     \/ TypeShown(t) = NoLine
     \/ Head(TypeShown(t)) \notin TextTypes
     \/ HasCharset(TypeShown(t))
    THEN t
    ELSE SetType(t, Append(TypeShown(t), charset))

DefaultType(t, type) == IF TypeShown(t) = NoLine THEN SetType(t, <<type>>) ELSE t

\* AddType, ForceType, AddEncoding and AddCharset, by the name of the file.
MimeTypes == {"AddType", "ForceType", "AddEncoding", "AddCharset"}
ExecMime(s, t, d) ==
  IF d.type = "ForceType" THEN SetType(t, <<d.value>>)
  ELSE IF ~ MatchesExt(s, d) THEN t
  ELSE CASE d.type = "AddType"     -> SetType(t, <<d.name>>)
         [] d.type = "AddEncoding" -> SetLine(t, "Content-Encoding", <<d.name>>)
         [] d.type = "AddCharset"  -> AddCharset(t, d.name)

(***************************************************************************)
(* exec_error_document: name is the status, value the kind of page.  A     *)
(* page elsewhere makes the response a redirect, whose status the next     *)
(* ErrorDocument is compared with.                                         *)
(***************************************************************************)
ExecErrorDocument(t, d) ==
  IF t.status # d.name THEN t
  ELSE CASE d.value = "url"  -> SetLine([t EXCEPT !.status = 302], "Location", <<"url">>)
         [] d.value = "text" -> [t EXCEPT !.page = "text"]
         [] d.value = "path" -> [t EXCEPT !.hint = "path"]
         [] OTHER            -> t

Exec(s, t, d) ==
  CASE d.type \in HeaderActs          -> ExecHeader(s, t, d)
    [] d.type \in MimeTypes           -> ExecMime(s, t, d)
    [] d.type = "ErrorDocument"       -> ExecErrorDocument(t, d)
    [] d.type = "DefaultType"         -> DefaultType(t, d.value)
    [] d.type = "AddDefaultCharset"   -> DefaultCharset(t, d.value)
    [] OTHER                          -> t

\* A loop over directives.
Run(s, t, list) ==
  LET run[i \in 0 .. Len(list)] == IF i = 0 THEN t ELSE Exec(s, run[i - 1], list[i])
  IN  run[Len(list)]

----------------------------------------------------------------------------
(***************************************************************************)
(* Blocks.  Taken is the block that an If, or what follows it as long as   *)
(* it is of the types next, has chosen from place i on.                    *)
(***************************************************************************)
Branches(list, i, next) ==
  {j \in i .. Len(list) : \A k \in i + 1 .. j : list[k].type \in next}
Holds(s, d) == d.type = "Else" \/ d.name \in s.holds
Taken(s, list, i, next) ==
  LET true == {j \in Branches(list, i, next) : Holds(s, list[j])}
  IN  IF true = {} THEN <<>> ELSE list[CHOOSE j \in true : \A k \in true : j <= k].kids

(***************************************************************************)
(* The children of a block, in order.  In a Files block, and in an If that *)
(* is not in a FilesMatch, every child begins a chain: an Else is then     *)
(* executed although its If was (eval_if_chain).  In a FilesMatch an If    *)
(* takes the Ifs behind it into its chain; directly in the block these     *)
(* are skipped, further down each begins a chain again (dispatch_child).   *)
(*                                                                         *)
(* Which children are executed does not depend on the headers.  The calls  *)
(* within calls are therefore unfolded first: a child, at a place of a     *)
(* list, is replaced by the children it has chosen, as often as Ifs lie    *)
(* in one another.                                                         *)
(***************************************************************************)
Kid(list, i, how) == [list |-> list, at |-> i, how |-> how]
Kids(list, how)   == [i \in DOMAIN list |-> Kid(list, i, how)]
Directive(kid)    == kid.list[kid.at]

Skipped(kid) ==
  \/ Directive(kid).type # "If"
  \/ /\ kid.how = "match"
     /\ \E j \in 1 .. kid.at - 1 :
          kid.list[j].type = "If" /\ kid.at \in Branches(kid.list, j, IfTypes)

Unfold(s, kid) ==
  CASE Directive(kid).type \notin IfTypes -> <<kid>>
    [] Directive(kid).type \in IfTypes /\ kid.how = "eval" ->
         Kids(Taken(s, kid.list, kid.at, {"ElseIf", "Else"}), "eval")
    [] Directive(kid).type \in IfTypes /\ kid.how # "eval" ->
         IF Skipped(kid) THEN <<>> ELSE Kids(Taken(s, kid.list, kid.at, IfTypes), "dispatch")

UnfoldAll(s, kids) == FlattenSeq([i \in DOMAIN kids |-> Unfold(s, kids[i])])

Unfolded(s, kids) ==
  LET depth[n \in 0 .. MAX_IF_DEPTH] == IF n = 0 THEN kids ELSE UnfoldAll(s, depth[n - 1])
  IN  depth[MAX_IF_DEPTH]

RunKids(s, t, kids) ==
  LET all == Unfolded(s, kids) IN Run(s, t, [i \in DOMAIN all |-> Directive(all[i])])

----------------------------------------------------------------------------
(***************************************************************************)
(* The stages of the hook.  Each runs over the directives at the top that  *)
(* it is about; Sole is the first of a type, which counts alone.  Select   *)
(* is SelectSeq, written so that it can be reasoned about.                 *)
(***************************************************************************)
Select(list, Test(_)) == FlattenSeq([i \in DOMAIN list |-> IF Test(list[i]) THEN <<list[i]>> ELSE <<>>])

OfTypes(list, types) == Select(list, LAMBDA d : d.type \in types)
Sole(list, type) ==
  LET all == OfTypes(list, {type}) IN IF all = <<>> THEN <<>> ELSE <<Head(all)>>

HeaderStage(s, t) == Run(s, t, OfTypes(s.dirs, HeaderActs))

KidsOf(blocks, how) == FlattenSeq([i \in DOMAIN blocks |-> Kids(blocks[i].kids, how)])

FilesStage(s, t) ==
  RunKids(s, t, KidsOf(Select(s.dirs, LAMBDA d : d.type = "Files" /\ d.name = s.file), "eval"))
FilesMatchStage(s, t) ==
  RunKids(s, t, KidsOf(Select(s.dirs, LAMBDA d : d.type = "FilesMatch" /\ s.file \in d.name), "match"))

TypeStage(s, t) ==
  LET known   == Run(s, t, Sole(s.dirs, "DefaultType"))
      removed == IF \E i \in DOMAIN s.dirs : s.dirs[i].type = "RemoveType" /\ MatchesExt(s, s.dirs[i])
                   THEN Unset(known, "Content-Type") ELSE known
      typed   == Run(s, removed, OfTypes(s.dirs, MimeTypes))
  IN  Run(s, typed, Sole(s.dirs, "AddDefaultCharset"))

\* The first If of the list and what follows it, then the next If.
IfStage(s, t) ==
  RunKids(s, t, Select(Kids(s.dirs, "eval"), LAMBDA kid : Directive(kid).type = "If"))

(***************************************************************************)
(* exec_cache_bridge: the last CacheEnable or CacheDisable; an age that    *)
(* is not given, or "0" (as is what atoi does not read as a positive       *)
(* number), is an hour.                                                    *)
(***************************************************************************)
CacheStage(s, t) ==
  LET switch == OfTypes(s.dirs, {"CacheEnable", "CacheDisable"})
      esi    == \E i \in DOMAIN switch : switch[i].type = "CacheEnable" /\ "esi=on" \in Range(switch[i].value)
      Age(type) == LET all == OfTypes(s.dirs, {type}) IN IF all = <<>> THEN "0" ELSE Last(all).value
      age == IF Age("CacheMaxExpire") # "0" THEN Age("CacheMaxExpire")
             ELSE IF Age("CacheDefaultExpire") # "0" THEN Age("CacheDefaultExpire")
             ELSE "3600"
      off == Last(switch).type = "CacheDisable" \/ Head(Last(switch).value) = "off"
  IN  IF switch = <<>> THEN t
      ELSE AddLine(t, "X-LiteSpeed-Cache-Control",
                   IF off THEN <<"off">>
                   ELSE <<Head(Last(switch).value), age>> \o (IF esi THEN <<"esi=on">> ELSE <<>>))

(***************************************************************************)
(* exec_expires: the first ExpiresByType for the type the response has     *)
(* now, else the first ExpiresDefault; "never" is a duration that does not *)
(* parse.  Cache-Control and Expires are replaced.                         *)
(***************************************************************************)
ExpiresStage(s, t) ==
  LET active == OfTypes(s.dirs, {"ExpiresActive"})
      type   == IF TypeShown(t) = NoLine THEN "application/octet-stream" ELSE Head(TypeShown(t))
      Usable(d) == d.value # "never"
      byType == Select(OfTypes(s.dirs, {"ExpiresByType"}), LAMBDA d : Usable(d) /\ d.name = type)
      rules  == byType \o Select(OfTypes(s.dirs, {"ExpiresDefault"}), Usable)
  IN  IF active = <<>> \/ ~ Last(active).value \/ rules = <<>> THEN t
      ELSE SetLine(SetLine(t, "Cache-Control", <<rules[1].value>>), "Expires", <<rules[1].value>>)

ErrorStage(s, t) == Run(s, t, OfTypes(s.dirs, {"ErrorDocument"}))

(***************************************************************************)
(* on_send_resp_header.                                                    *)
(***************************************************************************)
Begin(s, table) ==
  [table |-> table, was |-> s.lines, lines |-> s.lines, shows |-> s.shows,
   status |-> s.status, page |-> "server", hint |-> "none"]

Respond(s, table) ==
  IF s.dirs = <<>> THEN Begin(s, table)
  ELSE ErrorStage(s, ExpiresStage(s, CacheStage(s, IfStage(s, TypeStage(s,
         FilesMatchStage(s, FilesStage(s, HeaderStage(s, Begin(s, table)))))))))
=============================================================================
