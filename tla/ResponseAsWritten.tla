--------------------------- MODULE ResponseAsWritten ---------------------------
(***************************************************************************)
(* What the directives of a request say of its response's headers, and     *)
(* whether the client gets that.                                           *)
(***************************************************************************)
EXTENDS Response

----------------------------------------------------------------------------
(***************************************************************************)
(* What the directives say of a field, without a table: those that apply,  *)
(* in the order of the hook, each to the elements the field has.           *)
(***************************************************************************)
RECURSIVE Applying(_, _)
Chosen(s, list, i) ==
  IF list[i].type = "If" THEN Applying(s, Taken(s, list, i, {"ElseIf", "Else"})) ELSE <<>>
Applying(s, list) ==
  FlattenSeq([i \in DOMAIN list |->
    IF list[i].type \in IfTypes THEN Chosen(s, list, i) ELSE <<list[i]>>])

InBlocks(s, type) ==
  LET Is(d) == d.type = type /\ IF type = "Files" THEN d.name = s.file ELSE s.file \in d.name
      blocks == SelectSeq(s.dirs, Is)
  IN  FlattenSeq([i \in DOMAIN blocks |-> Applying(s, blocks[i].kids)])

InIfs(s) == FlattenSeq([i \in DOMAIN s.dirs |-> Chosen(s, s.dirs, i)])

InOrderOf(s, types) ==
  OfTypes(OfTypes(s.dirs, types \cap HeaderActs) \o InBlocks(s, "Files") \o InBlocks(s, "FilesMatch")
            \o OfTypes(s.dirs, types \ HeaderActs) \o InIfs(s), types)

Said(s, n) ==
  SelectSeq(InOrderOf(s, HeaderActs),
            LAMBDA d : d.name = n /\ Met(s, d) /\ CrLf \notin Range(Expand(s, d.value)))

ElementsOf(field) == SelectSeq(FlattenSeq(field), LAMBDA e : e # "")

After(s, line, d) ==
  LET v == Expand(s, d.value) IN
  CASE d.type = "set"               -> v
    [] d.type = "unset"             -> <<>>
    [] d.type \in {"append", "add"} -> line \o v
    [] d.type = "merge"             -> IF HasElement(line, v) THEN line ELSE line \o v
    [] d.type \in {"edit", "edit*"} ->
         IF d.regex = NoRegex THEN line ELSE Edited(line, d.regex, v, d.type = "edit*")

Written(s, n) ==
  LET all == Said(s, n)
      line[i \in 0 .. Len(all)] ==
        IF i = 0 THEN ElementsOf(s.lines[n]) ELSE After(s, line[i - 1], all[i])
  IN  line[Len(all)]

(***************************************************************************)
(* Which fields the code keeps track of.  Not one that other directives    *)
(* write too, one that does not fit, or more of them than the table has    *)
(* slots; none behind an Else that is executed as well, or an If that is   *)
(* skipped.  An edit reads the server's first line and leaves the table as *)
(* it is: it must stand alone.  An add does not look at the server, and    *)
(* an append only at its first line; and a server that does not show what  *)
(* was set in the hook still shows what was unset.                         *)
(***************************************************************************)
Plain(s) ==
  \A i \in DOMAIN s.dirs :
    LET kids == s.dirs[i].kids IN
    /\ s.dirs[i].type \in {"Files"} \cup IfTypes =>
         \A k \in DOMAIN kids : kids[k].type \notin {"ElseIf", "Else"}
    /\ s.dirs[i].type = "FilesMatch" =>
         \A k \in DOMAIN kids \ {1} : <<kids[k - 1].type, kids[k].type>> # <<"If", "If">>

Types(all) == {all[i].type : i \in DOMAIN all}

Tracked(s, n, others) ==
  LET all  == Said(s, n)
      old  == s.lines[n]
      first == IF all = <<>> THEN "none" ELSE all[1].type
      names == {d.name : d \in Range(InOrderOf(s, HeaderActs))}
      longest == FoldSeq(LAMBDA d, sum : sum + Len(d.value), Len(FlattenSeq(old)), all)
  IN  /\ Plain(s)
      /\ Cardinality(names \cup others) <= HDR_SHADOW_SLOTS
      /\ longest <= HDR_MAX
      /\ Types(all) \cap {"edit", "edit*"} # {} => Len(all) = 1 /\ Len(old) <= 1
      /\ \/ old = <<>>
         \/ Len(all) <= 1 /\ first \notin {"append", "merge"}
         \/ first = "set"
         \/ s.shows /\ first = "unset"
         \/ Len(old) = 1 /\ first = "append"
         \/ Len(old) = 1 /\ first = "merge" /\ "add" \notin Types(all)
      /\ \/ old = <<>> \/ s.shows
         \/ "unset" \notin Types(all) /\ \A d \in Range(all) : Expand(s, d.value) # <<>>
      /\ n \in others => first \in {"set", "unset", "none"}

SpecialFields ==
  {"Content-Type", "Content-Encoding", "Cache-Control", "Expires", "Location",
   "X-LiteSpeed-Cache-Control"}

(***************************************************************************)
(* The type of a response is that of the last directive that gives one,    *)
(* and has one charset at most; what it says of its expiry is for the type *)
(* it is sent with, whichever block has changed it.                        *)
(***************************************************************************)
WrittenTo(s) == {d.name : d \in {d \in Range(InOrderOf(s, HeaderActs)) : Met(s, d)}}

TypeAsWritten(s, line) ==
  LET gives == SelectSeq(InOrderOf(s, {"AddType", "ForceType"}),
                         LAMBDA d : d.type = "ForceType" \/ MatchesExt(s, d))
      given == IF Last(gives).type = "ForceType" THEN Last(gives).value ELSE Last(gives).name
  IN  /\ Cardinality({i \in DOMAIN line : line[i] \in Charsets}) <= 1
      /\ OfTypes(s.dirs, {"RemoveType"}) = <<>> /\ gives # <<>> => Head(line) = given

ExpiresAsWritten(s, type, line) ==
  LET rules == SelectSeq(OfTypes(s.dirs, {"ExpiresByType"}), LAMBDA d : d.name = type /\ d.value # "never")
      on    == OfTypes(s.dirs, {"ExpiresActive"})
  IN  on # <<>> /\ Last(on).value /\ rules # <<>> => line = <<Head(rules).value>>

(***************************************************************************)
(* Every field the code keeps track of has, when the headers are sent,     *)
(* the elements the directives say, whatever the server shows of them and  *)
(* whatever sessions were aborted, recycled and served in between; and     *)
(* type and expiry are as written.                                         *)
(***************************************************************************)
HeadersAsWritten ==
  \A s \in Sessions : head[s].phase = "sent" =>
    LET ask == head[s].ask
        Line(n) == FlattenSeq(head[s].lines[n]) IN
    /\ \A n \in Fields \ SpecialFields :
         Tracked(ask, n, mixed[s]) => ElementsOf(head[s].lines[n]) = Written(ask, n)
    /\ SpecialFields \cap WrittenTo(ask) = {} =>
         /\ TypeAsWritten(ask, Line("Content-Type"))
         /\ Line("Content-Type") # <<>> =>
              ExpiresAsWritten(ask, Head(Line("Content-Type")), Line("Expires"))

(***************************************************************************)
(* A response has no element of a header that comes from another: the      *)
(* table "tracks headers set during this request".                         *)
(***************************************************************************)
RECURSIVE Everywhere(_)
Everywhere(list) ==
  FlattenSeq([i \in DOMAIN list |-> <<list[i]>> \o Everywhere(list[i].kids)])

Mentioned(s) ==
  UNION {Range(Expand(s, d.value)) :
           d \in {d \in Range(Everywhere(s.dirs)) : d.type \in HeaderActs}}

OwnHeadersOnly ==
  \A s \in Sessions : head[s].phase = "sent" =>
    \A n \in Fields \ SpecialFields :
      Range(ElementsOf(head[s].lines[n])) \subseteq
        Mentioned(head[s].ask) \cup Range(ElementsOf(head[s].ask.lines[n]))
=============================================================================
