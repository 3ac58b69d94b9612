----------------------------- MODULE MCResponse -----------------------------
(***************************************************************************)
(* Instances of Response for TLC, in three scenarios:                      *)
(*   body  two requests, their pages in any chunks, no header directives   *)
(*   head  two requests, their headers, in any order of the hooks          *)
(*   one   one request, many lists of directives                           *)
(***************************************************************************)
EXTENDS ResponseAsWritten

CONSTANTS s1, s2, Plans

VARIABLE plan
mcvars == <<rvars, plan>>

Removing    == <<"remove<", "remove>", "endremove<", "endremove>", "text">>
Varying     == <<"vars<", "vars>", "text", "endvars<", "endvars>">>
Including   == <<"text", "dyn<", "dyn>", "gone<", "gone>">>
Unfinished  == <<"dyn<", "attr", "dyn>", "dyn<">>

EveryPage ==
  <<{Removing, Varying, Including, Unfinished}, {<<"dyn<", "dyn>">>}>>

\* They are well-formed, as the proofs want the pages.
PlaceIn(page) ==
  LET at[i \in 0 .. Len(page)] ==
        IF i = 0 THEN "pass" ELSE CHOOSE p \in Places : <<at[i - 1], page[i], p>> \in Grammar
  IN  at

ASSUME WellFormedPages ==
  \A page \in UNION Range(EveryPage) : Reads(page, PlaceIn(page))

SomeRooms == {0, 1, 9}

Symmetry == Permutations(Sessions)

SomeFields == SpecialFields \cup {"X-A", "X-B", "X-C"}

-----------------------------------------------------------------------------
\* Directives and requests.
Dir(type, name, value, when, regex, kids) ==
  [type |-> type, name |-> name, value |-> value, when |-> when, regex |-> regex, kids |-> kids]
H(type, name, value)  == Dir(type, name, <<<<"text", value>>>>, Always, {}, <<>>)
Var(type, name, var)  == Dir(type, name, <<<<"%{", var>>>>, Always, {}, <<>>)
When(d, var, not)     == [d EXCEPT !.when = [var |-> var, not |-> not]]
Edit(type, name, regex, value) == [H(type, name, value) EXCEPT !.regex = regex]
D(type, name, value)  == Dir(type, name, value, Always, {}, <<>>)
In(type, name, kids)  == Dir(type, name, "", Always, {}, kids)

\* What the server has of a field before the hook.
Bases == {<<>>, <<<<"old">>>>, <<<<"old", "a">>, <<"b">>>>}

Ask(dirs, base, shows) ==
  [file |-> "f", ext |-> "x", set |-> {"e"}, env |-> [e |-> <<"env">>], holds |-> {"yes"}, dirs |-> dirs,
   lines |-> [n \in Fields |-> IF n = "X-A" THEN base
                               ELSE IF n = "Content-Type" THEN <<<<"text/html">>>> ELSE <<>>],
   status |-> 404, shows |-> shows]

Bare == Ask(<<>>, <<>>, TRUE)

UpTo(n, S) == UNION {[1 .. k -> S] : k \in 1 .. n}

-----------------------------------------------------------------------------
\* head: what each of two requests does to one field or two.
Two(a, b) == <<a, b>>
HeadLists(q) ==
  LET v == IF q = 1 THEN "one" ELSE "two" IN
  {<<H(type, "X-A", v)>> : type \in HeaderActs \ {"edit", "edit*"}}
    \cup {Two(H("set", "X-A", v), H(type, "X-A", "b")) : type \in {"append", "add", "unset"}}
    \cup {<<Edit("edit*", "X-A", {"old"}, v)>>, <<H("set", "X-B", v)>>,
          Two(H("set", "X-B", v), H("append", "X-A", v))}

HeadAsks(q) ==
  {Ask(list, base, shows) :
     list \in HeadLists(q), base \in {<<>>, <<<<"old">>>>}, shows \in BOOLEAN}

-----------------------------------------------------------------------------
\* one: header acts on one field, in any order, and with two others.
Acts ==
  {H("set", "X-A", "a"), Var("set", "X-A", "none"), When(H("set", "X-A", "c"), "e", TRUE),
   H("set", "X-A", CrLf), H("unset", "X-A", ""), H("append", "X-A", "b"), Var("append", "X-A", "e"),
   H("merge", "X-A", "a"), H("merge", "X-A", "b"), When(H("add", "X-A", "b"), "e", FALSE),
   Edit("edit", "X-A", {"old", "b"}, "c"), Edit("edit*", "X-A", {"a", "b"}, "c"),
   Edit("edit", "X-A", NoRegex, "c"), H("set", "X-B", "b"), H("add", "X-C", "c")}

Other == <<H("add", "X-A", "other")>>

Blocks(kids) ==
  {<<In("Files", "f", kids)>>, <<In("Files", "g", kids)>>,
   <<In("FilesMatch", {"f"}, kids)>>, <<In("FilesMatch", {"g"}, kids)>>,
   <<In("If", "yes", kids)>>, <<In("If", "no", <<>>), In("ElseIf", "yes", kids), In("Else", "", Other)>>}
    \cup {<<In(outer[1], outer[2], <<In("If", cond, kids), In(next, "yes", Other)>>)>> :
            outer \in {<<"Files", "f">>, <<"FilesMatch", {"f"}>>, <<"If", "yes">>},
            cond \in {"yes", "no"}, next \in IfTypes}

BlockLists ==
  {<<H("append", "X-A", "a")>> \o block : block \in UNION {Blocks(<<d>>) : d \in Acts}}

-----------------------------------------------------------------------------
\* one: types, charsets, caching, expiry, pages for errors.
Force(type) == D("ForceType", "", type)
TypeActs ==
  {Force("text/plain"), D("AddType", "image/x", {"x"}), D("AddType", "image/y", {"y"}),
   D("RemoveType", "", {"x"}), D("DefaultType", "", "image/z"),
   D("AddCharset", "charset=utf8", {"x"}), D("AddDefaultCharset", "", "charset=latin"),
   D("AddDefaultCharset", "", "Off"), D("AddEncoding", "gzip", {"x"}),
   In("If", "yes", <<Force("image/z")>>), In("Files", "f", <<D("AddCharset", "charset=latin", {"x"})>>)}

Expiring ==
  <<D("ExpiresActive", "", TRUE), D("ExpiresByType", "text/html", "never"),
    D("ExpiresByType", "text/plain", "1 day"), D("ExpiresByType", "image/x", "1 week"),
    D("ExpiresByType", "image/z", "1 year"), D("ExpiresDefault", "", "1 hour")>>

CacheActs ==
  {D("CacheEnable", "", <<"public", "esi=on">>), D("CacheEnable", "", <<"off">>),
   D("CacheDisable", "", ""), D("CacheMaxExpire", "", "60"), D("CacheDefaultExpire", "", "600"),
   D("ErrorDocument", 404, "url"), D("ErrorDocument", 404, "text"),
   D("ErrorDocument", 302, "path"), D("ErrorDocument", 500, "other")}

\* That Does happens with one of the requests.
One(Does(_)) ==
  \/ \E base \in Bases, shows \in BOOLEAN :
       \/ \E n \in 1 .. 3 : \E list \in [1 .. n -> Acts] : Does(Ask(list, base, shows))
       \/ \E list \in BlockLists : Does(Ask(list, base, shows))
  \/ \E n \in 1 .. 3 :
       \/ \E list \in [1 .. n -> TypeActs] : Does(Ask(Expiring \o list, <<>>, FALSE))
       \/ \E list \in [1 .. n -> CacheActs] : Does(Ask(list, <<>>, FALSE))

-----------------------------------------------------------------------------
WithKids(dirs) == dirs \cup UNION {Range(d.kids) : d \in dirs}

EveryElement == STRING

EveryDirective ==
  WithKids(WithKids(
    UNION {Range(list) : list \in HeadLists(1) \cup HeadLists(2) \cup BlockLists}
      \cup Acts \cup TypeActs \cup Range(Expiring) \cup CacheActs))

-----------------------------------------------------------------------------
MCInit == ResponseInit /\ plan \in Plans

MCMap(s, page, on, marker) ==
  /\ seq < (IF plan = "one" THEN 1 ELSE MaxRequests)
  /\ marker => on
  /\ page \in Pages[seq + 1]
  /\ plan # "body" => ~ on /\ page = CHOOSE p \in Pages[seq + 1] : TRUE
  /\ \/ plan = "body" /\ Map(s, page, on, marker, Bare)
     \/ plan = "head" /\ \E ask \in HeadAsks(seq + 1) : Map(s, page, on, marker, ask)
     \/ plan = "one"  /\ One(LAMBDA ask : Map(s, page, on, marker, ask))

MCNext ==
  /\ UNCHANGED plan
  /\ \E s \in Sessions :
       \/ \E page \in UNION Range(Pages), on, marker \in BOOLEAN : MCMap(s, page, on, marker)
       \/ SendHead(s)
       \/ SendBare(s)
       \/ \E room \in Rooms :
            \/ plan = "body" /\ Live(s) /\ \E n \in 0 .. PageLength(s) : Body(s, n, room)
            \/ Finish(s, room)

MCSpec == MCInit /\ [][MCNext]_mcvars
=============================================================================
