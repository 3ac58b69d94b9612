------------------------------ MODULE Printer -------------------------------
(***************************************************************************)
(* htaccess_print: the lines a list of directives is written as, in the    *)
(* form the parser reads.  And the reference for the parser: the           *)
(* containers of a text, nested as they are written.                       *)
(***************************************************************************)
EXTENDS Parser

CONSTANTS
    ConditionText(_),  \* expr_to_string of a parsed condition
    Meaning(_)         \* the requests for which a parsed condition holds

Line(tag, kw, words, cond) == [tag |-> tag, kw |-> kw, text |-> words, cond |-> cond, gt |-> TRUE]
Words(v) == IF v = None THEN <<>> ELSE v
Quoted(v) == <<Q>> \o Words(v) \o <<Q>>
\* Mutant of Spaced: quotes are never put.
SpacedBare(v) == Words(v)
\* Quotes are put round a value that holds a blank, where they are put at all.
Spaced(v) == IF v # None /\ Len(v) > 1 THEN Quoted(v) ELSE Words(v)

-----------------------------------------------------------------------------
(***************************************************************************)
(* print_directive: the words after the keyword.                           *)
(***************************************************************************)
PrintHeader(d) ==
    LET env == IF d.env = None THEN <<>> ELSE <<"env=">> \o d.env
        act == Last(d.opt)
    IN  d.opt \o Words(d.name) \o
        (IF act \in EditActs THEN Spaced(d.pat) \o Spaced(d.value) ELSE Words(d.value)) \o env

PrintRedirect(d) ==
    LET status == CASE d.num = 302 -> <<>>            [] d.num = 301 -> <<"permanent">>
                    [] d.num = 303 -> <<"seeother">>  [] d.num = 410 -> <<"gone">>
                    [] OTHER       -> <<Numeral(d.num)>>
    IN  status \o (IF d.type = "Redirect" THEN Words(d.name) \o Words(d.value)
                                          ELSE Spaced(d.pat) \o Spaced(d.value))

\* SetEnvIf and BrowserMatch: the value only when there is one.
PrintEnvIf(d) ==
    LET last == Last(d.name)
        assignment == IF d.value = <<>> THEN d.name
                      ELSE Append(Front(d.name), Joined(last, "=", Head(d.value))) \o Tail(d.value)
    IN  (IF d.type = "BrowserMatch" THEN <<>> ELSE d.opt) \o Spaced(d.pat) \o assignment

PrintRewrite(d) == Words(d.pat) \o Words(d.value) \o Words(d.opt)

RequireText(d) ==
    CASE d.type = "Require all granted" -> <<"all", "granted">>
      [] d.type = "Require all denied"  -> <<"all", "denied">>
      [] d.type = "Require ip"          -> <<"ip">> \o d.value
      [] d.type = "Require not ip"      -> <<"not", "ip">> \o d.value
      [] d.type = "Require valid-user"  -> <<"valid-user">>
      [] d.type = "Require user"        -> <<"user">> \o d.value
      [] d.type = "Require env"         -> <<"env">> \o d.name
      [] OTHER                          -> Words(d.value)

PrintFirst(d) ==
    CASE d.type = "Header"        -> PrintHeader(d)
      [] d.type = "RequestHeader" -> d.opt \o d.name \o Spaced(d.value)
      [] d.type = "Order"         -> d.opt
      [] d.type \in {"Allow", "Deny"} -> <<"from">> \o d.value
      [] d.type \in {"Redirect", "RedirectMatch"} -> PrintRedirect(d)
      [] d.type = "ErrorDocument" -> <<Numeral(d.num)>> \o d.value
      [] d.type \in SwitchWords \cup {"SecRuleEngine", "BruteForceAction", "BruteForceXForwardedFor"}
                                  -> d.opt
      [] d.type \in NumberWords   -> <<Numeral(d.num)>>
      [] d.type = "ExpiresByType" -> Words(d.name) \o Quoted(d.value)
      [] d.type \in {"ExpiresDefault", "AuthName", "BotChallengeIf"} -> Quoted(d.value)
PrintSecond(d) ==
    CASE d.type = "SetEnv"        -> d.name \o Spaced(d.value)
      [] d.type \in {"SetEnvIf", "SetEnvIfNoCase", "BrowserMatch"} -> PrintEnvIf(d)
      [] d.type \in {"RewriteCond", "RewriteRule"} -> PrintRewrite(d)
      [] d.type = "RewriteMap"    -> Append(d.name, Joined(d.value[1], ":", d.value[2]))
      [] d.type \in RequireLines  -> RequireText(d)
      [] OTHER                    -> Words(d.name) \o Words(d.value)
PrintText(d) ==
    IF d.type \in {"Header", "RequestHeader", "Order", "Allow", "Deny", "Redirect", "RedirectMatch",
                   "ErrorDocument", "SecRuleEngine", "BruteForceAction", "BruteForceXForwardedFor",
                   "ExpiresByType", "ExpiresDefault", "AuthName", "BotChallengeIf"}
                  \cup SwitchWords \cup NumberWords
    THEN PrintFirst(d) ELSE PrintSecond(d)

Keyword(d) == IF d.type \in RequireLines THEN "Require" ELSE d.type

(***************************************************************************)
(* A directive's lines; a container's children between its tags.  A        *)
(* condition that did not parse is not written: "<If>".                    *)
(***************************************************************************)
TagName(type) ==
    CASE type = "IfModule" -> <<"<IfModule", "</IfModule">> [] type = "FilesMatch" -> <<"<FilesMatch", "</FilesMatch">>
      [] type = "Files" -> <<"<Files", "</Files">>          [] type = "RequireAny" -> <<"<RequireAny", "</RequireAny">>
      [] type = "RequireAll" -> <<"<RequireAll", "</RequireAll">> [] type = "Limit" -> <<"<Limit", "</Limit">>
      [] type = "LimitExcept" -> <<"<LimitExcept", "</LimitExcept">> [] type = "If" -> <<"<If", "</If">>
      [] type = "ElseIf" -> <<"<ElseIf", "</ElseIf">>       [] type = "Else" -> <<"<Else", "</Else">>
ContainerTypes == {"IfModule", "FilesMatch", "Files", "RequireAny", "RequireAll", "Limit",
                   "LimitExcept", "If", "ElseIf", "Else"}

OpeningLine(d) ==
    LET words == CASE d.type = "FilesMatch" -> Quoted(d.name)
                   [] d.type \in {"IfModule", "Files"} -> Spaced(d.name)
                   [] d.type \in {"Limit", "LimitExcept"} -> d.name
                   [] OTHER -> <<>>
        cond == IF d.type \in {"If", "ElseIf"} /\ d.cond # NoCond
                THEN ConditionText(d.cond) ELSE <<>>
    IN  Line(TagName(d.type)[1], "", words, cond)

RECURSIVE PrintAll(_)
PrintDirective(d) ==
    IF d.type \in ContainerTypes
    THEN <<OpeningLine(d)>> \o PrintAll(d.kids) \o <<Line(TagName(d.type)[2], "", <<>>, <<>>)>>
    ELSE [i \in 1 .. Len(d.conds) |-> Line("line", "RewriteCond", PrintText(d.conds[i]), <<>>)]
         \o <<Line("line", Keyword(d), PrintText(d), <<>>)>>
PrintAll(list) ==
    IF list = <<>> THEN <<>> ELSE PrintDirective(Head(list)) \o PrintAll(Tail(list))

-----------------------------------------------------------------------------
(***************************************************************************)
(* flatten_ifmodule of the walker: an IfModule's children in its place.    *)
(***************************************************************************)
RECURSIVE Flatten(_)
Flatten(list) ==
    IF list = <<>> THEN <<>>
    ELSE LET d == Head(list) IN
         (IF d.type = "IfModule" THEN Flatten(d.kids) ELSE <<[d EXCEPT !.kids = Flatten(@)]>>)
         \o Flatten(Tail(list))

(***************************************************************************)
(* The reference.  Containers nest: an opening line is inside the          *)
(* container opened last, a closing line closes that one.  ref is the      *)
(* stack of what is open, below it the file; ok, whether the text can be   *)
(* read that way; order, whether no container is inside one of a kind the  *)
(* parser's slots put after it (Rank), or too deep for its stacks.         *)
(***************************************************************************)
Types == [tag \in {TagName(type)[1] : type \in ContainerTypes} |->
            CHOOSE type \in ContainerTypes : TagName(type)[1] = tag]
IsOpening(l) ==
    \/ FilesMatchOpen(l) \/ FilesOpen(l) \/ IfModuleOpen(l) \/ IfOpen(l) \/ ElseIfOpen(l) \/ ElseOpen(l)
    \/ RequireOpen(l, "<RequireAny") \/ RequireOpen(l, "<RequireAll") \/ LimitOpen(l)
IsClosing(l) == l.gt /\ l.tag \in {TagName(type)[2] : type \in ContainerTypes}

Bottom == [Container("file", None, <<>>) EXCEPT !.env = None]
RefStart == [ok |-> TRUE, order |-> TRUE, stack |-> <<Bottom>>]

RefNode(l) ==
    [Container(Types[l.tag], None, <<>>) EXCEPT
        !.name = IF l.text = <<>> THEN None ELSE Argument(l),
        !.cond = IF IfOpen(l) \/ ElseIfOpen(l) THEN Condition(l.cond) ELSE NoCond]
Rank(type) ==
    CASE type \in {"Limit", "LimitExcept"} -> 1   [] type = "RequireAll" -> 2
      [] type = "RequireAny" -> 3                  [] type \in {"Files", "FilesMatch"} -> 4
      [] OTHER -> 5
CountOf(stack, types) == Len(SelectSeq(stack, LAMBDA c : c.type \in types))
Branches == {"If", "ElseIf", "Else"}
InOrder(stack, type) ==
    IF type = "IfModule" THEN CountOf(stack, {type}) < MAX_IFMODULE_DEPTH
    ELSE /\ \A i \in 2 .. Len(stack) :
              \/ stack[i].type = "IfModule"
              \/ Rank(stack[i].type) < Rank(type)
              \/ stack[i].type = "RequireAny" /\ type = "RequireAll"
              \/ {stack[i].type, type} \subseteq Branches
         /\ Rank(type) > 3 =>
              ~\E i, j \in 1 .. Len(stack) :
                 i < j /\ stack[i].type = "RequireAny" /\ stack[j].type = "RequireAll"
         /\ type \in Branches => CountOf(stack, Branches) < MAX_IF_DEPTH
InRequire(stack) ==
    LET real == SelectSeq(stack, LAMBDA c : c.type # "IfModule") IN
    Last(real).type \in {"RequireAny", "RequireAll"}
RefDirective(r, top, d) ==
    IF d.type = "RewriteCond" THEN [r EXCEPT !.stack[Len(r.stack)].conds = Append(@, d)]
    ELSE IF d = Refused \/ (InRequire(r.stack) /\ d.type \notin RequireLines)
         THEN [r EXCEPT !.stack[Len(r.stack)].conds = IF d.type = "RewriteRule" THEN <<>> ELSE @]
    ELSE [r EXCEPT !.stack[Len(r.stack)] =
              [@ EXCEPT !.kids = Append(@, IF d.type = "RewriteRule"
                                           THEN [d EXCEPT !.conds = top.conds] ELSE d),
                        !.conds = IF d.type = "RewriteRule" THEN <<>> ELSE @]]
RefStep(r, l) ==
    LET top == Last(r.stack)
        waiting == top.conds # <<>>
    IN  IF ~r.ok THEN r
        ELSE IF IsOpening(l) THEN
               [ok |-> /\ ~waiting
                       /\ l.tag \in {"<ElseIf", "<Else"} =>
                            top.kids # <<>> /\ Last(top.kids).type \in {"If", "ElseIf"},
                order |-> r.order /\ InOrder(r.stack, Types[l.tag]),
                stack |-> Append(r.stack, RefNode(l))]
        ELSE IF IsClosing(l) THEN
               IF Len(r.stack) > 1 /\ l.tag = TagName(top.type)[2] /\ ~waiting
               THEN [r EXCEPT !.stack = AddKid(Front(@), top)] ELSE [r EXCEPT !.ok = FALSE]
        ELSE IF l.tag # "line" THEN [r EXCEPT !.ok = FALSE]
        ELSE RefDirective(r, top, ParseLine(l.kw, l.text))
Reference(lines) ==
    LET After_[i \in 0 .. Len(lines)] == IF i = 0 THEN RefStart ELSE RefStep(After_[i - 1], lines[i])
    IN  After_[Len(lines)]

-----------------------------------------------------------------------------
(***************************************************************************)
(* A text whose containers nest in the order of the parser's slots gives   *)
(* the tree that is written: no directive is lost, moved to another        *)
(* container, or put under another condition.  IfModules, which the walker *)
(* dissolves, may stand anywhere.                                          *)
(***************************************************************************)
Agrees(r, list) ==
    r.ok /\ r.order /\ Len(r.stack) = 1 => Flatten(list) = Flatten(r.stack[1].kids)
TreeAsWritten == Agrees(Reference(text), Finish(st))

(***************************************************************************)
(* What the printer writes is read back as it was (htaccess_printer.c:4):  *)
(* a tree the parser made, of a text right or not, is printed as a text    *)
(* that gives the same tree, its conditions of the same meaning.  The      *)
(* exceptions are directives with a value the printer does not quote,      *)
(* blocks whose condition did not parse, and containers that stand in one  *)
(* another out of the order of the parser's slots (tags closed crosswise   *)
(* give such a tree).                                                      *)
(***************************************************************************)
OneWord(v) == Len(v) = 1 /\ v[1] # Q
ReadBare(v) == v = None \/ (v # <<>> /\ ~InQuotes(v))
ReadSpaced(v) == v = None \/ (v # <<>> /\ Marks(v) = {})
Rereadable(d) ==
    CASE d.type = "Header" ->
            /\ OneWord(d.name) /\ (d.pat = None => ReadBare(d.value) /\ ExtractEnv(d.value).env = None)
            /\ d.pat # None => ReadSpaced(d.pat) /\ ReadSpaced(d.value)
      [] d.type = "RequestHeader" -> OneWord(d.name) /\ ReadSpaced(d.value)
      [] d.type = "SetEnv"        -> OneWord(d.name) /\ ReadSpaced(d.value)
      [] d.type = "RedirectMatch" -> ReadSpaced(d.pat) /\ ReadSpaced(d.value)
      [] d.type \in {"SetEnvIf", "SetEnvIfNoCase", "BrowserMatch"} ->
            ReadSpaced(d.pat) /\ ReadBare(d.name \o d.value) /\ OneWord(d.opt) /\ OneWord(d.name)
      [] d.type \in {"RewriteRule", "RewriteCond"} -> OneWord(d.pat) /\ OneWord(d.value)
      [] d.type \in {"ExpiresByType", "RewriteMap"} -> OneWord(d.name)
      [] d.type \in {"ExpiresDefault", "AuthName"} -> TRUE
      [] d.type = "BotChallengeIf" -> ~InQuotes(d.value)
      [] d.type \in TokenWords \cup TokenWords2 \cup RewriteWords -> OneWord(d.value)
      [] d.type = "Action"        -> OneWord(d.name) /\ OneWord(d.value)
      [] d.type \in {"Allow", "Deny", "FallbackResource"} -> OneWord(d.value)
      [] d.type \in {"RateLimit", "ErrorDocument"} -> d.value # <<>>
      [] OTHER                    -> (d.name = None \/ OneWord(d.name)) /\ ReadBare(d.value)

RECURSIVE AllRereadable(_), Meant(_)
AllRereadable(list) ==
    \A i \in 1 .. Len(list) :
        LET d == list[i] IN
        IF d.type \in ContainerTypes
        THEN /\ AllRereadable(d.kids)
             /\ d.type \in {"If", "ElseIf"} => d.cond # NoCond
             /\ d.type = "Files" => d.name # <<>>
        ELSE Rereadable(d) /\ \A j \in 1 .. Len(d.conds) : Rereadable(d.conds[j])
Meant(list) ==
    [i \in 1 .. Len(list) |->
        [list[i] EXCEPT !.cond = IF @ = NoCond THEN {} ELSE Meaning(@), !.kids = Meant(@)]]

Nests(r) == r.ok /\ r.order
ReadsAs(lines, list) == Nests(Reference(lines)) => Meant(Parse(lines)) = Meant(list)
PrintsBack == AllRereadable(st.top) => ReadsAs(PrintAll(st.top), st.top)
=============================================================================
