------------------------------ MODULE MCConfig ------------------------------
(***************************************************************************)
(* Texts for the parser: up to MaxOpen containers and MaxLeaves lines of   *)
(* directives, nested in every way, with up to MaxStray tags that do not   *)
(* fit, at most Budget of all three together; and texts of one directive,  *)
(* one for each form a parser knows.                                       *)
(***************************************************************************)
EXTENDS Printer, TLC

CONSTANTS MaxOpen, MaxLeaves, MaxStray, Budget

(***************************************************************************)
(* Conditions: those of Expr over two variables, each "" or "x".           *)
(***************************************************************************)
MCNoCond == [op |-> "NULL"]
MCRegex(p, s) == IF p = "(" THEN "invalid" ELSE IF p = s THEN "match" ELSE "no"
MCIntOf(a) == IF a = "1" THEN {1} ELSE IF a = "2" THEN {2} ELSE {}
MCAddr(a) == IF a = "net" THEN [form |-> "v4", o |-> <<1, 0>>, len |-> 1]
             ELSE [form |-> "v4", o |-> <<1, 1>>, len |-> -1]
E == INSTANCE Expr WITH
        OctetBits <- 1, Octets4 <- 2, Octets6 <- 3, EXPR_MAX_DEPTH <- 4,
        Less <- LAMBDA a, b : a = "" /\ b # "", IntOf <- MCIntOf, Regex <- MCRegex,
        Lower <- LAMBDA a : IF a = "X" THEN "x" ELSE a, Upper <- LAMBDA a : IF a = "x" THEN "X" ELSE a,
        Requoted <- LAMBDA a : <<a>>, AddrOf <- MCAddr
MCCondition(toks) == E!ExprParse(toks)
MCConditionText(n) == E!ExprToString(n)
Asked ==
    {[var |-> [x \in {"A", "B"} |-> IF x = "A" THEN a ELSE b], file |-> ("x" :> "file"),
      ip |-> MCAddr("host")] : a \in {"", "x"}, b \in {"", "x"}}
MCMeaning(c) == {s \in Asked : E!Eval(s, c)}

T(op) == E!Tok(op)
A == E!Val("VAR", "A")
B == E!Val("VAR", "B")
X == E!Val("STRING", "x")
IsX(v) == <<v, T("=="), X>>
Conditions ==
    { IsX(A),
      <<A>>,                                                                     \* a bare value
      <<T("!"), T("(")>> \o IsX(A) \o <<T("&&")>> \o IsX(B) \o <<T(")")>>,
      <<T("("), A, T("!="), X, T("||")>> \o IsX(B) \o <<T(")"), T("&&")>> \o IsX(A),
      IsX(A) \o <<T("||")>> \o IsX(B) \o <<T("&&"), T("!")>> \o IsX(A),
      IsX(A) \o <<T("||"), T("("), A, T("<"), B, T("||"), B, T(">="), A, T(")")>>,
      <<T("-f"), A, T("&&"), T("!"), T("-d"), B>>,
      <<A, T("=~"), E!Val("REGEX", "x"), T("||"), B, T("!~"), E!Val("REGEX", "(")>>,
      <<T("tolower"), T("("), E!Val("STRING", "X"), T(")"), T("==")>> \o <<B>>,
      <<T("-ipmatch"), E!Val("STRING", "net")>>,
      <<E!Val("STRING", "host"), T("-ipmatch"), E!Val("STRING", "net")>>,
      <<E!Val("INTEGER", "1"), T("-lt"), E!Val("INTEGER", "2"), T("&&")>> \o IsX(B),
      <<A, T("==")>>,                                                            \* does not parse
      <<T("!"), T("!"), T("!"), T("!"), T("!"), A>> }                            \* too deep

(***************************************************************************)
(* Words.                                                                  *)
(***************************************************************************)
MCNumberOf(w) ==
    CASE w = "301" -> 301 [] w = "302" -> 302 [] w = "401" -> 401 [] w = "404" -> 404
      [] w = "410" -> 410 [] w = "307" -> 307 [] w = "5" -> 5 [] w = "0" -> 0 [] OTHER -> -1
MCNumeral(n) == ToString(n)
MCSplitAt(w, c) ==
    CASE w = "N=V" /\ c = "=" -> <<"N", "V">> [] w = "txt:/m" /\ c = ":" -> <<"txt", "/m">>
      [] OTHER -> <<w>>
MCJoined(a, c, b) == a \o c \o b
MCIsPath(w) == w \in {"/a", "/b"}
MCIsUrl(w) == w = "http://x"
MCIsDuration(t) == t \in {<<"A5">>, <<"access", "plus">>}

Directive(kw, words) == Line("line", kw, words, <<>>)
\* An argument: a word, nothing, several words, the same in quotes, quotes inside.
Arguments == { <<>>, <<"a">>, <<"a", "b">>, <<Q, "a", Q>>, <<Q, "a", "b", Q>>, <<Q, Q>>,
               <<Q, "a", Q, "b">>, <<Q, Q, "a", Q, Q>>, <<"on">>, <<"/a">>, <<"5">>, <<"0">>,
               <<"all", "granted">>, <<"all", "a">>, <<"not", "ip", "a">>, <<"not", "a">>,
               <<"ip", "a", "b">>, <<"valid-user">>, <<"user", "a", "b">>, <<"env", "a", "b">>,
               <<"from", "a", "b">>, <<"Allow,Deny">>, <<"log">>, <<"disabled">>,
               <<"301", "/a", "/b">>, <<"307", "/a", "/b">>, <<"gone", "/a">>, <<"410", "/a", "b">>,
               <<"/a", "/b">>, <<"/a">>, <<"permanent", "/a">>, <<"permanent", Q, "/a", "b", Q, "/b">>,
               <<"404", Q, "a", "b", Q>>, <<"404", "/a">>, <<"401", "http://x">>, <<"401", "/a">>,
               <<"a", "A5">>, <<"a", Q, "access", "plus", Q>>, <<"A5">>, <<"a", "on">>,
               <<"a", "b", "N=V">>, <<"a", "b", "N=V", "c">>, <<"a", Q, "b", "c", Q, "a">>, <<"a", "N=V">>,
               <<"a", "b", "[", "L", "]">>, <<"a", "b", "[", "L">>, <<"a", Q, "b", "c", Q, "[", "L", "]">>,
               <<"a", "txt:/m">>, <<"set", "H", "a">>, <<"always", "set", "H", Q, "a", "b", Q, "env=", "E">>,
               <<"set", "H", Q, "a", "env=", "E", Q>>, <<"set", "H", Q, Q>>, <<"onsuccess", "unset", "H", "env=", "E">>,
               <<"edit", "H", Q, "a", "b", Q, "c">>, <<"always", "edit*", "H", "a", "b", "env=", "E">>,
               <<"set", "H", "a", "env=", "E", "env=", "F">>, <<"set", "H", "a", "env=", "E", "b">>,
               <<"merge", Q, "H", "I", Q, "a">>, <<"unset", "H">>, <<"drop", "H">> }
Keywords ==
    {"Header", "RequestHeader", "php_value", "php_flag", "SetEnv", "Order", "Allow", "Redirect",
     "RedirectMatch", "ErrorDocument", "FallbackResource", "CacheEnable", "CacheDisable", "RateLimit",
     "SecRuleEngine", "EsiEnable", "BotChallengeTTL", "BotChallengeIf", "ExpiresByType",
     "ExpiresDefault", "SetEnvIf", "BrowserMatch", "BruteForceWindow", "BruteForceAction",
     "BruteForceXForwardedFor", "Require", "AddType", "Action", "AuthName", "Options", "Satisfy",
     "RewriteBase", "RewriteRule", "RewriteMap", "Unknown"}
Singles == {Directive(kw, t) : kw \in Keywords, t \in Arguments}

(***************************************************************************)
(* Nested texts.                                                           *)
(***************************************************************************)
Openings ==
    { Line("<IfModule", "", <<"m">>, <<>>), Line("<FilesMatch", "", <<Q, "a", Q>>, <<>>),
      Line("<Files", "", <<"a">>, <<>>), Line("<RequireAny", "", <<>>, <<>>),
      Line("<RequireAll", "", <<>>, <<>>), Line("<Limit", "", <<"GET">>, <<>>),
      Line("<If", "", <<>>, IsX(A)), Line("<ElseIf", "", <<>>, IsX(B)), Line("<Else", "", <<>>, <<>>) }
Closings == {Line(TagName(type)[2], "", <<>>, <<>>) : type \in ContainerTypes}
Misfits == {Line(TagName(type)[2], "", <<>>, <<>>) : type \in {"IfModule", "RequireAny", "Files", "If"}}
RequireIp == Directive("Require", <<"ip", "a">>)
Leaves == { RequireIp,
            Directive("RewriteCond", <<"a", "b">>), Directive("RewriteRule", <<"a", "b">>) }
IfLines == {Line("<If", "", <<>>, c) : c \in Conditions}
MCLines == Openings \cup Closings \cup Leaves \cup Singles \cup IfLines \cup Misfits
             \cup {[l EXCEPT !.gt = FALSE] : l \in Openings}

Counted(set) == Len(SelectSeq(text, LAMBDA l : l \in set))
Opened == SelectSeq(text, LAMBDA l : l \in Openings \cup IfLines)
\* The closing line of what is open by counting tags; strays are all others.
RECURSIVE StillOpen(_, _)
StillOpen(lines, open) ==
    IF lines = <<>> THEN open
    ELSE LET l == Head(lines) IN
         StillOpen(Tail(lines),
                   IF l.tag \in DOMAIN Types THEN Append(open, TagName(Types[l.tag])[2])
                   ELSE IF open # <<>> /\ l.tag = Last(open) THEN Front(open) ELSE open)
Strays == LET open == [i \in 0 .. Len(text) |-> StillOpen(SubSeq(text, 1, i), <<>>)] IN
          Cardinality({i \in 1 .. Len(text) : text[i].tag \notin DOMAIN Types \cup {"line"}
                                            /\ (open[i - 1] = <<>> \/ Last(open[i - 1]) # text[i].tag)})
NextLines ==
    LET open   == StillOpen(text, <<>>)
        fits   == IF open = <<>> THEN {} ELSE {l \in Closings : l.tag = Last(open)}
        single == text # <<>> /\ text[1] \in Singles \ Leaves
        lone   == text # <<>> /\ text[1] \in IfLines \ Openings
        spent  == Len(Opened) + Counted(Leaves) + Strays
    IN  IF single THEN {}
        ELSE (IF text = <<>> THEN Singles \cup IfLines ELSE {})
             \cup fits
             \cup (IF ~lone /\ spent < Budget /\ Len(Opened) < MaxOpen THEN Openings ELSE {})
             \cup (IF spent < Budget /\ Counted(Leaves) < (IF lone THEN 1 ELSE MaxLeaves)
                   THEN Leaves
                   ELSE IF Strays = MaxStray /\ Counted(Leaves) = 0 /\ "</RequireAny" \in Range(open)
                        THEN {RequireIp} ELSE {})
             \cup (IF ~lone /\ spent < Budget /\ Strays < MaxStray THEN Misfits \ fits ELSE {})

MCNext == \E l \in NextLines : Read(l)
MCSpec == Init /\ [][MCNext]_vars
=============================================================================
