-------------------------------- MODULE Leaf --------------------------------
(***************************************************************************)
(* One directive of a .htaccess file: the parsers that parse_line of       *)
(* htaccess_parser.c dispatches to, and what print_directive of            *)
(* htaccess_printer.c writes for what they read.                           *)
(*                                                                         *)
(* A text is a sequence of words and quote marks, the blanks between them  *)
(* left out; a value of a directive is such a sequence again.  A directive *)
(* is a record with the same fields for all types, None (or 0, <<>>) where *)
(* the code's structure has nothing:                                       *)
(*   type   the directive's name; name, value, pat, env  its strings;      *)
(*   opt    what is kept as a flag or an enumeration; num  a number;       *)
(*   conds  the conditions of a RewriteRule; cond, kids  of a container.   *)
(* Keywords are written in one case: the code compares without regard to   *)
(* it.                                                                     *)
(***************************************************************************)
EXTENDS Integers, Sequences, SequencesExt

CONSTANTS
    NumberOf(_),     \* strtol of the whole word, NotNumber if some is left
    Numeral(_),      \* %d of a number
    SplitAt(_, _),   \* the two parts of a word round the first "=" or ":", or the word alone
    Joined(_, _, _), \* the word of two parts with that character between them
    IsPath(_),       \* the word begins with "/"
    IsUrl(_),        \* the word begins with http:// or https://
    IsDuration(_),   \* parse_duration accepts the text
    NoCond           \* no parsed condition

Q == "quote mark"
None == <<"NULL">>
NotNumber == -1

D(type) ==
    [type |-> type, name |-> None, value |-> None, pat |-> None, env |-> None,
     opt |-> <<>>, num |-> 0, conds |-> <<>>, cond |-> NoCond, kids |-> <<>>]

-----------------------------------------------------------------------------
(***************************************************************************)
(* Reading a text.  next_token: the words up to the closing quote mark (or *)
(* the end), without the marks, or one word.                               *)
(***************************************************************************)
Marks(t) == {i \in 1 .. Len(t) : t[i] = Q}

NextToken(t) ==
    IF t = <<>> THEN [tok |-> None, rest |-> t]
    ELSE IF Head(t) # Q THEN [tok |-> <<Head(t)>>, rest |-> Tail(t)]
    ELSE LET close == Marks(t) \ {1}
             end   == IF close = {} THEN Len(t) + 1 ELSE Min(close)
         IN  [tok |-> SubSeq(t, 2, end - 1), rest |-> SubSeq(t, end + 1, Len(t))]

Tok(t) == NextToken(t).tok
After(t) == NextToken(t).rest

InQuotes(v) == Len(v) >= 2 /\ Head(v) = Q /\ Last(v) = Q
Unquoted(v) == IF InQuotes(v) THEN SubSeq(v, 2, Len(v) - 1) ELSE v

RestOfLineRaw(t) == IF t = <<>> THEN None ELSE t
RestOfLine(t) == IF t = <<>> THEN None ELSE Unquoted(t)

(***************************************************************************)
(* extract_env_condition: the env= that follows the last quote mark of a   *)
(* value, or, without marks, the last env= of it; exactly one word must    *)
(* follow.  The value is cut there and loses its quotes.                   *)
(***************************************************************************)
ExtractEnv(v) ==
    LET after == IF Marks(v) = {} THEN 1 ELSE Max(Marks(v))
        at    == {i \in after + 1 .. Len(v) : v[i] = "env="}
        pos   == IF Marks(v) = {} THEN Max(at) ELSE Min(at)
    IN  IF at = {} \/ pos + 1 # Len(v) THEN [env |-> None, value |-> v]
        ELSE [env |-> <<v[pos + 1]>>, value |-> Unquoted(SubSeq(v, 1, pos - 1))]

\* What follows the arguments of Header unset and edit.
EnvSuffix(t) == IF Len(t) > 1 /\ Head(t) = "env=" THEN Tail(t) ELSE None

-----------------------------------------------------------------------------
(***************************************************************************)
(* The parsers.  None of a directive: the parser returns NULL, the line is *)
(* a syntax error.                                                         *)
(***************************************************************************)
Refused == D("syntax error")
Unless(bad, d) == IF bad THEN Refused ELSE d

HeaderActs == {"set", "append", "merge", "add"}
EditActs == {"edit", "edit*"}
\* An action that is one of acts.
Is(act, acts) == \E a \in acts : act = <<a>>
ValueAndEnv(d, got) == [d EXCEPT !.value = got.value, !.env = got.env]
EditOf(d, rest) ==
    Unless(Tok(After(rest)) = None,
           [d EXCEPT !.pat = Tok(rest), !.value = Tok(After(rest)),
                     !.env = EnvSuffix(After(After(rest)))])
HeaderAct(table, act, name, rest) ==
    LET d == [D("Header") EXCEPT !.opt = table \o act, !.name = name] IN
    IF name = None THEN Refused
    ELSE IF Is(act, HeaderActs)
         THEN Unless(rest = <<>>, ValueAndEnv(d, ExtractEnv(RestOfLine(rest))))
    ELSE IF Is(act, {"unset"}) THEN [d EXCEPT !.env = EnvSuffix(rest)]
    ELSE IF Is(act, EditActs) THEN EditOf(d, rest)
    ELSE Refused
HeaderIn(table, t) == HeaderAct(table, Tok(t), Tok(After(t)), After(After(t)))
ParseHeader(t) ==
    IF Tok(t) = <<"always">> THEN HeaderIn(<<"always">>, After(t))
    ELSE HeaderIn(<<>>, IF Tok(t) = <<"onsuccess">> THEN After(t) ELSE t)

RequestHeaderAct(act, name, rest) ==
    LET d == [D("RequestHeader") EXCEPT !.opt = act, !.name = name] IN
    IF name = None \/ act \notin {<<"set">>, <<"unset">>} THEN Refused
    ELSE IF act = <<"unset">> THEN d
    ELSE Unless(rest = <<>>, [d EXCEPT !.value = RestOfLine(rest)])
ParseRequestHeader(t) == RequestHeaderAct(Tok(t), Tok(After(t)), After(After(t)))

\* One token, one rest of line, a token and the rest (needed or not), two tokens.
OneToken(type, t) == Unless(Tok(t) = None, [D(type) EXCEPT !.value = Tok(t)])
WholeRest(type, t) == Unless(t = <<>>, [D(type) EXCEPT !.value = RestOfLine(t)])
NameAndMaybe(type, t) ==
    Unless(Tok(t) = None, [D(type) EXCEPT !.name = Tok(t), !.value = RestOfLine(After(t))])
NameAndRest(type, t) == Unless(After(t) = <<>>, NameAndMaybe(type, t))
TwoTokens(type, t) ==
    Unless(Tok(After(t)) = None, [D(type) EXCEPT !.name = Tok(t), !.value = Tok(After(t))])

OnOff == {<<"on">>, <<"off">>}
PhpFlag(type, t) == Unless(Tok(After(t)) \notin OnOff, TwoTokens(type, t))
Choice(type, t, allowed) ==
    Unless(Tok(t) \notin allowed, [D(type) EXCEPT !.opt = Tok(t)])
ParseOrder(t) ==
    Unless(t # <<>> /\ Head(t) = Q, Choice("Order", t, {<<"Allow,Deny">>, <<"Deny,Allow">>}))
\* BruteForceXForwardedFor: whatever is not On is Off.
OnOrOff(type, t) ==
    Unless(Tok(t) = None,
           [D(type) EXCEPT !.opt = IF Tok(t) = <<"on">> THEN <<"on">> ELSE <<"off">>])
OneNumber(v) == IF Len(v) = 1 THEN NumberOf(v[1]) ELSE NotNumber
Positive(type, t) ==
    Unless(OneNumber(Tok(t)) <= 0, [D(type) EXCEPT !.num = OneNumber(Tok(t))])
Digits(type, t) == Unless(OneNumber(Tok(t)) = NotNumber, OneToken(type, t))

\* Allow/Deny from: the first word after "from" only.
ParseFrom(type, t) ==
    IF t = <<>> \/ Head(t) # "from" THEN Refused ELSE OneToken(type, Tail(t))

(***************************************************************************)
(* Redirect and RedirectMatch: a status as a number or a keyword, or none  *)
(* (302); the target may be missing for 410 only.                          *)
(***************************************************************************)
Statuses == 100 .. 599
RedirectKeyword(v) ==
    CASE v = <<"permanent">> -> 301
      [] v = <<"temp">>      -> 302
      [] v = <<"seeother">>  -> 303
      [] v = <<"gone">>      -> 410
      [] OTHER               -> NotNumber
StatusOf(v) == IF OneNumber(v) \in Statuses THEN OneNumber(v) ELSE RedirectKeyword(v)
RedirectOf(type, code, from, to) ==
    LET d == [D(type) EXCEPT !.num = code, !.value = to] IN
    Unless(from = None \/ (to = None /\ code # 410),
           IF type = "Redirect" THEN [d EXCEPT !.name = from] ELSE [d EXCEPT !.pat = from])
ParseRedirect(type, t) ==
    LET code == StatusOf(Tok(t)) IN
    IF code = NotNumber THEN RedirectOf(type, 302, Tok(t), RestOfLine(After(t)))
    ELSE RedirectOf(type, code, Tok(After(t)), RestOfLine(After(After(t))))

\* The value keeps its quotes; a 401 page on another site is refused.
ErrorPageOf(code, value) ==
    Unless(code \notin Statuses \/ value = <<>> \/ (code = 401 /\ IsUrl(Head(value))),
           [D("ErrorDocument") EXCEPT !.num = code, !.value = value])
ParseErrorDocument(t) ==
    ErrorPageOf(OneNumber(Tok(t)), After(t))

ParseFallback(t) ==
    Unless(Tok(t) = <<>> \/ (Tok(t) # <<"disabled">> /\ ~IsPath(Tok(t)[1])), OneToken("FallbackResource", t))

\* RateLimit: every token, one blank between them.
ParseRateLimit(t) ==
    Unless(t = <<>>, [D("RateLimit") EXCEPT !.value = SelectSeq(t, LAMBDA w : w # Q)])

ParseBotChallengeIf(t) ==
    LET v == RestOfLine(t) IN
    Unless(v \in {None, <<>>}, [D("BotChallengeIf") EXCEPT !.value = Unquoted(v)])

Lasting(d) == Unless(d = Refused \/ ~IsDuration(d.value), d)
ParseExpires(type, t) ==
    Lasting(IF type = "ExpiresByType" THEN NameAndRest(type, t) ELSE WholeRest(type, t))

(***************************************************************************)
(* name=value, split at the first "=" of the rest of the line; without one *)
(* the whole is the name and the value is empty.                           *)
(***************************************************************************)
Assigned(v) ==
    LET at == {i \in 1 .. Len(v) : Len(SplitAt(v[i], "=")) = 2}
        i  == Min(at)
    IN  IF at = {} THEN [name |-> v, value |-> <<>>]
        ELSE [name  |-> Append(SubSeq(v, 1, i - 1), SplitAt(v[i], "=")[1]),
              value |-> <<SplitAt(v[i], "=")[2]>> \o SubSeq(v, i + 1, Len(v))]

EnvIfOf(d, a) == [d EXCEPT !.name = a.name, !.value = a.value]
ParseEnvIf(type, attribute, t) ==
    Unless(After(t) = <<>>,
           EnvIfOf([D(type) EXCEPT !.opt = attribute, !.pat = Tok(t)], Assigned(RestOfLine(After(t)))))
ParseSetEnvIf(type, t) ==
    Unless(Tok(t) = None, ParseEnvIf(type, Tok(t), After(t)))

\* The forms of Require; a form the code does not know never grants.
ParseRequire(t) ==
    LET kw == IF t = <<>> THEN "" ELSE Head(t)
        next == IF Len(t) < 2 THEN "" ELSE t[2]
    IN  CASE kw = "all" -> Unless(next \notin {"granted", "denied"},
                                  D(IF next = "granted" THEN "Require all granted"
                                                        ELSE "Require all denied"))
          [] kw = "not" -> IF next # "ip" THEN Refused
                           ELSE WholeRest("Require not ip", SubSeq(t, 3, Len(t)))
          [] kw = "ip"  -> WholeRest("Require ip", Tail(t))
          [] kw = "valid-user" -> D("Require valid-user")
          [] kw = "user" -> WholeRest("Require user", Tail(t))
          [] kw = "env"  -> Unless(Tok(Tail(t)) = None,
                                   [D("Require env") EXCEPT !.name = Tok(Tail(t))])
          [] OTHER       -> [D("Require group") EXCEPT !.value = RestOfLine(t)]

(***************************************************************************)
(* RewriteCond and RewriteRule: two tokens, then flags from "[" to "]".    *)
(* Flags that are not closed are dropped.                                  *)
(***************************************************************************)
Flags(t) ==
    LET close == {i \in 1 .. Len(t) : t[i] = "]"} IN
    IF t = <<>> \/ Head(t) # "[" \/ close = {} THEN None ELSE SubSeq(t, 1, Min(close))
ParseRewrite(type, t) ==
    Unless(Tok(After(t)) = None,
           [D(type) EXCEPT !.pat = Tok(t), !.value = Tok(After(t)), !.opt = Flags(After(After(t)))])
MapOf(name, source) ==
    LET parts == IF Len(source) = 1 THEN SplitAt(source[1], ":") ELSE <<>> IN
    Unless(source = None \/ Len(parts) # 2, [D("RewriteMap") EXCEPT !.name = name, !.value = parts])
ParseRewriteMap(t) ==
    MapOf(Tok(t), Tok(After(t)))

-----------------------------------------------------------------------------
(***************************************************************************)
(* parse_line: the parser of a keyword.                                    *)
(***************************************************************************)
TokenWords == {"CacheEnable", "CacheMaxExpire", "CacheDefaultExpire", "BotChallengeExempt",
               "BotChallengeTrustedProxy", "BotChallengePage"}
TokenWords2 == {"AuthType", "ForceType", "AddDefaultCharset", "DefaultType", "Satisfy",
                "BruteForceProtectPath"}
RewriteWords == {"RewriteEngine", "RewriteBase", "RewriteOptions"}
RestWords == {"AuthName", "AuthUserFile", "SetHandler", "DirectoryIndex", "RemoveType",
              "RemoveHandler", "BruteForceWhitelist", "BruteForceTrustedProxy", "Options"}
TypeWords == {"AddHandler", "AddType", "AddEncoding", "AddCharset"}
NumberWords == {"BruteForceAllowedAttempts", "BruteForceWindow", "BruteForceThrottleDuration"}
SwitchWords == {"ExpiresActive", "BruteForceProtection", "EsiEnable", "BotChallenge"}

ParseFirst(kw, t) ==
    CASE kw = "Header"        -> ParseHeader(t)
      [] kw = "RequestHeader" -> ParseRequestHeader(t)
      [] kw \in {"php_value", "php_admin_value", "SetEnv"} -> NameAndRest(kw, t)
      [] kw \in {"php_flag", "php_admin_flag"} -> PhpFlag(kw, t)
      [] kw = "Order"            -> ParseOrder(t)
      [] kw \in {"Allow", "Deny"} -> ParseFrom(kw, t)
      [] kw \in {"Redirect", "RedirectMatch"} -> ParseRedirect(kw, t)
      [] kw = "ErrorDocument"    -> ParseErrorDocument(t)
      [] kw = "FallbackResource" -> ParseFallback(t)
      [] kw \in TokenWords       -> OneToken(kw, t)
      [] kw = "CacheDisable"     -> D(kw)
      [] kw = "RateLimit"        -> ParseRateLimit(t)
      [] kw = "SecRuleEngine"    -> Choice(kw, t, OnOff \cup {<<"detectiononly">>})
      [] kw \in SwitchWords      -> Choice(kw, t, OnOff)
      [] kw \in {"BotChallengeTTL", "BotChallengeDifficulty"} -> Digits(kw, t)
      [] kw = "BotChallengeIf"   -> ParseBotChallengeIf(t)
      [] kw \in {"ExpiresByType", "ExpiresDefault"} -> ParseExpires(kw, t)
      [] OTHER                   -> Refused

ParseSecond(kw, t) ==
    CASE kw \in {"SetEnvIf", "SetEnvIfNoCase"} -> ParseSetEnvIf(kw, t)
      [] kw = "BrowserMatch"     -> ParseEnvIf(kw, <<"User-Agent">>, t)
      [] kw \in NumberWords      -> Positive(kw, t)
      [] kw = "BruteForceAction" -> Choice(kw, t, {<<"block">>, <<"throttle">>, <<"log">>})
      [] kw = "BruteForceXForwardedFor" -> OnOrOff(kw, t)
      [] kw = "Require"          -> ParseRequire(t)
      [] kw \in TypeWords        -> NameAndMaybe(kw, t)
      [] kw = "Action"           -> TwoTokens(kw, t)
      [] kw \in RestWords        -> WholeRest(kw, t)
      [] kw \in TokenWords2 \cup RewriteWords -> OneToken(kw, t)
      [] kw \in {"RewriteCond", "RewriteRule"} -> ParseRewrite(kw, t)
      [] kw = "RewriteMap"       -> ParseRewriteMap(t)
      [] OTHER                   -> Refused

OrElse(d, e) == IF d # Refused THEN d ELSE e
ParseLine(kw, t) == OrElse(ParseFirst(kw, t), ParseSecond(kw, t))
=============================================================================
