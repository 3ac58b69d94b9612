-------------------------------- MODULE Expr --------------------------------
(***************************************************************************)
(* The conditions of <If> and <ElseIf>: htaccess_expr.c.  A condition is a *)
(* sequence of tokens, parsed by recursive descent into a tree, evaluated  *)
(* against the request, and printed back to text.                          *)
(*                                                                         *)
(* Token: [op, v], op an operator or the kind of a value, v its text.      *)
(* Node:  [op, v, l, r], l and r Nil where the code has NULL.              *)
(*                                                                         *)
(* A request is a record with the fields                                   *)
(*   var    the value of every %{VAR} (missing ones are absent)            *)
(*   file   kind of every path that exists: "file" "empty" "dir" "link"    *)
(*   ip     the client's address, a text of Cidr                           *)
(* Strings are opaque; what the C library and PCRE say of them is given    *)
(* by the constants.                                                       *)
(***************************************************************************)
EXTENDS Cidr, TLC

CONSTANTS
    EXPR_MAX_DEPTH,       \* nesting and operators a condition may have
    Less(_, _),           \* strcmp(a, b) < 0
    IntOf(_),             \* {strtol of the whole string}, {} if some is left
    Regex(_, _),          \* "match" | "no" | "limit" | "invalid" for pattern, subject
    Lower(_), Upper(_),   \* tolower, toupper
    Requoted(_),          \* the string tokens read back from '...' round a string
    AddrOf(_)             \* the address or range a string denotes, a text of Cidr

Nil == [op |-> "NULL"]
Node(op, v, l, r) == [op |-> op, v |-> v, l |-> l, r |-> r]
Leaf(op, v) == Node(op, v, Nil, Nil)
Tok(op) == [op |-> op, v |-> ""]
Val(op, v) == [op |-> op, v |-> v]

ValueKinds == {"STRING", "VAR", "REGEX", "INTEGER"}
FileTests  == {"-f", "-d", "-s", "-l", "-e"}
Functions_ == {"tolower", "toupper"}
StrCompare == {"==", "!=", "<", ">", "<=", ">="}
IntCompare == {"-eq", "-ne", "-lt", "-le", "-gt", "-ge"}
RegexOps   == {"=~", "!~"}
Compare    == StrCompare \cup IntCompare \cup RegexOps

-----------------------------------------------------------------------------
(***************************************************************************)
(* Parsing.  t = [n, toks, depth, err]: the node parsed last (Nil for a    *)
(* NULL return), the tokens left, the depth counter and the error flag.    *)
(* depth is given back by "!", "(" and the functions, never by && and ||,  *)
(* so a condition has at most EXPR_MAX_DEPTH of those.                     *)
(***************************************************************************)
Cur(t) == IF t.toks = <<>> THEN "EOF" ELSE Head(t.toks).op
Next_(t) == [t EXCEPT !.toks = IF @ = <<>> THEN @ ELSE Tail(@)]
Fail(t) == [t EXCEPT !.n = Nil, !.err = TRUE]
Give(t, n) == [t EXCEPT !.n = n]
Deeper(t) == [t EXCEPT !.depth = @ + 1]
Back(t) == [t EXCEPT !.depth = @ - 1]
TooDeep(t) == t.depth > EXPR_MAX_DEPTH

ParseValue(t) ==
    IF Cur(t) \in ValueKinds
    THEN Give(Next_(t), Leaf(Head(t.toks).op, Head(t.toks).v))
    ELSE Give(t, Nil)

Applied(op, a) == IF a.n = Nil THEN Fail(a) ELSE Give(a, Node(op, "", a.n, Nil))
\* -f value, -ipmatch value: an operand that is missing is an error.
ParseUnary(t) ==
    Applied(Cur(t), ParseValue(Next_(t)))

RECURSIVE ParseOr(_), ParseNot(_), AndRest(_), OrRest(_)

\* '(' expr ')': the node inside may be NULL without an error ("()").
Closed(inner) == IF Cur(inner) = ")" THEN Back(Next_(inner)) ELSE Fail(inner)
ParseParen(t) ==
    IF TooDeep(Deeper(t)) THEN Fail(Deeper(t)) ELSE Closed(ParseOr(Next_(Deeper(t))))

Called(op, arg) ==
    IF arg.n = Nil \/ Cur(arg) # ")" THEN Fail(arg)
    ELSE Give(Back(Next_(arg)), Node(op, "", arg.n, Nil))
ParseCall(t) ==
    LET open == Next_(Deeper(t)) IN
    IF TooDeep(Deeper(t)) THEN Fail(Deeper(t))
    ELSE IF Cur(open) # "(" THEN Fail(open)
    ELSE Called(Cur(t), ParseOr(Next_(open)))

ParsePrimary(t) ==
    CASE Cur(t) = "("                            -> ParseParen(t)
      [] Cur(t) \in FileTests \cup {"-ipmatch"}  -> ParseUnary(t)
      [] Cur(t) \in Functions_                   -> ParseCall(t)
      [] OTHER                                   -> ParseValue(t)

\* One comparison: the right side of -ipmatch is a value, of the others a primary.
Compared(op, left, right) ==
    IF right.n = Nil THEN Fail(right) ELSE Give(right, Node(op, "", left, right.n))
CmpRest(left) ==
    IF left.n = Nil \/ Cur(left) \notin Compare \cup {"-ipmatch"} THEN left
    ELSE Compared(Cur(left), left.n,
                  IF Cur(left) = "-ipmatch" THEN ParseValue(Next_(left)) ELSE ParsePrimary(Next_(left)))
ParseCmp(t) == CmpRest(ParsePrimary(t))

Negated(inner) == IF inner.n = Nil THEN inner ELSE Give(inner, Node("!", "", inner.n, Nil))
ParseNot(t) ==
    IF Cur(t) # "!" THEN ParseCmp(t)
    ELSE IF TooDeep(Deeper(t)) THEN Fail(Deeper(t))
    ELSE Negated(Back(ParseNot(Next_(Deeper(t)))))

\* What follows "left &&", and "left ||".
AndOf(left, right) ==
    IF right.n = Nil THEN right ELSE AndRest(Give(right, Node("&&", "", left, right.n)))
AndRest(t) ==
    IF t.n = Nil \/ Cur(t) # "&&" THEN t
    ELSE IF TooDeep(Deeper(t)) THEN Fail(Deeper(t))
    ELSE AndOf(t.n, ParseNot(Next_(Deeper(t))))

ParseAnd(t) == AndRest(ParseNot(t))

OrOf(left, right) ==
    IF right.n = Nil THEN right ELSE OrRest(Give(right, Node("||", "", left, right.n)))
OrRest(t) ==
    IF t.n = Nil \/ Cur(t) # "||" THEN t
    ELSE IF TooDeep(Deeper(t)) THEN Fail(Deeper(t))
    ELSE OrOf(t.n, ParseAnd(Next_(Deeper(t))))

ParseOr(t) == OrRest(ParseAnd(t))

(***************************************************************************)
(* expr_parse: tokens left over are an error; a condition that is one bare *)
(* value becomes the test value != ''.                                     *)
(***************************************************************************)
Whole(t) ==
    IF t.err \/ t.n = Nil \/ t.toks # <<>> THEN Nil
    ELSE IF t.n.op \in ValueKinds THEN Node("!=", "", t.n, Leaf("STRING", ""))
    ELSE t.n
ExprParse(toks) == Whole(ParseOr([n |-> Nil, toks |-> toks, depth |-> 0, err |-> FALSE]))

-----------------------------------------------------------------------------
(***************************************************************************)
(* Evaluation.                                                             *)
(***************************************************************************)
\* expr_expand_var: an unknown variable is the empty string.
ExpandVar(s, name) ==
    IF name = "SERVER_PORT" THEN "80"
    ELSE IF name \in DOMAIN s.var THEN s.var[name] ELSE ""

RECURSIVE NodeStr(_, _), Eval(_, _)
NodeStr(s, n) ==
    CASE n.op = "VAR"                          -> ExpandVar(s, n.v)
      [] n.op \in {"STRING", "INTEGER", "REGEX"} -> n.v
      [] n.op = "tolower"                      -> Lower(NodeStr(s, n.l))
      [] n.op = "toupper"                      -> Upper(NodeStr(s, n.l))
      [] OTHER                                 -> ""

\* A pattern that does not compile is false even negated; a match that hits
\* a limit counts as no match, which a negation turns round.
RegexMatch(subject, pattern, negate) ==
    LET out == Regex(pattern, subject) IN
    /\ pattern # "" /\ out # "invalid"
    /\ IF negate THEN out # "match" ELSE out = "match"

FileTest(s, op, path) ==
    LET kind == s.file[path] IN
    /\ path \in DOMAIN s.file
    /\ CASE op = "-f" -> kind \in {"file", "empty", "link"}
         [] op = "-s" -> kind \in {"file", "link"}
         [] op = "-d" -> kind = "dir"
         [] op = "-l" -> kind = "link"
         [] OTHER     -> TRUE

\* IPv6 is tried first; a range and an address of different families do not match.
IpMatch(range, addr) ==
    \/ Cidr6Parse(range).ok /\ Ip6Parses(addr) /\ Cidr6Match(Cidr6Parse(range), addr.o)
    \/ /\ ~(Cidr6Parse(range).ok /\ Ip6Parses(addr))
       /\ CidrParse(range).ok /\ IpParses(addr) /\ CidrMatch(CidrParse(range), Number(addr.o))

StrCmp(op, a, b) ==
    CASE op = "==" -> a = b
      [] op = "!=" -> a # b
      [] op = "<"  -> Less(a, b)
      [] op = ">"  -> Less(b, a)
      [] op = "<=" -> ~Less(b, a)
      [] op = ">=" -> ~Less(a, b)

\* Every integer comparison is false when a side is not a number.
IntCmp(op, as, bs) ==
    \E a \in as, b \in bs :
       CASE op = "-eq" -> a = b
         [] op = "-ne" -> a # b
         [] op = "-lt" -> a < b
         [] op = "-le" -> a <= b
         [] op = "-gt" -> a > b
         [] op = "-ge" -> a >= b

Eval(s, n) ==
    CASE n.op = "NULL"   -> FALSE
      [] n.op = "&&"     -> Eval(s, n.l) /\ Eval(s, n.r)
      [] n.op = "||"     -> Eval(s, n.l) \/ Eval(s, n.r)
      [] n.op = "!"      -> ~Eval(s, n.l)
      [] n.op \in FileTests  -> FileTest(s, n.op, NodeStr(s, n.l))
      [] n.op = "-ipmatch"   ->
            IF n.r = Nil THEN IpMatch(AddrOf(NodeStr(s, n.l)), s.ip)
                         ELSE IpMatch(AddrOf(NodeStr(s, n.r)), AddrOf(NodeStr(s, n.l)))
      [] n.op \in StrCompare -> StrCmp(n.op, NodeStr(s, n.l), NodeStr(s, n.r))
      [] n.op \in IntCompare -> IntCmp(n.op, IntOf(NodeStr(s, n.l)), IntOf(NodeStr(s, n.r)))
      [] n.op \in RegexOps   -> RegexMatch(NodeStr(s, n.l), NodeStr(s, n.r), n.op = "!~")
      [] n.op \in {"STRING", "INTEGER"} -> n.v \notin {"", "0", "false"}
      [] n.op \in Functions_ \cup {"VAR"} -> NodeStr(s, n) # ""
      [] OTHER -> FALSE

-----------------------------------------------------------------------------
(***************************************************************************)
(* Printing (expr_to_string): the tokens of the text.  Parentheses are     *)
(* printed round an || below an && and round a composite below "!", and    *)
(* nowhere else.  A string is put between single quotes as it is, so one   *)
(* that holds such a quote is read back as several.                        *)
(***************************************************************************)
RECURSIVE ExprPrint(_, _)
Paren(toks) == <<Tok("(")>> \o toks \o <<Tok(")")>>
ExprPrint(n, parent) ==
    CASE n.op = "STRING" -> [i \in 1 .. Len(Requoted(n.v)) |-> Val("STRING", Requoted(n.v)[i])]
      [] n.op \in ValueKinds \ {"STRING"} -> <<Val(n.op, n.v)>>
      [] n.op = "!" ->
            LET body == ExprPrint(n.l, "!") IN
            <<Tok("!")>> \o (IF n.l.op \in {"&&", "||"} \cup Compare THEN Paren(body) ELSE body)
      [] n.op \in {"&&", "||"} ->
            LET body == ExprPrint(n.l, n.op) \o <<Tok(n.op)>> \o ExprPrint(n.r, n.op) IN
            IF parent = "&&" /\ n.op = "||" THEN Paren(body) ELSE body
      [] n.op \in Functions_ -> <<Tok(n.op)>> \o Paren(ExprPrint(n.l, n.op))
      [] n.op \in FileTests \/ (n.op = "-ipmatch" /\ n.r = Nil) ->
            <<Tok(n.op)>> \o ExprPrint(n.l, n.op)
      [] OTHER -> ExprPrint(n.l, n.op) \o <<Tok(n.op)>> \o ExprPrint(n.r, n.op)
ExprToString(n) == ExprPrint(n, "NULL")

-----------------------------------------------------------------------------
\* The connectives and comparisons a condition has, as the depth counter counts them.
RECURSIVE Connectives(_)
Connectives(n) ==
    IF n = Nil THEN 0
    ELSE Connectives(n.l) + Connectives(n.r) + (IF n.op \in {"&&", "||"} THEN 1 ELSE 0)
=============================================================================
