------------------------------- MODULE Rewrite -------------------------------
(***************************************************************************)
(* Rewrite rules on a server without the vendor's patch:                   *)
(* exec_rewrite_rules and the built-in engine, htaccess_rewrite_native.c.  *)
(*                                                                         *)
(* A rule is the value of its directive:                                   *)
(*   pattern, not   the pattern, and whether "!" stood before it           *)
(*   to             the substitution up to "?", a sequence of pieces;      *)
(*                  <<Dash>> is "-"                                        *)
(*   query          {} without a "?", else {the pieces after it}           *)
(*   flags, code    names; the number after "R=", 0 if none; "too long"    *)
(*                  when the text of the flags has 128 bytes or more       *)
(*   conds          its RewriteConds: [test, form, arg, not, nocase, or],  *)
(*                  form one of CondForms, arg the pattern or operand      *)
(* A piece is [of, v]: a text, "$" a group of the pattern, "%" a group of  *)
(* a condition, "%{" a variable.  A request has, besides the fields of     *)
(* Expr,                                                                   *)
(*   query          the texts its query is joined from by "&"              *)
(*                                                                         *)
(* The server takes a new URI when the hook has returned: variables keep   *)
(* what they were while the rules run.                                     *)
(***************************************************************************)
EXTENDS Expr

CONSTANTS
    Group(_, _, _),     \* group n of a pattern that matches a subject, "" if not set
    IsUrl(_),           \* begins with http:// or https://
    IsAbsolute(_),      \* begins with "/"
    Longer(_, _),       \* strlen(a) > strlen(b)
    Climbs(_)           \* ".." occurs in it

CondForms == {"regex", "-f", "-d", "-s", "<", ">", "="}
Piece(of, v) == [of |-> of, v |-> v]
Dash == Piece("text", "-")

Folded(nocase, a) == IF nocase THEN Lower(a) ELSE a
RegexOf(nocase, pattern, subject) == Regex(Folded(nocase, pattern), Folded(nocase, subject))

-----------------------------------------------------------------------------
(***************************************************************************)
(* A condition: "yes", "no", or "abort" for the whole list of rules.       *)
(***************************************************************************)
Expanded(s, test) ==
    FoldLeft(LAMBDA text, p : text \o (IF p.of = "%{" THEN ExpandVar(s, p.v) ELSE p.v), "", test)

(***************************************************************************)
(* -f, -d, -s: stat() of a path, below the document root if it is          *)
(* relative; an empty one and one with ".." fail even after "!".           *)
(***************************************************************************)
FileForms == {"-f", "-d", "-s"}
StatKinds(form) ==
    CASE form = "-f" -> {"file", "empty", "link"} [] form = "-d" -> {"dir"} [] form = "-s" -> {"file", "link", "dir"}
FileAt(s, test) ==
    LET path == IF IsAbsolute(test) THEN test ELSE ExpandVar(s, "DOCUMENT_ROOT") \o "/" \o test IN
    IF path \in DOMAIN s.file THEN s.file[path] ELSE "none"
RwFileTest(s, c, test) ==
    test # "" /\ ~Climbs(test) /\ (FileAt(s, test) \in StatKinds(c.form)) # c.not

(***************************************************************************)
(* "<", ">", "=": strncmp over the length of the test, and then the byte   *)
(* of the pattern at that length; it counts as greater unless that is the  *)
(* end.  With a test longer than the operand the byte is behind the        *)
(* pattern's end: junk has the operands for which it is not 0.             *)
(***************************************************************************)
Sign(test, arg, junk) ==
    IF Longer(arg, test) \/ (Longer(test, arg) /\ arg \in junk) THEN 1
    ELSE IF test = arg THEN 0 ELSE IF Less(test, arg) THEN -1 ELSE 1
RwCompare(c, test, junk) ==
    LET sign == Sign(test, c.arg, junk)
        ok   == CASE c.form = "<" -> sign < 0 [] c.form = ">" -> sign > 0 [] c.form = "=" -> sign = 0
    IN  ok # c.not

YesNo(b) == IF b THEN "yes" ELSE "no"
EvalCond(s, c, junk) ==
    LET test == Expanded(s, c.test)
        out  == RegexOf(c.nocase, c.arg, test)
    IN  IF c.form \in FileForms                THEN YesNo(RwFileTest(s, c, test))
        ELSE IF c.form # "regex"                THEN YesNo(RwCompare(c, test, junk))
        ELSE IF c.arg = ""                      THEN "no"
        ELSE IF out \in {"invalid", "limit"}    THEN "abort"
        ELSE YesNo((out = "match") # c.not)

(***************************************************************************)
(* eval_cond_chain: the first condition that aborts, or that fails and has *)
(* no [OR], decides.  (or_next only ever leads to a test that the failing  *)
(* of a condition without [OR] would lead to anyway.)                      *)
(***************************************************************************)
\* Mutant of CondChain: the last condition's flags are not looked at.
CondChainAnd(s, conds, junk) ==
    LET decides == {i \in DOMAIN conds : EvalCond(s, conds[i], junk) # "yes"} IN
    IF decides = {} THEN "yes" ELSE EvalCond(s, conds[Min(decides)], junk)
CondChain(s, conds, junk) ==
    LET Out(i)  == EvalCond(s, conds[i], junk)
        decides == {i \in DOMAIN conds : Out(i) = "abort" \/ (Out(i) = "no" /\ ~conds[i].or)}
    IN  IF decides = {} THEN "yes" ELSE Out(Min(decides))

-----------------------------------------------------------------------------
(***************************************************************************)
(* A rule.  t is what the loop keeps: the path the next pattern is matched *)
(* with; the code it returns; whether it has stopped; and the URI handed   *)
(* to the server last, as a Location (sent.host: behind "http://" and the  *)
(* host) or as a new URI.                                                  *)
(***************************************************************************)
Nowhere == [host |-> FALSE, path |-> "", query |-> <<>>]
RwStart(s) == [path |-> ExpandVar(s, "REQUEST_URI"), code |-> 0, stop |-> FALSE, sent |-> Nowhere]

\* parse_flags
Flags(rule) == IF "too long" \in rule.flags THEN {} ELSE rule.flags
RedirectCode(rule) ==
    IF "R" \notin Flags(rule) THEN 0 ELSE IF rule.code \in 301 .. 308 THEN rule.code ELSE 302

RuleMatch(rule, path) ==
    LET out == RegexOf("NC" \in Flags(rule), rule.pattern, path) IN
    IF rule.pattern = "" THEN "no"
    ELSE IF out \in {"match", "no"} THEN YesNo((out = "match") # rule.not) ELSE out

\* What the pieces of a substitution become; a group of a condition is empty.
Filled(s, rule, path, pieces) ==
    LET One(p) == CASE p.of = "text" -> p.v
                    [] p.of = "%{"   -> ExpandVar(s, p.v)
                    [] p.of = "$"    -> IF rule.not THEN "" ELSE Group(rule.pattern, path, p.v)
                    [] OTHER         -> ""
    IN  FoldLeft(LAMBDA text, p : text \o One(p), "", pieces)
NewQuery(s, rule, path) ==
    SelectSeq([i \in 1 .. Cardinality(rule.query) |->
                  Filled(s, rule, path, CHOOSE q \in rule.query : TRUE)], LAMBDA q : q # "")

External(s, t, rule, to) ==
    [t EXCEPT !.stop = TRUE,
              !.code = IF RedirectCode(rule) # 0 THEN RedirectCode(rule) ELSE 302,
              !.sent = [host |-> ~IsUrl(to), path |-> to,
                        query |-> NewQuery(s, rule, t.path)
                                    \o (IF "QSA" \in Flags(rule) THEN s.query ELSE <<>>)]]

\* The query of the request, whatever an earlier rule made of it.
Internal(s, base, t, rule, to) ==
    LET target == IF IsAbsolute(to) THEN to ELSE base \o to
        new    == NewQuery(s, rule, t.path)
    IN  [t EXCEPT !.path = target, !.code = 1,
                  !.sent = [host |-> FALSE, path |-> target,
                            query |-> IF "QSA" \in Flags(rule) THEN new \o s.query
                                      ELSE IF rule.query # {} THEN new ELSE s.query]]

Substituted(s, base, t, rule) ==
    LET to == Filled(s, rule, t.path, rule.to) IN
    IF rule.to = <<Dash>> \/ (to = "" /\ rule.query = {}) THEN t
    ELSE IF IsUrl(to) \/ RedirectCode(rule) # 0 THEN External(s, t, rule, to)
    ELSE Internal(s, base, t, rule, to)

Applied_(s, base, t, rule) ==
    IF "F" \in Flags(rule)      THEN [t EXCEPT !.code = 403, !.stop = TRUE]
    ELSE IF "G" \in Flags(rule) THEN [t EXCEPT !.code = 410, !.stop = TRUE]
    ELSE LET after == Substituted(s, base, t, rule)
         IN  [after EXCEPT !.stop = @ \/ Flags(rule) \cap {"L", "END"} # {}]

\* One turn of the loop in rewrite_native_exec.
RunRule(s, base, junk, t, rule) ==
    LET match == RuleMatch(rule, t.path)
        conds == CondChain(s, rule.conds, junk)
    IN  IF t.stop \/ match \in {"no", "invalid"}     THEN t
        ELSE IF match = "limit" \/ conds = "abort"   THEN [t EXCEPT !.stop = TRUE]
        ELSE IF conds = "no"                         THEN t
        ELSE Applied_(s, base, t, rule)

Operands(rules) == {c.arg : c \in UNION {Range(rules[i].conds) : i \in DOMAIN rules}}
RewriteNative(s, rules, base, junk) ==
    FoldLeft(LAMBDA t, rule : RunRule(s, base, junk, t, rule), RwStart(s), rules)

-----------------------------------------------------------------------------
(***************************************************************************)
(* The reference, from docs/src/content/docs/directives/rewrite.md: groups *)
(* of conditions joined by [OR], any of which is enough; what a condition  *)
(* compares; the rules once in the order of the file, each with what the   *)
(* one before made of path and query, until a pattern runs into a limit    *)
(* (docs/specs/rewrite-native.md).                                         *)
(***************************************************************************)
Holds(s, c) ==
    LET test == Expanded(s, c.test) IN
    CASE c.form = "regex"            -> (RegexOf(c.nocase, c.arg, test) = "match") # c.not
      [] c.form \in FileForms         -> (FileAt(s, test) \in StatKinds(c.form)) # c.not
      [] c.form = "<"                -> Less(test, c.arg) # c.not
      [] c.form = ">"                -> Less(c.arg, test) # c.not
      [] c.form = "="                -> (test = c.arg) # c.not
GroupAt(conds, i) == {j \in i .. Len(conds) : \A k \in i .. j - 1 : conds[k].or}
Begins(conds, i) == i = 1 \/ ~conds[i - 1].or
GroupsHold(s, conds) ==
    \A i \in DOMAIN conds : Begins(conds, i) => \E j \in GroupAt(conds, i) : Holds(s, conds[j])

WrittenStart(s) == [path |-> ExpandVar(s, "REQUEST_URI"), query |-> s.query, code |-> 0, stop |-> FALSE]
OutOf(rule, path) == RegexOf("NC" \in rule.flags, rule.pattern, path)
RuleApplies(s, t, rule) ==
    LET out == OutOf(rule, t.path) IN
    ~t.stop /\ out # "invalid" /\ (out = "match") # rule.not /\ GroupsHold(s, rule.conds)
WrittenCode(rule, to) ==
    IF "F" \in rule.flags THEN 403
    ELSE IF "G" \in rule.flags THEN 410
    ELSE IF "R" \in rule.flags /\ rule.code \in 301 .. 308 THEN rule.code
    ELSE IF "R" \in rule.flags \/ IsUrl(to) THEN 302
    ELSE 1
RunWritten(s, base, t, rule) ==
    LET to   == Filled(s, rule, t.path, rule.to)
        code == WrittenCode(rule, to)
        new  == NewQuery(s, rule, t.path)
        moves == code \notin {403, 410} /\ rule.to # <<Dash>> /\ (to # "" \/ rule.query # {})
        ends  == code \in {403, 410} \/ (moves /\ code # 1)
    IN  IF OutOf(rule, t.path) = "limit" THEN [t EXCEPT !.stop = TRUE]
        ELSE IF ~RuleApplies(s, t, rule) THEN t
        ELSE [path  |-> IF ~moves THEN t.path ELSE IF IsAbsolute(to) \/ IsUrl(to) THEN to ELSE base \o to,
              query |-> IF ~moves THEN t.query
                        ELSE IF "QSA" \in rule.flags THEN new \o t.query
                        ELSE IF rule.query # {} \/ code # 1 THEN new ELSE t.query,
              code  |-> IF code \in {403, 410} \/ moves THEN code ELSE t.code,
              stop  |-> ends \/ rule.flags \cap {"L", "END"} # {}]
RewriteWritten(s, rules, base) ==
    FoldLeft(LAMBDA t, rule : RunWritten(s, base, t, rule), WrittenStart(s), rules)

(***************************************************************************)
(* Where the code does otherwise.  A condition with [OR] is never what     *)
(* lets a rule apply: one that holds while the last of its group does not  *)
(* is lost, and a last one with [OR] is not needed.  An operand of another *)
(* length than the test counts as the smaller.  A pattern of a condition   *)
(* that cannot be used ends the list; a path that cannot be looked up      *)
(* fails a negated test too.  A redirect to a relative path goes without   *)
(* RewriteBase, and gets the host before it.  The query that one rule has  *)
(* set is not there for the next.  Flags that are too long are dropped.    *)
(***************************************************************************)
OrLost(s, conds) ==
    \/ \E i \in DOMAIN conds : conds[i].or /\ i = Len(conds)
    \/ \E i \in DOMAIN conds : /\ conds[i].or /\ Holds(s, conds[i])
                               /\ ~Holds(s, conds[Max(GroupAt(conds, i))])
Uneven(s, c) ==
    LET test == Expanded(s, c.test) IN
    c.form \in {"<", ">"} /\ (Longer(c.arg, test) \/ Longer(test, c.arg))
Fails_(s, c) ==
    LET test == Expanded(s, c.test) IN
    \/ c.form = "regex" /\ (c.arg = "" \/ RegexOf(c.nocase, c.arg, test) \in {"invalid", "limit"})
    \/ c.form \in FileForms /\ c.not /\ (test = "" \/ Climbs(test))
RuleExcepted(s, rule) ==
    \/ OrLost(s, rule.conds)
    \/ \E i \in DOMAIN rule.conds : Uneven(s, rule.conds[i]) \/ Fails_(s, rule.conds[i])
    \/ /\ "R" \in rule.flags /\ rule.to[1].of = "text"
       /\ ~IsAbsolute(rule.to[1].v) /\ ~IsUrl(rule.to[1].v)
    \/ "too long" \in rule.flags
RulesExcepted(s, rules) ==
    \/ \E i \in DOMAIN rules : RuleExcepted(s, rules[i])
    \/ \E i, j \in DOMAIN rules : i < j /\ rules[i].query # {}

RewritesAsWritten(s, rules, base) ==
    \A junk \in SUBSET Operands(rules) :
        LET code == RewriteNative(s, rules, base, junk)
            doc  == RewriteWritten(s, rules, base)
        IN  RulesExcepted(s, rules)
            \/ /\ code.code = doc.code
               /\ code.code \notin {0, 403, 410}
                     => code.sent.path = doc.path /\ code.sent.query = doc.query
=============================================================================
