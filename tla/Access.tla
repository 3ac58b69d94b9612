------------------------------- MODULE Access -------------------------------
(***************************************************************************)
(* Who may have a page: Order/Allow/Deny (exec_acl), Require with its      *)
(* containers (exec_require), Basic authentication (exec_auth), the method *)
(* lists of Limit (exec_limit), and container_acl_denies of mod_htaccess,  *)
(* which applies them to the directives inside a Files, FilesMatch, Limit  *)
(* or If container.                                                        *)
(*                                                                         *)
(* A directive is [type, name, value, kids], as in Merge.                   *)
(* A request is the record of Expr with, besides,                          *)
(*   method        the request method                                      *)
(*   creds         [user, pass] of the Authorization header, or NoCreds    *)
(*   ip            a text of Cidr; form "none" when the server has none    *)
(***************************************************************************)
EXTENDS Expr

CONSTANTS NoCreds,          \* no Authorization header that can be decoded
          Password(_, _)    \* Password(file, user): a user's password in a file, if any

Has(list, types) == \E i \in 1 .. Len(list) : list[i].type \in types
LastOf(list, type) == LET at == {i \in 1 .. Len(list) : list[i].type = type} IN list[Max(at)]

Legacy == {"Order", "Allow", "Deny"}
Containers == {"RequireAny", "RequireAll"}
UserTypes == {"Require valid-user", "Require user"}
RequireTypes == {"Require all granted", "Require all denied", "Require ip", "Require not ip",
                 "Require env", "Require group"} \cup UserTypes \cup Containers
IfTypes == {"If", "ElseIf", "Else"}
Limits == {"Limit", "LimitExcept"}

-----------------------------------------------------------------------------
(***************************************************************************)
(* exec_access_control.  TRUE: denied (LSI_ERROR).                         *)
(***************************************************************************)
\* ::ffff:a.b.c.d, which the legacy rules treat as IPv4 (and Require does not).
IsMapped(o) ==
    \A i \in 1 .. Octets6 - Octets4 :
        o[i] = IF i > Octets6 - Octets4 - 2 THEN 2^OctetBits - 1 ELSE 0

RuleMatches(ip, rule) ==
    IF ip.form = "v6" /\ ~IsMapped(ip.o) THEN RuleMatches6(rule, ip.o)
    ELSE RuleMatches4(rule, Number(IF ip.form = "v6" THEN SubSeq(ip.o, Octets6 - Octets4 + 1, Octets6)
                                                   ELSE ip.o))

AclDenies(s, list) ==
    LET order == IF Has(list, {"Order"}) THEN LastOf(list, "Order").value ELSE "allow,deny"
        Match(type) == \E i \in 1 .. Len(list) : list[i].type = type /\ RuleMatches(s.ip, list[i].value)
    IN  /\ Has(list, Legacy)
        /\ s.ip.form # "none"
        /\ IF ~(IpParses(s.ip) \/ Ip6Parses(s.ip)) THEN order = "allow,deny"
           ELSE IF order = "allow,deny" THEN ~Match("Allow") \/ Match("Deny")
           ELSE Match("Deny") /\ ~Match("Allow")

-----------------------------------------------------------------------------
(***************************************************************************)
(* exec_require.  One Require line gives "grant", "deny", "defer" (a user  *)
(* is asked for and none is known yet) or "skip" (not a Require line).     *)
(***************************************************************************)
\* The address the lists are matched with: 0.0.0.0 unless a rule near the top
\* needs the client's (exec_require's needs_ip looks two containers deep).
NeedsIp(list) ==
    LET Here(l) == Has(l, {"Require ip", "Require not ip"}) IN
    \/ Here(list)
    \/ \E i \in 1 .. Len(list) :
        /\ list[i].type \in Containers
        /\ \/ Here(list[i].kids)
           \/ \E j \in 1 .. Len(list[i].kids) :
                list[i].kids[j].type \in Containers /\ Here(list[i].kids[j].kids)

InList(list, ip) == IF ip.form = "v6" THEN InList6(list, ip.o) ELSE InList4(list, Number(ip.o))

EvalSingle(s, d, ip, authOk) ==
    CASE d.type = "Require all granted"  -> "grant"
      [] d.type \in {"Require all denied", "Require group"} -> "deny"
      [] d.type = "Require ip"           -> IF InList(d.value, ip) THEN "grant" ELSE "deny"
      [] d.type = "Require not ip"       -> IF InList(d.value, ip) THEN "deny" ELSE "grant"
      [] d.type = "Require env"          -> IF d.name \in s.env THEN "grant" ELSE "deny"
      [] d.type \in UserTypes            -> IF authOk THEN "grant" ELSE "defer"
      [] OTHER                           -> "skip"

RECURSIVE EvalContainer(_, _, _, _)
EvalChild(s, d, ip, authOk) ==
    IF d.type \in Containers THEN (IF EvalContainer(s, d, ip, authOk) THEN "grant" ELSE "deny")
    ELSE EvalSingle(s, d, ip, authOk)
\* RequireAny: one child grants.  RequireAll: no child denies or is unknown and
\* one grants; a child that waits for a user counts neither way.
EvalContainer(s, c, ip, authOk) ==
    LET got == {EvalChild(s, c.kids[i], ip, authOk) : i \in 1 .. Len(c.kids)} IN
    "grant" \in got /\ (c.type = "RequireAny" \/ got \cap {"deny", "skip"} = {})

\* The scan for a user requirement: containers two deep, the inner one for
\* valid-user only.
UserAnywhere(list) ==
    \/ Has(list, UserTypes)
    \/ \E i \in 1 .. Len(list) :
        /\ list[i].type \in Containers
        /\ \/ Has(list[i].kids, UserTypes)
           \/ \E j \in 1 .. Len(list[i].kids) :
                /\ list[i].kids[j].type \in Containers
                /\ Has(list[i].kids[j].kids, {"Require valid-user"})

RequireDenies(s, list, authOk) ==
    LET needs == NeedsIp(list)
        ip == IF needs THEN s.ip ELSE V4([i \in 1 .. Octets4 |-> 0])
        Grants(d) == IF d.type \in UserTypes THEN authOk
                     ELSE EvalChild(s, d, ip, authOk) = "grant"
    IN  /\ Has(list, RequireTypes)
        /\ \/ needs /\ ~IpParses(s.ip) /\ ~Ip6Parses(s.ip)
           \/ /\ ~\E i \in 1 .. Len(list) : Grants(list[i])
              /\ ~UserAnywhere(list)

-----------------------------------------------------------------------------
(***************************************************************************)
(* Basic authentication.  open_confined_htpasswd takes a file that is      *)
(* absolute, without "..", regular, and inside the document root both when *)
(* resolved and when opened; a path is a record of what is true of it.     *)
(***************************************************************************)
Confined(f) == f.absolute /\ ~f.dotdot /\ f.resolvesInRoot /\ f.openedInRoot /\ f.regular

Authenticates(f, creds) ==
    /\ Confined(f) /\ creds # NoCreds
    /\ Password(f.id, creds.user) = creds.pass

\* check_auth_credentials: does the request carry credentials of the file?
CheckCredentials(s, list) ==
    /\ Has(list, {"AuthType"}) /\ LastOf(list, "AuthType").value = "Basic"
    /\ Has(list, {"AuthUserFile"}) /\ Authenticates(LastOf(list, "AuthUserFile").value, s.creds)

(***************************************************************************)
(* user_satisfies_require: a valid-user at the top accepts every user;     *)
(* otherwise the user lists of the tree decide, lists of other kinds left  *)
(* out; a tree without a user list accepts everybody.  UserTree gives      *)
(* [seen, ok]; containers are followed to depth 2.                         *)
(***************************************************************************)
RECURSIVE UserTree(_, _, _, _)
UserTree(list, all, user, depth) ==
    LET Of(d) == IF d.type = "Require user" THEN [seen |-> TRUE, ok |-> user \in d.value]
                 ELSE IF d.type \in Containers /\ depth < 2
                      THEN UserTree(d.kids, d.type = "RequireAll", user, depth + 1)
                 ELSE [seen |-> FALSE, ok |-> FALSE]
        got == {Of(list[i]) : i \in 1 .. Len(list)}
        oks == {g.ok : g \in {h \in got : h.seen}}
    IN  [seen |-> oks # {}, ok |-> IF all THEN FALSE \notin oks ELSE TRUE \in oks]

UserSatisfies(user, list) ==
    \/ Has(list, {"Require valid-user"})
    \/ LET r == UserTree(list, FALSE, user, 0) IN ~r.seen \/ r.ok

\* exec_auth_basic looks for user requirements two containers deep.
AsksForUser(list) ==
    \/ Has(list, UserTypes)
    \/ \E i \in 1 .. Len(list) :
        /\ list[i].type \in Containers
        /\ \/ Has(list[i].kids, UserTypes)
           \/ \E j \in 1 .. Len(list[i].kids) :
                list[i].kids[j].type \in Containers /\ Has(list[i].kids[j].kids, UserTypes)

\* The status exec_auth_basic answers with, "OK" when it lets the request pass.
AuthStatus(s, list) ==
    LET basic == Has(list, {"AuthType"}) /\ LastOf(list, "AuthType").value = "Basic"
        file  == LastOf(list, "AuthUserFile").value
    IN  IF ~basic \/ ~AsksForUser(list)            THEN "OK"
        ELSE IF ~Has(list, {"AuthUserFile"})       THEN "500"
        ELSE IF s.creds = NoCreds                  THEN "401"
        ELSE IF ~Confined(file)                    THEN "500"
        ELSE IF ~Authenticates(file, s.creds)      THEN "401"
        ELSE IF ~UserSatisfies(s.creds.user, list) THEN "403"
        ELSE "OK"

-----------------------------------------------------------------------------
\* limit_should_exec
LimitApplies(d, method) == (method \in d.value) = (d.type = "Limit")

\* The children of the first block from i on whose condition holds; <<>> if
\* there is none.  next: the types that continue the chain after i.
ChainEnd(list, i, next) ==
    LET out == {j \in i + 1 .. Len(list) : list[j].type \notin next} IN
    IF out = {} THEN Len(list) ELSE Min(out) - 1
Branch(s, list, i, next) ==
    LET taken == {j \in i .. ChainEnd(list, i, next) :
                    list[j].type = "Else" \/ Eval(s, list[j].value)}
    IN  IF taken = {} THEN <<>> ELSE list[Min(taken)].kids

(***************************************************************************)
(* container_acl_denies: the children in order until one denies (all       *)
(* denied, a nested If branch or Limit); then all granted allows, then the *)
(* other Require lines decide, then Order/Allow/Deny.                      *)
(***************************************************************************)
RECURSIVE ContainerDenies(_, _)
ContainerDenies(s, kids) ==
    LET Nested(i) ==
          CASE kids[i].type = "Require all denied" -> TRUE
            [] kids[i].type = "If"                 -> ContainerDenies(s, Branch(s, kids, i, IfTypes))
            [] kids[i].type \in Limits             ->
                 LimitApplies(kids[i], s.method) /\ ContainerDenies(s, kids[i].kids)
            [] OTHER                               -> FALSE
    IN  \/ \E i \in 1 .. Len(kids) : Nested(i)
        \/ /\ ~Has(kids, {"Require all granted"})
           /\ IF Has(kids, RequireTypes)
              THEN RequireDenies(s, kids, CheckCredentials(s, kids))
              ELSE AclDenies(s, kids)

-----------------------------------------------------------------------------
(***************************************************************************)
(* The reference: what the Require lines say, read as one Boolean tree     *)
(* (the comments of exec_require: RequireAny is OR, RequireAll is AND, the *)
(* top level an implicit RequireAny) over the authenticated user and the   *)
(* ranges as sets of addresses.                                            *)
(***************************************************************************)
InRange(t, ip) ==
    LET len == IF t.len = NoLen THEN OctetBits * Len(t.o) ELSE t.len IN
    t.form = ip.form /\ SharesPrefix(t.o \o [i \in 1 .. Len(ip.o) - Len(t.o) |-> 0], ip.o, len)

RECURSIVE Written(_, _, _)
Written(s, d, user) ==
    CASE d.type = "Require all granted" -> TRUE
      [] d.type = "Require ip"     -> \E i \in 1 .. Len(d.value) : InRange(d.value[i], s.ip)
      [] d.type = "Require not ip" -> ~\E i \in 1 .. Len(d.value) : InRange(d.value[i], s.ip)
      [] d.type = "Require env"    -> d.name \in s.env
      [] d.type = "Require valid-user" -> user # NoCreds
      [] d.type = "Require user"   -> user # NoCreds /\ user.user \in d.value
      [] d.type = "RequireAny"     -> \E i \in 1 .. Len(d.kids) : Written(s, d.kids[i], user)
      [] d.type = "RequireAll"     -> /\ d.kids # <<>>
                                      /\ \A i \in 1 .. Len(d.kids) : Written(s, d.kids[i], user)
      [] OTHER -> FALSE
=============================================================================
