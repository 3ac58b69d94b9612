-------------------------------- MODULE Site --------------------------------
(***************************************************************************)
(* A request on its way through on_uri_map of mod_htaccess.c: what is      *)
(* refused before anything is read, the walk through the .htaccess files   *)
(* (DirCache), the directives they make together (Override), who may have  *)
(* the page (Access), the bot challenge (BotChallenge), and then the       *)
(* stages that answer in its place, in the order of the code.  A worker    *)
(* serves one request at a time; other workers and the administrator act   *)
(* between its system calls.                                               *)
(*                                                                         *)
(* A path is a sequence of segments.  A request is a record of Access and  *)
(*   client  who asks; its address is the one it has at that moment        *)
(*   uri     the segments, decoded and normalised; the last is the file,   *)
(*           "" for a directory                                            *)
(*   org     the segments as they were sent, decoded                       *)
(*   allowed the categories of AllowOverride                               *)
(***************************************************************************)
EXTENDS DirCache, BotChallenge, Override, Access, Rewrite

CONSTANTS
    Requests,            \* without the field ip
    DocRoot, Vhroot,     \* Vhroot: HTACCESS_VHROOT, or NoVhroot
    DirsOf(_),           \* the directives of a content
    IpOf(_),             \* the text of an address
    Present,             \* the paths of the files and directories that exist
    Outside(_),          \* the path resolves to one that is not below DocRoot
    IsHt(_),             \* the name begins with ".ht"
    IsPhp(_),            \* .php, .php5, .php7, .phtml or .phar is in the segment
    Blacklisted(_)       \* a variable that may not be set

VARIABLE req             \* req[w]: the request a worker serves
svars == <<dvars, writable, secretFile, secret, gate, client, req>>
gatevars == <<writable, secretFile, secret, gate, client>>

NoRequest == [pc |-> "idle", asked |-> <<>>, list |-> <<>>, outcome |-> "none"]

Init == WalkInit /\ GateInit /\ req = [w \in Workers |-> NoRequest]

-----------------------------------------------------------------------------
(***************************************************************************)
(* Refused before the walk: a .ht* file, a ".." in what was sent, PHP      *)
(* below wp-content/uploads, a directory outside the root.                 *)
(***************************************************************************)
FileName(s) == Last(s.uri)
IsDirectory(s) == FileName(s) = ""
TargetDir(s) == DocRoot \o Front(s.uri)

PhpInUploads(uri) ==
    \E i \in 1 .. Len(uri) - 2, j \in 1 .. Len(uri) :
        /\ uri[i] = "wp-content" /\ uri[i + 1] = "uploads"
        /\ j > i + 1 /\ IsPhp(uri[j])

Barred(s) ==
    \/ IsHt(FileName(s))
    \/ ".." \in Range(s.org)
    \/ PhpInUploads(s.uri)
    \/ Outside(TargetDir(s))

Answer(w, outcome) == req' = [req EXCEPT ![w].pc = "answered", ![w].outcome = outcome]

\* The request arrives at a worker that is free.
Receive(w, r) ==
    LET s == r @@ [ip |-> IpOf(client[r.client].at.peer)] IN
    /\ req[w].pc = "idle"
    /\ \A v \in Workers : req[v].pc # "idle" => req[v].asked.client # r.client
    /\ IF Barred(s)
       THEN /\ req' = [req EXCEPT ![w] = [NoRequest EXCEPT !.pc = "answered", !.asked = s, !.outcome = "403"]]
            /\ UNCHANGED dvars
       ELSE /\ req' = [req EXCEPT ![w] = [NoRequest EXCEPT !.pc = "walk", !.asked = s]]
            /\ StartWalk(w, WalkDirs(DocRoot, Vhroot, TargetDir(s)))
    /\ UNCHANGED gatevars

-----------------------------------------------------------------------------
(***************************************************************************)
(* Access: Require, or Order/Allow/Deny; the Files and FilesMatch blocks   *)
(* of the name; the Limit blocks of the method; authentication.  The       *)
(* status of the first that refuses, or "OK".                              *)
(***************************************************************************)
SatisfyAny(list) ==
    LET at == {i \in 1 .. Len(list) : list[i].type = "Satisfy"} IN
    at # {} /\ list[Min(at)].value = "Any"

\* Mutant of ContainerStatus: a block does not ask for a user.
ContainerStatusAcl(s, kids) == IF ContainerDenies(s, kids) THEN "403" ELSE "OK"
ContainerStatus(s, kids) ==
    IF ContainerDenies(s, kids) THEN "403" ELSE AuthStatus(s, kids)

\* The blocks at some places of list, in order.
BlocksStatus(s, list, places) ==
    LET refused == {i \in places : ContainerStatus(s, list[i].kids) # "OK"} IN
    IF refused = {} THEN "OK" ELSE ContainerStatus(s, list[Min(refused)].kids)

ForFile(s, d) ==
    \/ d.type = "Files" /\ d.name = FileName(s)
    \/ d.type = "FilesMatch" /\ Regex(d.name, FileName(s)) = "match"
ForMethod(s, d) == d.type \in Limits /\ LimitApplies(d, s.method)

FirstRefusal(a, b) == IF a # "OK" THEN a ELSE b
AccessStatus(s, list) ==
    LET require == Has(list, RequireTypes)
        acl     == ~require /\ AclDenies(s, list)
        denied  == \/ require /\ RequireDenies(s, list, CheckCredentials(s, list))
                   \/ acl /\ ~SatisfyAny(list)
        noAuth  == SatisfyAny(list) /\ ~acl /\ ~require
    IN  FirstRefusal(IF denied THEN "403" ELSE "OK",
          FirstRefusal(BlocksStatus(s, list, {i \in 1 .. Len(list) : ForFile(s, list[i])}),
            FirstRefusal(BlocksStatus(s, list, {i \in 1 .. Len(list) : ForMethod(s, list[i])}),
              IF noAuth THEN "OK" ELSE AuthStatus(s, list))))

(***************************************************************************)
(* The walk is done: the directives are merged, and access is decided.     *)
(* The limiter (module RateLimit) may refuse; then comes the gate.         *)
(***************************************************************************)
Found(w) == [i \in 1 .. Len(walk[w].got) |-> DirsOf(walk[w].got[i].dirs)]
\* A BotChallengeIf that does not parse is Nil, and turns the gate off.
Gated(s, list) ==
    /\ Has(list, {"BotChallenge"}) /\ LastOf(list, "BotChallenge").value = "On"
    /\ Has(list, {"BotChallengeIf"}) => Eval(s, LastOf(list, "BotChallengeIf").value)

Goes(w, list, pc, outcome) ==
    req' = [req EXCEPT ![w].pc = pc, ![w].list = list, ![w].outcome = outcome]
Decided(w, list, status) ==
    \/ /\ status # "OK"
       /\ Goes(w, list, "answered", status) /\ UNCHANGED gatevars
    \/ /\ status = "OK" /\ Has(list, {"RateLimit"})
       /\ Goes(w, list, "answered", "throttled") /\ UNCHANGED gatevars
    \/ /\ status = "OK" /\ Gated(req[w].asked, list)
       /\ Goes(w, list, "gate", "none") /\ Ask(w, req[w].asked.client)
    \/ /\ status = "OK" /\ ~Gated(req[w].asked, list)
       /\ Goes(w, list, "late", "none") /\ UNCHANGED gatevars
Decide(w) ==
    /\ req[w].pc = "walk" /\ walk[w].pc = "done"
    /\ UNCHANGED dvars
    /\ \E list \in {Directives(Found(w), req[w].asked.allowed)} :
        Decided(w, list, IF list = <<>> THEN "page" ELSE AccessStatus(req[w].asked, list))

\* exec_bot_challenge has returned; the page it sent, if it did, is the answer.
GateDone(w) ==
    /\ req[w].pc = "gate" /\ gate[w].pc = "out"
    /\ IF client[req[w].asked.client].phase = "served"
       THEN req' = [req EXCEPT ![w].pc = "late"]
       ELSE Answer(w, client[req[w].asked.client].phase)
    /\ UNCHANGED <<dvars, gatevars>>

-----------------------------------------------------------------------------
(***************************************************************************)
(* What may answer in the place of the page, in order.                     *)
(***************************************************************************)
IfNext == IfTypes \ {"If"}
EnvTypes == {"SetEnv", "SetEnvIf", "SetEnvIfNoCase", "BrowserMatch"}

\* exec_redirect: a prefix that ends where a segment does; exec_redirect_match.
\* Left out are their errors, which redirect nowhere: a target that grows too
\* long or has a line break, a pattern over the limit.
RedirectApplies(s, d) ==
    \/ d.type = "Redirect" /\ IsPrefix(d.name, s.uri)
    \/ d.type = "RedirectMatch" /\ Regex(d.name, ExpandVar(s, "REQUEST_URI")) = "match"

\* exec_setenv and match_and_set; a name is <<variable>> or <<variable, attribute, pattern>>.
\* BrowserMatch does not look at an empty User-Agent, SetEnvIf matches the empty text.
EnvSet(s, d) ==
    LET applies ==
            \/ d.type = "SetEnv"
            \/ /\ d.type = "BrowserMatch" => ExpandVar(s, d.name[2]) # ""
               /\ Regex(d.name[3], ExpandVar(s, d.name[2])) = "match"
    IN
    IF Blacklisted(d.name[1]) \/ ~applies THEN s
    ELSE [s EXCEPT !.env = @ \cup {d.name[1]}, !.var = (("ENV:" \o d.name[1]) :> d.value) @@ @]
EnvAll(s, list) ==
    LET env[i \in 0 .. Len(list)] ==
            IF i = 0 THEN s
            ELSE IF list[i].type \in EnvTypes THEN EnvSet(env[i - 1], list[i]) ELSE env[i - 1]
    IN  env[Len(list)]

(***************************************************************************)
(* eval_if_chain and exec_if_child_request, up to the first redirect;      *)
(* t is [s, ended].  The ElseIf and Else blocks of a nested chain are      *)
(* children like any other, and begin a chain of their own.                *)
(***************************************************************************)
RECURSIVE RunChild(_, _, _), RunBlock(_, _, _)
RunChild(t, list, i) ==
    IF t.ended THEN t
    ELSE CASE list[i].type \in EnvTypes -> [t EXCEPT !.s = EnvSet(@, list[i])]
           [] list[i].type \in IfTypes  -> RunBlock(t, Branch(t.s, list, i, IfNext), 1)
           [] OTHER                     -> [t EXCEPT !.ended = RedirectApplies(t.s, list[i])]
RunBlock(t, kids, i) == IF i > Len(kids) THEN t ELSE RunBlock(RunChild(t, kids, i), kids, i + 1)

\* The chains at the top.
RunIfs(s, list) ==
    LET run[i \in 0 .. Len(list)] ==
            IF i = 0 THEN [s |-> s, ended |-> FALSE]
            ELSE IF list[i].type = "If" THEN RunChild(run[i - 1], list, i) ELSE run[i - 1]
    IN  run[Len(list)]

\* Access in the blocks taken: a chain begins with an If and goes on as long as
\* there are blocks, other Ifs among them; of a chain the first whose condition
\* holds is looked at.
IfStatus(s, list) ==
    LET First(i) ==
            /\ list[i].type = "If"
            /\ \A j \in 1 .. i - 1 :
                list[j].type = "If" => \E k \in j + 1 .. i - 1 : list[k].type \notin IfTypes
        Status(i) == ContainerStatus(s, Branch(s, list, i, IfTypes))
        refused == {i \in 1 .. Len(list) : First(i) /\ Status(i) # "OK"}
    IN  IF refused = {} THEN "OK" ELSE Status(Min(refused))

\* FallbackResource; a value that is not a path of the site is <<"disabled">>,
\* <<"url">> or <<"text">>.
Exists(s) == (DocRoot \o s.uri) \in Present
FallsBack(s, list) ==
    /\ Has(list, {"FallbackResource"}) /\ LastOf(list, "FallbackResource").value \in Present
    /\ ~Exists(s)

(***************************************************************************)
(* Options -Indexes refuses a directory that neither DirectoryIndex nor    *)
(* one of the usual names finds an index for.                              *)
(***************************************************************************)
CommonIndex == {"index.php", "index.html", "index.htm", "default.html", "default.htm"}
IndexNames(list) ==
    CommonIndex \cup
    UNION {Range(list[i].value) : i \in {j \in 1 .. Len(list) : list[j].type = "DirectoryIndex"}}
IndexesDenied(s, list) ==
    LET options == SelectSeq(list, LAMBDA d : d.type = "Options" /\ d.value # "Indexes unchanged") IN
    /\ IsDirectory(s)
    /\ options # <<>> /\ Last(options).value = "-Indexes"
    /\ \A name \in IndexNames(list) : Append(TargetDir(s), name) \notin Present

\* ErrorDocument 404 for a file that is not there: only the first one counts.
ErrorPage(s, list) ==
    LET at == {i \in 1 .. Len(list) : list[i].type = "ErrorDocument" /\ list[i].name = "404"} IN
    /\ ~IsDirectory(s) /\ ~Exists(s)
    /\ at # {} /\ list[Min(at)].value \in {<<"url">>, <<"text">>} \cup Present

(***************************************************************************)
(* exec_rewrite_rules, on a server without the rewrite patch.  on_uri_map  *)
(* answers nothing when a rule has [F] or [G]: the code 403 or 410 ends    *)
(* the hook like that of an internal rewrite, with LSI_OK and no status,   *)
(* and the server goes on.                                                 *)
(***************************************************************************)
RulesOf(list) ==
    LET rules == SelectSeq(list, LAMBDA d : d.type = "RewriteRule") IN
    IF Has(list, {"RewriteEngine"}) /\ LastOf(list, "RewriteEngine").value = "On"
    THEN [i \in DOMAIN rules |-> rules[i].value] ELSE <<>>
BaseOf(list) == IF Has(list, {"RewriteBase"}) THEN LastOf(list, "RewriteBase").value ELSE ""
ExecRewrite(s, list, junk) == RewriteNative(s, RulesOf(list), BaseOf(list), junk).code
RewriteAnswer(code) == IF code \in 301 .. 308 THEN "redirect" ELSE "rewrite"

(***************************************************************************)
(* The stages after the gate.  Whether the brute-force protection blocks   *)
(* the address (module BruteForce) is left open.                           *)
(***************************************************************************)
AfterIfs(s, list, ifs) ==
    IF ifs.ended THEN "redirect"
    ELSE FirstRefusal(IfStatus(ifs.s, list), IF ErrorPage(s, list) THEN "error page" ELSE "page")
LateOutcome(s, list, code, blocked) ==
    IF \E i \in 1 .. Len(list) : RedirectApplies(s, list[i]) THEN "redirect"
    ELSE IF code # 0               THEN RewriteAnswer(code)
    ELSE IF FallsBack(s, list)     THEN "fallback"
    ELSE IF blocked                THEN "blocked"
    ELSE IF IndexesDenied(s, list) THEN "403"
    ELSE AfterIfs(s, list, RunIfs(EnvAll(s, list), list))
Late(w) ==
    /\ req[w].pc = "late"
    /\ \E junk \in SUBSET Operands(RulesOf(req[w].list)),
          blocked \in {FALSE, Has(req[w].list, {"BruteForceProtection"})} :
         Answer(w, LateOutcome(req[w].asked, req[w].list, ExecRewrite(req[w].asked, req[w].list, junk), blocked))
    /\ UNCHANGED <<dvars, gatevars>>

\* The answer is sent.
Done(w) ==
    /\ req[w].pc = "answered"
    /\ req' = [req EXCEPT ![w] = NoRequest]
    /\ IF walk[w].pc = "done" THEN EndWalk(w) ELSE UNCHANGED dvars
    /\ UNCHANGED gatevars

-----------------------------------------------------------------------------
Serve(w) ==
    \/ req[w].pc = "walk" /\ WalkStep(w) /\ UNCHANGED <<gatevars, req>>
    \/ Decide(w)
    \/ req[w].pc = "gate" /\ Work(w) /\ UNCHANGED <<link, node, cache, walk, seen, req>>
    \/ GateDone(w)
    \/ Late(w)
    \/ Done(w)

\* A worker crashes and is started again.
Fails(w) ==
    /\ Restart(w) /\ Crash(w) /\ req' = [req EXCEPT ![w] = NoRequest]

Edits == (\E f \in Files : Edit(f)) /\ UNCHANGED <<gatevars, req>>
Roams == (\E c \in Clients, a \in Addresses : Roam(c, a)) /\ UNCHANGED <<dvars, req>>
Tick == WalkTick /\ UNCHANGED <<gatevars, req>>

Next ==
    \/ \E w \in Workers : Serve(w) \/ Fails(w) \/ \E r \in Requests : Receive(w, r)
    \/ Edits \/ Roams \/ Tick
Spec == Init /\ [][Next]_svars

-----------------------------------------------------------------------------
(***************************************************************************)
(* What the directives of a list say, as they are written: the ranges are  *)
(* sets of addresses, the Require lines one Boolean tree, Order, Allow and *)
(* Deny sets; Files, Limit and If blocks that apply must grant as well.    *)
(***************************************************************************)
V4Of(ip) == IF ip.form = "v6" /\ IsMapped(ip.o) THEN V4(SubSeq(ip.o, Octets6 - Octets4 + 1, Octets6)) ELSE ip
LegacyWritten(s, list) ==
    LET order == IF Has(list, {"Order"}) THEN LastOf(list, "Order").value ELSE "allow,deny"
        From(type) == \E i \in 1 .. Len(list) :
            list[i].type = type /\ (list[i].value.form = "all" \/ InRange(list[i].value, V4Of(s.ip)))
    IN  Has(list, Legacy) =>
            IF order = "allow,deny" THEN From("Allow") /\ ~From("Deny")
                                    ELSE From("Allow") \/ ~From("Deny")

(***************************************************************************)
(* Where the code says otherwise, a list is left out of account: a user is *)
(* asked for without AuthType Basic in the same list; or in a container,   *)
(* whose other conditions are not looked at together with the credentials; *)
(* or in a block inside a block, where nobody asks; Satisfy Any without    *)
(* Require; a Files block inside a block is never looked at.               *)
(***************************************************************************)
Unasked(s, list, nested) ==
    \/ UserAnywhere(list) /\ (nested \/ ~Has(list, {"AuthType"}) \/ LastOf(list, "AuthType").value # "Basic")
    \/ /\ \E i \in 1 .. Len(list) : list[i].type \in Containers /\ UserAnywhere(list[i].kids)
       /\ CheckCredentials(s, list)
    \/ SatisfyAny(list) /\ ~Has(list, RequireTypes)

ListGrants(s, list, nested) ==
    LET user == IF CheckCredentials(s, list) THEN s.creds ELSE NoCreds IN
    \/ Unasked(s, list, nested)
    \/ IF Has(list, RequireTypes)
       THEN \E i \in 1 .. Len(list) : Written(s, list[i], user)
       ELSE LegacyWritten(s, list)

RECURSIVE BlockGrants(_, _, _)
BlockGrants(s, kids, nested) ==
    /\ ListGrants(s, kids, nested)
    /\ \A i \in 1 .. Len(kids) :
        /\ ForMethod(s, kids[i]) => BlockGrants(s, kids[i].kids, TRUE)
        /\ kids[i].type = "If"   => BlockGrants(s, Branch(s, kids, i, IfNext), TRUE)

Grants(s, list) ==
    /\ ListGrants(s, list, FALSE)
    /\ \A i \in 1 .. Len(list) :
        ForFile(s, list[i]) \/ ForMethod(s, list[i]) => BlockGrants(s, list[i].kids, FALSE)

\* A chain that does not follow another: of two that touch, only one is looked at.
IfsGrant(s, list) ==
    \A i \in 1 .. Len(list) :
        list[i].type = "If" /\ (i > 1 => list[i - 1].type \notin IfTypes)
            => BlockGrants(s, Branch(s, list, i, IfNext), FALSE)

(***************************************************************************)
(* A request is only answered with the page, or handed on by a redirect,   *)
(* a rewrite or a fallback, when the directives grant it; with the page    *)
(* only when the If blocks that apply do so as well.  A file that must not *)
(* be asked for never leads to any of them (on_uri_map).                   *)
(***************************************************************************)
ServedAsWritten ==
    \A w \in Workers : req[w].pc = "answered" =>
        LET s == req[w].asked
            list == req[w].list
        IN  /\ req[w].outcome \in {"page", "redirect", "rewrite", "fallback", "error page"}
                  => Grants(s, list) /\ ~Barred(s)
            /\ req[w].outcome \in {"page", "error page"}
                  => IfsGrant(RunIfs(EnvAll(s, list), list).s, list)

(***************************************************************************)
(* The directives of a request are those of its levels, none of a category *)
(* that is not allowed: those that add up stand there in order; of those   *)
(* that override the nearest one stands there, once, when every level is   *)
(* Plain (htaccess_dirwalk).                                               *)
(***************************************************************************)
AccessOf(list) ==
    {<<list[i].type, list[i].value>> : i \in {j \in 1 .. Len(list) : list[j].type \in {"Allow", "Deny"}}}
Written_(levels, allowed) ==
    FlattenSeq([i \in 1 .. Len(levels) |-> AsWritten(levels[i], allowed)])
Combines(list, all, plain) ==
    /\ Accumulated(list) = Accumulated(all)
    /\ AccessOf(list) = AccessOf(all)
    /\ plain => \A i \in 1 .. Len(Keyed(all)) :
                    Like(list, Keyed(all)[i]) = <<Last(Like(all, Keyed(all)[i]))>>
CombinesLevels(levels, allowed) ==
    Combines(Directives(levels, allowed), Written_(levels, allowed),
             \A i \in 1 .. Len(levels) : Plain(levels[i]))
MergedAsWritten ==
    \A w \in Workers : req[w].pc = "walk" /\ walk[w].pc = "done" =>
        CombinesLevels(Found(w), req[w].asked.allowed)

(***************************************************************************)
(* The rules of a request redirect it, give it a new URI or refuse it as   *)
(* the documents say (rewrite_native_exec), but for what RulesExcepted     *)
(* names.                                                                  *)
(***************************************************************************)
RewrittenAsWritten ==
    \A w \in Workers : req[w].pc = "late" =>
        RewritesAsWritten(req[w].asked, RulesOf(req[w].list), BaseOf(req[w].list))

(***************************************************************************)
(* A request to which a rule with [F] or [G] applies is refused: it is not *)
(* handed on to the server (docs/src/content/docs/directives/rewrite.md).  *)
(***************************************************************************)
ForbiddenIsRefused ==
    \A w \in Workers :
        req[w].pc = "answered" /\ req[w].outcome \in {"page", "rewrite"}
          => RewriteWritten(req[w].asked, RulesOf(req[w].list), BaseOf(req[w].list)).code \notin {403, 410}
=============================================================================
