------------------------------- MODULE MCSite -------------------------------
(***************************************************************************)
(* Requests for a site of three levels, in six scenarios:                  *)
(*   rules  one request, decided by one .htaccess file of access rules     *)
(*   late   one request, one file of redirects, fallbacks, conditions ...  *)
(*   rewrite one request, one file of rewrite rules                        *)
(*   merge  one request, a file at each of three levels                    *)
(*   edit   requests through the cache while a file is edited              *)
(*   gate   two workers, two clients, the bot challenge                    *)
(***************************************************************************)
EXTENDS Site

CONSTANTS c1, c2, w1, MaxEdits, MaxAsked, MaxTrouble

VARIABLE plan   \* the scenario: its kind, requests, and what may still happen
mcvars == <<svars, plan>>

-----------------------------------------------------------------------------
MCSrv  == <<"srv">>
MCRoot == <<"srv", "site">>
MCSub  == <<"srv", "site", "a">>
MCFiles == {MCSrv, MCRoot, MCSub}
MCPresent == {MCRoot \o <<"x">>, MCRoot \o <<"front.php">>, MCSub \o <<"home">>,
              MCRoot \o <<"">>, MCSub \o <<"">>}
MCOutside(dir) == "out" \in Range(dir)
MCIsHt(n) == n = ".htaccess"
MCIsPhp(n) == n = "s.php"
MCBlacklisted(v) == v = "PATH"

\* Addresses of two bits (IPv4) and three (IPv6).
MCIp(p) == CASE p = "a" -> V4(<<0, 1>>) [] p = "b" -> V4(<<1, 0>>) [] p = "b2" -> V4(<<1, 0>>)
             [] p = "proxy" -> V4(<<1, 1>>) [] p = "six" -> V6(<<0, 1, 1>>) [] p = "mapped" -> V6(<<1, 0, 1>>)
MCTrustedProxy(p) == IpInCidrs(<<Text("v6", <<0, 0, 0>>, 3), Text("v4", <<1, 1>>, 2)>>, MCIp(p))
MCClass(p) == IF p = "b2" THEN "b" ELSE p
Direct(p) == [peer |-> p, xff |-> "none"]
MCAddresses == {Direct("b2"), [peer |-> "proxy", xff |-> "six"], [peer |-> "b", xff |-> "six"]}

MCRegex(p, s) ==
    CASE p = "(" -> "invalid" [] p = "(a+)+" -> "limit" [] p = "(.*)" -> "match"
      [] OTHER -> IF p = s THEN "match" ELSE "no"
MCGroup(p, s, n) == IF n = 0 \/ (n = 1 /\ p = "(.*)") THEN s ELSE ""
MCIsUrl(a) == a = "http://z"
MCIsAbsolute(a) == a \notin {"", "x", "y", "http://z"}
MCClimbs(a) == a = "/../x"
MCLonger(a, b) == a # "" /\ b = ""
MCLess(a, b) == (a = "" /\ b # "") \/ (a = "x" /\ b = "y")
MCIntOf(a) == {}
MCAddrOf(a) == BadText
MCPassword(file, user) == IF user \in {"alice", "bob"} THEN "pw" ELSE "none"
MCNoCreds == [user |-> "", pass |-> ""]
Cred(u, p) == [user |-> u, pass |-> p]
MCSame(a) == a
MCLower(a) == IF a = "/X" THEN "/x" ELSE a
MCOne(a) == <<a>>

-----------------------------------------------------------------------------
\* Directives.
D(type, value) == Dir(type, "", value, <<>>)
N(type, name, value) == Dir(type, name, value, <<>>)
In(type, kids) == Dir(type, "", "", kids)
A4 == V4(<<0, 1>>)
Block4 == Text("v4", <<1, 0>>, 1)
All == Text("all", <<>>, NoLen)
Path(id, inRoot) == [absolute |-> TRUE, dotdot |-> FALSE, resolvesInRoot |-> inRoot, openedInRoot |-> inRoot,
                     regular |-> TRUE, id |-> id]
Auth == <<D("AuthType", "Basic"), D("AuthUserFile", Path("users", TRUE))>>
Ip(list) == D("Require ip", list)
NotIp(list) == D("Require not ip", list)
Valid == D("Require valid-user", "")
User(set) == D("Require user", set)
Granted == D("Require all granted", "")
Denied == D("Require all denied", "")
EnvE == N("Require env", "E", "")
AnyOf(kids) == In("RequireAny", kids)
Every(kids) == In("RequireAll", kids)
IsX(v) == Node("==", "", Leaf("VAR", v), Leaf("STRING", "x"))
If(v, kids) == Dir("If", "", IsX(v), kids)
ElseIf(v, kids) == Dir("ElseIf", "", IsX(v), kids)
Else(kids) == In("Else", kids)

\* Rewrite rules and their conditions.
To(a) == Piece("text", a)
VarOf(v) == Piece("%{", v)
Rule(not, pattern, to, query, flags, conds) ==
    [not |-> not, pattern |-> pattern, to |-> to, query |-> query,
     flags |-> flags, code |-> IF "301" \in flags THEN 301 ELSE IF "200" \in flags THEN 200 ELSE 0,
     conds |-> conds]
AnyTo(to) == Rule(FALSE, "(.*)", to, {}, {}, <<>>)
Cond(test, form, arg, not) ==
    [test |-> <<test>>, form |-> form, arg |-> arg, not |-> not, nocase |-> FALSE, or |-> FALSE]
A_ == VarOf("A")
RwConds ==
    { Cond(A_, "regex", "x", FALSE), Cond(VarOf("B"), "regex", "x", FALSE), Cond(A_, "regex", "x", TRUE),
      Cond(A_, "-f", "", FALSE), Cond(To("/d"), "-d", "", TRUE), Cond(To("/../x"), "-s", "", TRUE),
      Cond(A_, "<", "y", FALSE), Cond(A_, ">", "", FALSE), Cond(A_, "=", "x", TRUE),
      Cond(A_, "regex", "(", FALSE), Cond(A_, "regex", "", TRUE) }
OrNot(conds) == conds \cup {[c EXCEPT !.or = TRUE] : c \in conds}
Both == {Cond(VarOf(v), "regex", "x", FALSE) : v \in {"A", "B"}}
CondLists == SeqOf(OrNot(RwConds), 2) \cup [1 .. 3 -> OrNot(Both)]
CondRules == {[AnyTo(<<To("/y")>>) EXCEPT !.conds = c] : c \in CondLists}
RwRules ==
    { AnyTo(<<Dash>>), AnyTo(<<To("y")>>), AnyTo(<<To("/n"), Piece("$", 1)>>), AnyTo(<<>>),
      Rule(FALSE, "/x", <<Dash>>, {}, {"L"}, <<>>), Rule(FALSE, "/x", <<Dash>>, {}, {"F"}, <<>>),
      Rule(TRUE, "/x", <<To("/z"), Piece("$", 0)>>, {}, {"G"}, <<>>),
      Rule(FALSE, "/x", <<To("/y")>>, {<<>>}, {"END"}, <<>>),
      Rule(FALSE, "/X", <<To("/y"), Piece("%", 1)>>, {<<To("n=1")>>}, {"NC"}, <<>>),
      Rule(FALSE, "/x", <<To("/y")>>, {<<VarOf("B")>>}, {"QSA"}, <<>>),
      Rule(FALSE, "/x", <<To("/y")>>, {}, {"QSA"}, <<Cond(A_, "regex", "x", FALSE)>>),
      Rule(FALSE, "/y", <<To("/z")>>, {}, {"R", "QSA"}, <<>>), Rule(TRUE, "/y", <<To("/y")>>, {<<To("n=2")>>}, {"R", "301"}, <<>>),
      Rule(FALSE, "/x", <<To("http://z")>>, {<<To("n=3")>>}, {"QSA"}, <<>>), Rule(FALSE, "/y", <<To("y")>>, {}, {"R", "200"}, <<>>),
      Rule(FALSE, "/y", <<To("/w")>>, {}, {"too long", "F"}, <<>>),
      Rule(FALSE, "(a+)+", <<To("/w")>>, {}, {}, <<>>), Rule(FALSE, "(", <<To("/w")>>, {}, {"F"}, <<>>) }
RewriteLists ==
    {<<D("RewriteEngine", "On"), D("RewriteRule", r)>> : r \in CondRules}
    \cup {<<D("RewriteEngine", "On"), D("RewriteBase", "/b/"), D("RewriteRule", r[1]), D("RewriteRule", r[2])>> :
              r \in RwRules \X RwRules}
    \cup {<<D("RewriteEngine", "Off"), D("RewriteRule", AnyTo(<<To("y")>>))>>}

Modern ==
    << <<Ip(<<A4>>)>>, <<Ip(<<Text("v4", <<0>>, NoLen), Block4>>)>>, <<Ip(<<Text("v6", <<0, 1, 0>>, 2)>>)>>,
      <<NotIp(<<A4>>)>>, <<Valid>>, <<User({"alice"})>>, <<EnvE>>, <<Granted>>, <<Granted, Denied>>,
      <<Ip(<<A4>>), Valid>>, <<AnyOf(<<Ip(<<A4>>), User({"alice"})>>)>>, <<Every(<<Ip(<<A4>>), Valid>>)>>,
      <<Every(<<NotIp(<<A4>>), AnyOf(<<EnvE, Ip(<<Block4>>)>>)>>)>>, <<AnyOf(<<>>)>>, <<Every(<<Granted>>), D("Require group", "g")>>,
      <<Every(<<NotIp(<<Block4>>)>>), D("Order", "allow,deny"), D("Deny", All)>> >>
Old ==
    << <<D("Deny", All)>>, <<D("Allow", A4)>>, <<D("Order", "deny,allow"), D("Deny", A4)>>,
      <<D("Order", "allow,deny"), D("Allow", All), D("Deny", Block4)>>,
      <<D("Order", "deny,allow"), D("Deny", All), D("Allow", Text("v6", <<0, 1, 0>>, 1))>>,
      <<D("Satisfy", "Any"), D("Deny", All)>>, <<D("Satisfy", "All"), D("Deny", Block4), D("Allow", All)>> >>
Rules ==
    Modern \o Old
    \o [i \in 1 .. Len(Modern) |-> Auth \o Modern[i]]
    \o << <<D("AuthType", "Basic"), D("AuthUserFile", Path("users", FALSE)), Valid>>,
          <<D("AuthType", "Basic"), Valid>> >>
Wraps(l) ==
    << l, <<N("Files", "x", "") >> \o <<Dir("Files", "x", "", l)>>, <<Dir("FilesMatch", "x", "", l)>>,
      <<Dir("Files", "y", "", l)>>, <<Dir("Limit", "", {"GET"}, l)>>, <<Dir("LimitExcept", "", {"GET"}, l)>>,
      <<If("A", l)>>, <<If("A", <<Denied>>), Else(l)>>, <<If("A", <<>>), ElseIf("B", l)>>,
      <<If("A", <<Granted>>), If("B", l)>>, <<Dir("Files", "x", "", <<Dir("Limit", "", {"GET"}, l)>>)>>,
      <<Dir("Files", "x", "", <<If("A", <<>>), If("A", l)>>)>> , <<If("A", <<If("A", l), Else(<<>>)>>)>>,
      <<Granted, Dir("Files", "x", "", <<Dir("Files", "x", "", l)>>)>> >>
RuleLists == FlattenSeq([i \in 1 .. Len(Rules) |-> Wraps(Rules[i])])

LateLists ==
    << <<N("Redirect", <<"x">>, "/y")>>, <<N("Redirect", <<"">>, "/y")>>, <<N("RedirectMatch", "/x", "/y"), Denied>>,
      <<N("RedirectMatch", "(", "/y"), D("RewriteRule", AnyTo(<<Dash>>))>>, <<D("FallbackResource", MCRoot \o <<"front.php">>), If("A", <<Denied>>)>>,
      <<D("FallbackResource", <<"disabled">>), N("ErrorDocument", "404", <<"text">>)>>,
      <<N("ErrorDocument", "401", <<"text">>), N("ErrorDocument", "404", MCSub \o <<"gone">>)>>,
      <<N("ErrorDocument", "404", <<"url">>), If("A", <<D("Deny", All)>>)>>,
      <<D("BruteForceProtection", ""), D("RateLimit", "")>>, <<D("Options", "-Indexes")>>,
      <<D("Options", "-Indexes"), D("DirectoryIndex", <<"home">>), D("Options", "Indexes unchanged")>>,
      <<N("SetEnv", <<"E">>, "x"), If("ENV:E", <<N("Redirect", <<"x">>, "/y")>>), Else(<<EnvE>>)>>,
      <<N("SetEnvIf", <<"E", "A", "x">>, "x"), If("ENV:E", <<EnvE>>), Else(<<Denied>>)>>,
      <<N("BrowserMatch", <<"PATH", "A", "x">>, "x"), If("ENV:PATH", <<Denied>>)>>,
      <<N("BrowserMatch", <<"E", "A", "(.*)">>, "x"), If("ENV:E", <<Denied>>)>>,
      <<If("A", <<N("SetEnv", <<"E">>, "x"), If("B", <<>>), Else(<<N("Redirect", <<"x">>, "/y")>>)>>), ElseIf("ENV:E", <<Denied>>)>>,
      <<If("B", <<Denied>>), If("A", <<N("SetEnv", <<"B">>, "x")>>)>>,
      <<D("BotChallenge", "On"), N("BotChallengeIf", "", Nil), N("Redirect", <<"a">>, "/y")>> >>

MergeLists ==
    << <<>>, <<N("SetEnv", <<"E">>, "1"), D("Order", "deny,allow")>>, <<N("SetEnv", <<"E">>, "2"), N("SetEnv", <<"F">>, "2")>>,
      <<N("SetEnv", <<"E">>, "3"), N("SetEnv", <<"E">>, "4")>>, <<In("IfModule", <<N("SetEnv", <<"E">>, "5"), Valid>>)>>,
      <<D("Deny", A4), N("Redirect", <<"z">>, "/1")>>, <<D("Deny", A4), D("Allow", All), D("Deny", Block4)>>,
      <<N("Redirect", <<"z">>, "/2"), D("RewriteRule", AnyTo(<<Dash>>))>>, <<D("RewriteRule", AnyTo(<<>>)), Every(<<Ip(<<A4>>)>>)>>,
      <<In("IfModule", <<Dir("Files", "x", "", <<D("Deny", All), In("IfModule", <<AnyOf(<<Valid>>)>>)>>)>>), D("DirectoryIndex", <<"i">>)>>,
      <<D("Satisfy", "Any"), D("Options", "-Indexes"), D("DirectoryIndex", <<"home">>)>> >>

GateList == <<D("BotChallenge", "On"), D("BotChallengeIf", Node("!", "", IsX("A"), Nil))>>

-----------------------------------------------------------------------------
(***************************************************************************)
(* A content is the number of a list, with the name of the lists it is one *)
(* of (a list of rewrite rules stands for itself); "none" has no           *)
(* directives, a "torn" one is cut off.  The edited file gets one of size  *)
(* 1, as all others have, a longer one, and one that is too long.          *)
(***************************************************************************)
MCNothing == <<"none", 0>>
GateContent == <<"gate", 1>>
Long == <<"merge", 4>>
TooLong == <<"long", 1>>
Edited == {<<"merge", 3>>, Long, TooLong}
MCContents ==
    ({"rules"} \X DOMAIN RuleLists) \cup ({"late"} \X DOMAIN LateLists)
    \cup ({"rewrite"} \X RewriteLists)
    \cup ({"merge"} \X DOMAIN MergeLists) \cup {GateContent, TooLong}
MCSizeOf(c) == IF c = TooLong THEN 3 ELSE IF c = Long THEN 2 ELSE 1
MCTorn(c) == <<"torn", c[2]>>
MCDirsOf(c) ==
    CASE c[1] = "rules" -> RuleLists[c[2]]   [] c[1] = "late" -> LateLists[c[2]]
      [] c[1] = "merge" -> MergeLists[c[2]]  [] c[1] = "gate" -> GateList
      [] c[1] = "rewrite" -> c[2]
      [] OTHER          -> <<>>

Ask_(client_, uri, method, creds, a, b) ==
    [client |-> client_, uri |-> uri, org |-> uri, method |-> method, creds |-> creds, env |-> IF b = "x" THEN {"E"} ELSE {},
     var |-> [v \in {"A", "B", "REQUEST_URI", "DOCUMENT_ROOT"} |->
                 IF v = "A" THEN a ELSE IF v = "B" THEN b ELSE IF v = "REQUEST_URI" THEN "/x" ELSE "/r"],
     query |-> <<"q">>,
     file |-> [f \in {"/r/x", "/d"} |-> IF f = "/d" THEN "dir" ELSE "file"], allowed |-> AllOverrides]
RuleRequests ==
    {Ask_(c1, <<"x">>, m[1], c, m[2], m[3]) :
        m \in {<<"GET", "x", "">>, <<"POST", "x", "x">>, <<"GET", "", "x">>},
        c \in {MCNoCreds, Cred("alice", "pw"), Cred("bob", "pw"), Cred("alice", "no")}}
LateRequests ==
    {[Ask_(c1, u[1], "GET", MCNoCreds, v, "") EXCEPT !.org = u[2]] :
        v \in {"", "x"},
        u \in {<<u, u>> : u \in {<<"x">>, <<"gone">>, <<"">>, <<"a", "">>, <<"a", "x">>, <<"a", "b", "x">>, <<".htaccess">>,
                                 <<"wp-content", "uploads", "d", "s.php">>, <<"out", "x">>}}
             \cup {<< <<"x">>, <<"a", "..", "x">> >>}}
RewriteRequests ==
    {Ask_(c1, <<"x">>, "GET", MCNoCreds, a, b) : a \in {"", "x"}, b \in {"", "x"}}
    \cup {[Ask_(c1, <<"x">>, "GET", MCNoCreds, "x", "x") EXCEPT !.query = <<>>]}
MergeRequests ==
    {[Ask_(c1, <<"a", "x">>, "GET", Cred("bob", "pw"), "x", "") EXCEPT !.allowed = set] :
        set \in {AllOverrides, AllOverrides \ {"Auth"}, AllOverrides \ {"Limit", "Indexes"}, {}}}
EditRequests == {Ask_(c1, <<"a", "x">>, "GET", MCNoCreds, "x", "")}
GateRequests == {Ask_(c, <<"x">>, "GET", MCNoCreds, "", "") : c \in {c1, c2}}
MCRequests == RuleRequests \cup LateRequests \cup RewriteRequests \cup MergeRequests \cup EditRequests \cup GateRequests

\* The secret's file, whether its directory can be written, whether c2 is exempt.
GateStarts == {<<"absent", TRUE, FALSE>>, <<"absent", TRUE, TRUE>>, <<"absent", FALSE, FALSE>>}
On(root, srv, sub) == [f \in Files |-> IF f = MCRoot THEN root ELSE IF f = MCSrv THEN srv ELSE sub]
(***************************************************************************)
(* The files but an edited one and the one furthest down have been read    *)
(* before, in the second after they were written.                          *)
(***************************************************************************)
Start(kind, contents, requests, at) ==
    /\ plan = [kind |-> kind, requests |-> requests,
               asked |-> 0, edits |-> 0, trouble |-> 0]
    /\ clock = 2
    /\ link = [f \in Files |-> IF contents[f] = Nothing THEN NoInode ELSE 1]
    /\ node = [f \in Files |-> [j \in Inodes |->
                  [content |-> IF contents[f] = Nothing THEN GateContent ELSE contents[f],
                   mtime |-> 1, trusted |-> TRUE]]]
    /\ cache = [w \in Workers |-> [f \in Files |->
                   IF kind = "edit" \/ contents[f] = Nothing \/ f = MCSub THEN NoEntry
                   ELSE [key |-> [mtime |-> 1, size |-> SizeOf(contents[f]), inode |-> 1],
                         dirs |-> contents[f], when |-> 2]]]
    /\ walk = [w \in Workers |-> Idle]
    /\ seen = [w \in Workers |-> [f \in Files |-> {}]]
    /\ \E s \in (IF kind = "gate" THEN GateStarts ELSE {<<"absent", TRUE, FALSE>>}) :
        /\ secretFile = s[1] /\ writable = s[2]
        /\ client = [c \in Clients |-> NewClient(at[c], c = c2 /\ s[3])]
    /\ secret = [w \in Workers |-> NoSecret] /\ gate = [w \in Workers |-> Out]
    /\ req = [w \in Workers |-> NoRequest]

Proxied == [peer |-> "proxy", xff |-> "six"]
RewriteInit ==
    \E l \in RewriteLists, r \in RewriteRequests :
        Start("rewrite", On(<<"rewrite", l>>, Nothing, Nothing), {r}, [c \in Clients |-> Direct("b")])
MCInit ==
    \/ RewriteInit
    \/ \E n \in DOMAIN RuleLists, r \in RuleRequests, p \in {"a", "b", "six", "mapped"} :
         \* Credentials matter to a list with AuthType; the form of the address to others.
         /\ r.creds = NoCreds \/ (n > Len(Wraps(<<>>)) * Len(Modern \o Old) /\ p \in {"a", "b"})
         /\ Start("rules", On(<<"rules", n>>, Nothing, Nothing), {r}, [c \in Clients |-> Direct(p)])
    \/ \E n \in DOMAIN LateLists, r \in LateRequests :
         Start("late", On(<<"late", n>>, Nothing, Nothing), {r}, [c \in Clients |-> Direct("b")])
    \/ \E i, j, k \in DOMAIN MergeLists, r \in MergeRequests :
         Start("merge", On(<<"merge", j>>, <<"merge", i>>, <<"merge", k>>), {r},
               [c \in Clients |-> Direct("b")])
    \/ Start("edit", On(<<"merge", 2>>, Nothing, <<"merge", 3>>), EditRequests, [c \in Clients |-> Direct("b")])
    \/ Start("gate", On(GateContent, Nothing, Nothing), GateRequests,
             [c \in Clients |-> IF c = c1 THEN Direct("b") ELSE Proxied])

Uses(w) == plan.kind = "gate" \/ w = w1
Spend(field, max) == plan[field] < max /\ plan' = [plan EXCEPT ![field] = @ + 1]
Is(kind) == plan.kind = kind
(***************************************************************************)
(* At the gate a worker's walk, and what it does after the gate, touch     *)
(* nothing that another worker or a client sees: nothing comes between.    *)
(***************************************************************************)
Alone(w) == Is("gate") /\ req[w].pc \in {"walk", "late", "answered"}
Quiet == \A w \in Workers : ~Alone(w)
Trouble == Quiet /\ Spend("trouble", MaxTrouble)

MCReceive(w, c) ==
    /\ Uses(w) /\ Quiet
    /\ IF Is("gate") THEN Unserved(c) /\ UNCHANGED plan ELSE Spend("asked", IF Is("edit") THEN MaxAsked ELSE 1)
    /\ \E r \in plan.requests : r.client = c /\ Receive(w, r)
MCServe(w) == (Alone(w) \/ Quiet) /\ Serve(w) /\ UNCHANGED plan
MCEdits ==
    /\ Is("edit") /\ Spend("edits", MaxEdits) /\ UNCHANGED <<gatevars, req>>
    /\ \/ \E c \in Edited : Write(MCRoot, c)
       \/ \E c \in Edited, j \in Inodes, t \in BOOLEAN : Rename(MCRoot, j, c, t)
       \/ Unlink(MCRoot)
MCFails(w) == Is("gate") /\ Trouble /\ Fails(w)
MCTick == (Is("edit") \/ Is("gate")) /\ Trouble /\ Tick
MCRoams == Is("gate") /\ Trouble /\ Unserved(c1) /\ Roams /\ UNCHANGED client[c2]

MCNext ==
    \/ \E w \in Workers : MCServe(w) \/ MCFails(w) \/ \E c \in Clients : MCReceive(w, c)
    \/ MCEdits \/ MCTick \/ MCRoams

(***************************************************************************)
(* A worker goes on with its request; a browser runs the script of the     *)
(* page.  This is WF_mcvars(MCServe(w)) and WF_mcvars of a client's        *)
(* request, with what enables them and what they change written out, so    *)
(* that TLC need not compute each step again: a worker that serves a       *)
(* request can always go on, and is the only one to change its state       *)
(* unless trouble is spent; a client that is not served can ask when it    *)
(* has no request under way and a worker is free.                          *)
(***************************************************************************)
Serving(w) == req[w].pc # "idle"
SameTrouble == plan'.trouble = plan.trouble
Asking(c) == \E w \in Workers : Serving(w) /\ req[w].asked.client = c
CanAsk(c) == Unserved(c) /\ ~Asking(c) /\ \E w \in Workers : ~Serving(w)
MCFairness ==
    /\ \A w \in Workers : []<>~Serving(w) \/ []<><<Serving(w) /\ SameTrouble>>_<<req[w], walk[w], gate[w]>>
    /\ \A c \in Clients : []<>~CanAsk(c) \/ []<><<~Asking(c)>>_(Asking(c))
MCSpec == MCInit /\ [][MCNext]_mcvars /\ MCFairness

\* Rewrite rules alone.
RewriteSpec == RewriteInit /\ [][MCNext]_mcvars
=============================================================================
