---------------------------- MODULE BotChallenge ----------------------------
(***************************************************************************)
(* exec_bot_challenge: a client without a valid cookie gets a page with a  *)
(* puzzle of the day; its answer is exchanged for a cookie, signed with a  *)
(* secret that all workers read from one file, and the page asked again.   *)
(* The file is made by whichever worker needs it first (bc_load_secret);   *)
(* between its creation and its contents other workers may read it, or the *)
(* one that makes it may crash.                                            *)
(*                                                                         *)
(* An address is [peer, xff], xff the last word of X-Forwarded-For, NoIp   *)
(* if there is none that looks like an address.                            *)
(***************************************************************************)
EXTENDS Integers, Server

CONSTANTS
    Clients, Addresses,
    NoIp,
    TrustedProxy(_),     \* the peer is in BotChallengeTrustedProxy
    Class(_),            \* ip_class: the /24 or /64 of an address
    Day,                 \* seconds of a day
    TTL,                 \* BotChallengeTTL, at least 60 s
    NoSecret, NoCookie, NoPuzzle,
    EmptyKey             \* the key of length 0

ASSUME BotChallengeAssumption ==
    /\ {NoSecret, EmptyKey, "absent", "short"} \cap Workers = {} /\ NoSecret # EmptyKey
    /\ Day \in Nat \ {0} /\ TTL \in Nat \ {0}

VARIABLES
    writable,   \* the directory of the secret can be written
    secretFile, \* "absent", "short" (created, not or not wholly written), or its key
    secret,     \* secret[w]: g_secret, NoSecret while it is not loaded
    gate,       \* gate[w]: the call a worker is in
    client      \* client[c]: where it is, its cookie, the puzzle it has solved; exempt:
                \* BotChallengeExempt matches its User-Agent
bvars == <<clock, writable, secretFile, secret, gate, client>>

\* The key a worker makes is called after the worker: it makes one at most.
Full(f) == f \in Workers
Today == clock \div Day

\* bc_pick_effective_ip, ip_class
Identity(a) == Class(IF TrustedProxy(a.peer) /\ a.xff # NoIp THEN a.xff ELSE a.peer)

Out == [pc |-> "out", client |-> NoIp, goal |-> "none", key |-> NoSecret]
NewClient(a, exempt) ==
    [phase |-> "new", at |-> a, exempt |-> exempt, cookie |-> NoCookie, puzzle |-> NoPuzzle]

GateInit ==
    /\ clock = 1
    /\ writable \in BOOLEAN
    /\ secretFile \in {"absent", "short"}
    /\ secret = [w \in Workers |-> NoSecret]
    /\ gate = [w \in Workers |-> Out]
    /\ client \in [Clients -> {NewClient(a, e) : a \in Addresses, e \in BOOLEAN}]

-----------------------------------------------------------------------------
(***************************************************************************)
(* The verdicts.  BC_PASS: the page; BC_REDIRECT: a cookie and the same    *)
(* page again; BC_CHALLENGE: the puzzle of the day.                        *)
(***************************************************************************)
Return(w) == gate' = [gate EXCEPT ![w] = Out]
Pass(w, c) == Return(w) /\ client' = [client EXCEPT ![c].phase = "served"]
Redirect(w, c, key) ==
    LET cookie == [key |-> key, class |-> Identity(client[c].at), exp |-> clock + TTL] IN
    /\ Return(w)
    /\ client' = [client EXCEPT ![c].phase = "redirected", ![c].cookie = cookie,
                                ![c].puzzle = NoPuzzle]
Challenge(w, c) ==
    Return(w) /\ client' = [client EXCEPT ![c].phase = "challenged", ![c].puzzle = Today]

\* bc_secret: the key in memory, or the steps of bc_load_secret.
Need(w, c, goal) ==
    /\ gate' = [gate EXCEPT ![w] = [client |-> c, goal |-> goal, key |-> secret[w],
                                    pc |-> IF secret[w] = NoSecret THEN "read" ELSE "keyed"]]
    /\ UNCHANGED client

\* Steps 2 to 4 of exec_bot_challenge, after the cookie.
AfterCookie(w, c) ==
    IF client[c].puzzle = Today THEN Need(w, c, "mint")
    ELSE IF client[c].exempt THEN Pass(w, c)
    ELSE Challenge(w, c)

Timely(cookie) == cookie # NoCookie /\ cookie.exp >= clock

Unserved(c) == client[c].phase # "served"

\* A client asks for the page, with its cookie and its answer.
Ask(w, c) ==
    /\ gate[w].pc = "out" /\ \A v \in Workers : gate[v].client # c
    /\ IF Timely(client[c].cookie) THEN Need(w, c, "check") ELSE AfterCookie(w, c)
    /\ UNCHANGED <<clock, writable, secretFile, secret>>

\* Mutant of Check: a bad cookie is challenged at once, whatever the answer.
CheckFirst(w) ==
    LET c == gate[w].client
        k == client[c].cookie
    IN  /\ gate[w].pc = "keyed" /\ gate[w].goal = "check"
        /\ IF k.key = gate[w].key /\ k.class = Identity(client[c].at)
           THEN Pass(w, c) ELSE Challenge(w, c)
        /\ UNCHANGED <<clock, writable, secretFile, secret>>
Check(w) ==
    LET c == gate[w].client
        k == client[c].cookie
    IN  /\ gate[w].pc = "keyed" /\ gate[w].goal = "check"
        /\ IF k.key = gate[w].key /\ k.class = Identity(client[c].at)
           THEN Pass(w, c) ELSE AfterCookie(w, c)
        /\ UNCHANGED <<clock, writable, secretFile, secret>>

Mint(w) ==
    /\ gate[w].pc = "keyed" /\ gate[w].goal = "mint"
    /\ Redirect(w, gate[w].client, gate[w].key)
    /\ UNCHANGED <<clock, writable, secretFile, secret>>

-----------------------------------------------------------------------------
(***************************************************************************)
(* bc_load_secret: read; create with O_EXCL; write; or read once more.     *)
(* When nothing helps the key of length 0 is used for this call.           *)
(***************************************************************************)
WithKey(w, key) == gate' = [gate EXCEPT ![w].pc = "keyed", ![w].key = key]
Loaded(w) == secret' = [secret EXCEPT ![w] = secretFile] /\ WithKey(w, secretFile)
At(w, pc) == gate' = [gate EXCEPT ![w].pc = pc]

LoadRead(w) ==
    /\ gate[w].pc = "read"
    /\ IF Full(secretFile) THEN Loaded(w) ELSE At(w, "create") /\ UNCHANGED secret
    /\ UNCHANGED <<clock, writable, secretFile, client>>

\* Mutant of LoadCreate: without O_EXCL.
LoadCreateAnyway(w) ==
    /\ gate[w].pc = "create"
    /\ IF writable
       THEN secretFile' = "short" /\ At(w, "write")
       ELSE At(w, "reread") /\ UNCHANGED secretFile
    /\ UNCHANGED <<clock, writable, secret, client>>
LoadCreate(w) ==
    /\ gate[w].pc = "create"
    /\ IF secretFile = "absent" /\ writable
       THEN secretFile' = "short" /\ At(w, "write")
       ELSE At(w, "reread") /\ UNCHANGED secretFile
    /\ UNCHANGED <<clock, writable, secret, client>>

LoadWrite(w) ==
    /\ gate[w].pc = "write"
    /\ secretFile' = w
    /\ secret' = [secret EXCEPT ![w] = w] /\ WithKey(w, w)
    /\ UNCHANGED <<clock, writable, client>>

\* The disk is full.
WriteFails(w) ==
    /\ gate[w].pc = "write" /\ At(w, "reread")
    /\ UNCHANGED <<clock, writable, secretFile, secret, client>>

LoadReread(w) ==
    /\ gate[w].pc = "reread"
    /\ IF Full(secretFile) THEN Loaded(w) ELSE WithKey(w, EmptyKey) /\ UNCHANGED secret
    /\ UNCHANGED <<clock, writable, secretFile, client>>

\* A worker crashes; its client has to ask again.
Crash(w) ==
    /\ gate' = [gate EXCEPT ![w] = Out] /\ secret' = [secret EXCEPT ![w] = NoSecret]
    /\ UNCHANGED <<clock, writable, secretFile, client>>

Roam(c, a) ==
    /\ \A w \in Workers : gate[w].client # c
    /\ client' = [client EXCEPT ![c].at = a]
    /\ UNCHANGED <<clock, writable, secretFile, secret, gate>>

GateTick == clock' = clock + 1 /\ UNCHANGED <<writable, secretFile, secret, gate, client>>

Work(w) ==
    \/ Check(w) \/ Mint(w)
    \/ LoadRead(w) \/ LoadCreate(w) \/ LoadWrite(w) \/ WriteFails(w) \/ LoadReread(w)

GateNext ==
    \/ \E w \in Workers : Work(w) \/ Crash(w) \/ \E c \in Clients : Unserved(c) /\ Ask(w, c)
    \/ \E c \in Clients, a \in Addresses : Roam(c, a)
    \/ GateTick
GateSpec == GateInit /\ [][GateNext]_bvars

-----------------------------------------------------------------------------
BotTypeOK ==
    /\ clock \in Nat
    /\ secretFile \in {"absent", "short"} \cup Workers
    /\ secret \in [Workers -> Workers \cup {NoSecret}]
    /\ \A w \in Workers :
        /\ gate[w].pc \in {"out", "read", "create", "write", "reread", "keyed"}
        /\ gate[w].pc # "out" => gate[w].client \in Clients

(***************************************************************************)
(* All workers that have loaded the secret have the same one, the file's,  *)
(* whole; and a cookie is signed with it, or with the empty key that a     *)
(* worker falls back to while the file is missing or half made             *)
(* (bc_load_secret: "first worker wins, others read it back").             *)
(***************************************************************************)
SecretsAgree ==
    /\ \A w \in Workers : secret[w] # NoSecret => secret[w] = secretFile
    /\ \A c \in Clients : client[c].cookie # NoCookie =>
            client[c].cookie.key \in {secretFile, EmptyKey}

(***************************************************************************)
(* The gate has no loops (bc_load_secret): a client that answers what it   *)
(* is asked gets the page in the end, though a worker crashed while it     *)
(* made the secret, a cookie was signed before the secret was there, the   *)
(* client's address changed, or midnight came between puzzle and answer.   *)
(***************************************************************************)
NoLoops == \A c \in Clients : (client[c].phase # "new") ~> (client[c].phase = "served")
=============================================================================
