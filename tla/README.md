# LiteHTTPD in TLA+

LiteHTTPD is a module for OpenLiteSpeed (`src/mod_htaccess.c` and some forty
files beside it) that executes Apache `.htaccess` files: for every request it
collects the directives that apply, runs them in a fixed order against the
session, and filters the response. Around it stand a root daemon that puts
blocked addresses into the kernel's packet filter (`firewalld/`, Rust) and an
offline converter for Apache configurations (`tools/`).

This directory models two kinds of things. Where several actors meet: the
workers of the server share counters and a secret file, they talk to a daemon
that keeps a table, a file and the kernel in step, they read files that an
administrator edits, and inside one worker the responses of several sessions
share the state of a stream filter and a table of headers. And what a `.htaccess` file means: how its
text becomes a tree and the tree a text again, how the files of several
directories are put together, and what a request gets in the end. The rest is
inventoried below.

    tlc -workers 2 -config BruteForceRace.cfg MCBruteForce
    tlc -workers 2 -config Site.cfg MCSite
    tlc -workers 2 -config Response.cfg MCResponse
    tlapm BruteForceProofs.tla

## The system

Paths are relative to the repository. A worker is one process of the server;
it serves many connections in one event loop, and a hook runs to completion
before the loop goes on. What workers share, they share through the server's
shared-memory hash; what the responses of one worker share is in thread-local
variables.

| Component | State | Operations | Talks to |
|---|---|---|---|
| Brute-force protection (`htaccess_exec_brute_force.c`) | none of its own; a record per client in the shared counters | `exec_brute_force`, called twice: as a step of the pipeline and when Basic authentication failed | shared counters, firewall client, response status |
| Shared counters (`htaccess_shm.c`) | native: the server's hash; built-in: an open-addressing table with tombstones | get, update, atomic increment, cleanup, init, destroy | callers by key (`b:<ip>`, `r:<ip>`) |
| Rate limiting (`htaccess_exec_ratelimit.c`) | a record per client in the shared counters | `exec_ratelimit` | shared counters, response status and Retry-After |
| Firewall client and daemon (`htaccess_firewall_client.c`, `firewalld/src/*.rs`) | client: none; daemon: table, dirty flag, file `firewall.db`, kernel rules | client: send one line and wait 100 ms; daemon: `b`, `u`, `s`, `q`, sweep every 10 s, restore at start | UNIX socket; `nft`, `iptables` |
| Request pipeline (`mod_htaccess.c`) | per-request flags and the current directive list, thread-local | hooks for URI map, response headers, response body, HTTP begin | everything below |
| ESI (`htaccess_esi.c`, `htaccess_esi_fetch.c`, `htaccess_stream.c`, hooks in `mod_htaccess.c`) | one thread-local slot per worker: session, mode, held input, parked output | receive chunk, flush, end of stream | the server's response-body hooks, subrequests |
| Directory walk and cache (`htaccess_dirwalker.c`, `htaccess_cache.c`, `htaccess_directive.c`) | parsed files by path, mtime, size and inode | walk, get, put, merge of the levels | file system, parser |
| Bot challenge (`htaccess_exec_botchallenge.c`, `htaccess_botcrypto.c`) | a secret file; otherwise stateless (cookie, nonce in the query) | challenge, verify, mint | request headers and query |
| Access control (`..._acl.c`, `..._require.c`, `..._limit.c`, `..._files_match.c`, `htaccess_cidr*.c`) | none | verdict for a client and a path | pipeline |
| Authentication (`..._auth.c`) | none | verdict for credentials | password file, brute-force protection |
| Rewriting and redirects (`..._rewrite.c`, `htaccess_rewrite_native.c`, `..._redirect.c`, `htaccess_regex.c`) | none across requests | rules with conditions and flags over the URI | pipeline |
| Expressions (`htaccess_expr.c`) | none | `<If>` conditions | pipeline |
| Response headers (`..._header.c`, `..._expires.c`, `..._cache.c`, ...) | thread-local: the shadow table, what header directives have written | set, append, merge, add, edit, unset; types, charsets, expiry, cache control, error pages | the server's response |
| Parser and printer | none across files | text to directive lists and back | directory walk, converter |
| Environment, PHP and handler directives | none | hand a value to the server | session |
| Server shims (`lsiapi_shim.c`, `ols_native_api.c`) | none | adapt the server's C API | everything |
| Converter (`tools/`) | none | Apache configuration to OpenLiteSpeed files | file system |

### What is hard in it, and what makes it correct

- **Brute force.** The record is read under the hash lock and a changed copy is
  written under the lock later, so workers overwrite each other. Correct:
  nobody is refused early; the daemon hears of every attacker, once per window;
  windows last as long as the directive says; the extra attempts that lost
  updates let through are bounded.
- **Rate limit.** The increment is atomic, the decision to increment or to
  reset is not. Correct: nobody is refused below the limit; counts go missing
  only when two workers open the same window; each opening lets no more than
  the limit through.
- **Built-in table.** Deleting leaves tombstones, inserting reuses them.
  Correct: it behaves as a map: a key has one slot, what is stored is found,
  nothing fresh disappears, an insertion fails only when the table is full.
- **Daemon.** Three copies of the truth (table, file, kernel) with a late file,
  commands that arrive late and in another order, failing calls, crashes in the
  middle of a write, reboots, and the kernel's own timers. Correct: a clean
  table equals the file; what is listed is enforced; what has lapsed is not;
  every temporary block ends.
- **ESI streaming.** Responses of one worker interleave on one slot; the
  network may refuse output at any chunk. Correct: a client gets the bytes of
  its response, in order, once.
- **Response headers.** What a header is now has three sources, which need not
  agree: the worker's shadow table, the server, and (on OpenLiteSpeed) the
  server as it was before the hook. The table is emptied by one hook and read
  by another, with those of other responses between. Correct: each header is
  what the directives that apply say, in their order, and of this response.
- **Pipeline.** Early returns skip what comes later; access rules sit in lists,
  trees and nested blocks that four functions walk to different depths.
  Correct: no path reaches the content past a denial that applies to it.
- **Cache.** A parsed file is reused while time stamp, size and inode agree,
  and stat, open, measuring and reading are separate system calls. Correct: a
  request is judged by what was on disk while it was looked at.
- **Merge.** A directive of a lower directory replaces the one it overrides,
  and nothing else, through IfModules and the AllowOverride filter.
- **Parser and printer.** The parser has one slot for each kind of container
  and no tree while it reads; the printer quotes some values and not others.
  Correct: what is written inside a container stays inside one, the tree is the
  one that is written, and what is printed is read back.
- **Bot challenge.** The secret is made by the worker that needs it first; the
  puzzle changes at midnight; cookies are bound to an address. Correct: workers
  agree on the secret, and nobody who answers is sent round in circles.
- **Rewriting.** Conditions are chained by a flag, and rules work on what the
  one before has left. Correct: the rules do what their manual says.

The list of hazards, each at its line, is in `PROJECT.json`. Where the code
falls into one, or a property exempts it, its note says so.

## The modules

    NativeShm <- BruteForce <- MCBruteForce        BruteForceProofs
        ^            | implements (one worker)
        |        AtomicLimiter
        +------- RateLimit  <- MCRateLimit         RateLimitProofs
    CounterMap <- implemented by - ShmTable <- MCShmTable   ShmTableProofs
                   Firewalld <- MCFirewalld        FirewalldProofs
    EsiStream, Headers <- Response <- ResponseAsWritten <- MCResponse
                   Response                        ResponseProofs
                   EsiStream <- MCEsiStream        EsiProofs
    Leaf <- Parser <- Printer <- MCConfig          ParserProofs
                     (MCConfig: Expr for the conditions)
    Server <- DirCache ------+                     WorkerProofs
    Server <- BotChallenge --+                     WorkerProofs
              Merge <- Override -- Site <- MCSite  WorkerProofs (Merge)
    Cidr <- Expr <- Access --+
            Expr <- Rewrite -+

`BruteForce` and `RateLimit` both run on `NativeShm`, the hash of the server as
`htaccess_shm.c` uses it. Their keys have different prefixes, so the two never
meet in one record and are not composed. `ShmTable` is the other implementation
of the same interface, used when the server offers no shared memory; then each
worker has a table of its own, and the table is a sequential object.
`BruteForce` ends at the block command; `Firewalld` starts with it
(`Send(c)`), from any client at any moment, and does not depend on how often
workers send. `Response` composes the hooks of a response, `EsiStream` for the
body and `Headers` for its headers; they share no state with the others, but
for `req_cache`, which `EsiStream` has.

`Site` composes the request path. Its steps are those of `DirCache` and
`BotChallenge`, unchanged, and between them the decisions that `Merge`,
`Override`, `Access`, `Expr` and `Rewrite` define as functions. The directives
it gets are values of the kind the parser makes; the parser itself is checked
apart, in `MCConfig`, for its texts would multiply with everything else. Of the counters
`Site` knows only that the limiter and the brute-force protection may refuse:
what they decide is the subject of their own modules.

### NativeShm

The table is a function from addresses to records; `NoRecord` is a missing
entry. `Get` is `native_shm_get` (a copy, empty if the magic is wrong),
`Update` and `HasRoom` are `native_shm_update` (it can fail only for a new key
in a full pool), `AtomicIncrement` is `native_shm_atomic_increment`. Every
operator is one critical section. The ip string inside the record, and
`blocked_until`, which is written but never read by any decision, are left out.

### BruteForce

`exec_brute_force` takes the lock twice, so one call is up to four steps:

| Action | Code |
|---|---|
| `Start` | scan of the directives, effective address, whitelist, paths, method, `time(NULL)` |
| `Lookup` | `shm_get_record`, and the early return of an uncounted GET |
| `Write`, `FailOpen` | the new record, `shm_update_record`, its success and its failure |
| `Notify` | `fw_client_block` and the 403 |
| `Wake` | end of the throttle's sleep and the 429 |
| `Restart` | a worker dies at any of these points |

What the scan of the directives leaves in the locals is a policy, a constant
record; a request carries its policy, so different directories may disagree
about thresholds and windows over one shared record. Address matching by CIDR
is membership in a set.

`AtomicLimiter` says what the function promises: a request is judged in one
step. With one worker `BruteForce` implements it (`JudgesAtomically`); with two
it does not, and the other properties say what is left.

### RateLimit

`Start`, `Look` (`shm_get_record` and the test of the window), then `Open`
(reset to one) or `Count` (`shm_atomic_increment` and the verdict).
`Requests`, `Window`, `Burst` and `Limit` are the defaults of
`ratelimit_parse`. The history variable `admitted` counts what a directive
other than `log` lets through, `opened` how often a window was opened:
`AdmittedPerOpening` relates the two. `NoEarlyRefusal` is its counterpart for
the client.

### ShmTable and CounterMap

`state`, `key`, `record` are the slots, `count` is `g_store->count`. The probe
loops are written as conditions on offsets: `FoundAt(k, i)` is where the loop
stops with a hit, `InsertAt(k, i)` where it stops to insert (the first
tombstone if one was passed, else the empty slot, else the tombstone after a
full turn). `Update`, `AtomicIncrement`, `Cleanup`, `Reload` are the operations.
The hash function is a constant. `CounterMap` is the map its callers rely on.

### Firewalld

| State | Code |
|---|---|
| `blocked`, `dirty` | `State` in `main.rs`, under its mutex |
| `db` | `firewall.db` |
| `kernel` | the rules of the backend: number of copies, and a timer for nftables |
| `phase`, `todo` | the daemon is down, restoring, serving, or writing the file with the mutex held |
| `inbox` | commands accepted by a socket and not executed yet: clients give up after 100 ms, the command stays |
| `unsure`, `unsaved`, `torn` | history: addresses whose last backend call failed, a failed write, a file cut by a crash or a full disk |

Deadlines are absolute in the code (`expires_at`, the kernel's timeouts). Here
they are countdowns that `Tick` decrements all at once, so no bound on the clock
is needed and the state space is finite without one. An entry of the file keeps
aging while the daemon is down, as an absolute time does. Restoring blocks with
the full TTL, as the code does, not with the rest.

`Send` is a client; `ProcessBlock` and `ProcessUnblock` are `process_command`
under the mutex, in any order across connections; `Sweep`, then `Save` or
`FailSave`, are the sweeper thread; `Crash` and `CrashWhileSaving` may strike
at any point, the latter leaving a prefix of the file (whole lines and possibly
a cut one, which `load` reads as a permanent block); `Reboot` empties the kernel
while the daemon is down.

`NftRefreshes` is a constant, for what the code leaves to the kernel: whether
adding an element that is already in the set restarts its timeout.

### EsiStream

One worker: a hook is one step, and the server calls the hooks of several
sessions in any order the protocol allows.

| State | Code |
|---|---|
| `reqs`, and its length `seq` | the requests and `req_seq_counter` |
| `resp` | what each session is sending: the request, how much of the body was handed over, whether the end was, whether the filter asked to be called again |
| `cache` | `req_cache`: whose directives are held |
| `slot` | `esi_req` with its `esi_ctx_t`; `NoCtx` is the bypass |
| `fragment` | `esi_req_subrequest` |
| `out`, `ends` | what the client got; how often the stream was ended |
| `events` | history: what happened to each response (below) |

| Action | Code |
|---|---|
| `UriMap`, `SendRespHeader` | the counter and the cache in `on_uri_map` and `on_send_resp_header` |
| `Forward` | `on_recv_resp_body_esi_hook`, bypass |
| `StillBlocked` | the same, when `esi_flush_parked` fails |
| `Hold`, `Stream` | a chunk in the middle: output held for the join, or written and its rest parked |
| `EndHeld`, `EndStream` | the last chunk: joined and written once, or written and the partial tag after it |
| `Rcvd` | `on_rcvd_resp_body_esi_hook`, after the end or an abort |

A page is a sequence of atoms: text, and the pieces of tags, so that a chunk
may end inside a tag. `Process` is `esi_process` as a function of the context
and the chunk. `on_uri_map` on a session that is still sending is a response
that was aborted and its object recycled. Whether SEND_RESP_HEADER comes before
the first body chunk is the server's choice, so both orders are modelled; the
first one drops the directives that `esi_gate_check` looks for, and the page is
forwarded as it is.

`events` names what the code does not recover from: another response of the
worker overlapped ("shared"), a chunk came while output was still blocked, or
the joined page did not fit into one write ("blocked"), a closing tag was cut
("split"), a partial tag exceeded `ESI_HOLD_MAX` ("long"), the filter stopped
holding, or had no room for the partial tag at the end (`TagFits`; "gave up"), a
fragment was served before ("stuck"). `WholePage` says that a client gets its
whole page unless one of these happened; the other properties make no such
exception, but for the order in `DeliveredOnce`. What the whole page is, `Kept`
says of the page alone: text outside the removed regions, a fragment for each
dynamic include, and a tag that the page leaves open (`NeverClosed`), which the
filter sends as it is. It is meant for pages whose tags are well formed
(`WellFormed`: a grammar that `Reads` follows from atom to atom; what lies in a
removed region may be anything). `MCResponse` assumes it of its pages
(`WellFormedPages`), with the reading written out, and TLC evaluates that.

### Headers and Response

`Headers` has the response-header hook as operators: `Respond` is
`on_send_resp_header`, stage by stage and in its order (`HeaderStage`,
`FilesStage`, `FilesMatchStage`, `TypeStage`, `IfStage`, `CacheStage`,
`ExpiresStage`, `ErrorStage`), `ExecHeader` is `exec_header`, and `ShadowGet`,
`ShadowSet`, `ShadowRemove` are the table. A header is a sequence of lines and a
line a sequence of elements. Blocks are three: the children of a Files block,
of a FilesMatch and of an If go through three functions, which do not agree on
what an Else belongs to. They call each other; which children they execute does
not depend on the headers, so `Unfold` replaces a child that is an If by the
children it chooses, as often as Ifs can lie in one another (`MAX_IF_DEPTH`, the
parser's stack), and `Run` executes what is left in its order. `shows` is which
of two servers it is: one that shows a hook the headers it has set itself, or
one that does not (the reason for the table).

The texts are constants: `Elements` is what may stand in a line, `Fields` are
the names, `Directives` those of all requests, children included. `WellTyped`
says what the parser makes of a line (a header directive has a name and a value,
a cache directive a line that is not empty); it is the one thing assumed of
directives, and TLC evaluates it of all that the run uses.

`Response` adds three variables to `EsiStream`: `shadow`, the table, which
belongs to the worker; `head`, what the server has of each response's headers;
and `mixed`, a history of the names that another response put into the table
since the URI hook. `Map` is `on_uri_map` with `exec_header_reset_shadow`,
`SendHead` the header hook of a request whose directives write headers,
`SendBare` that of one whose directives do not, `Body` and `Finish` are the
actions of `EsiStream`.

`HeadersAsWritten` (in `ResponseAsWritten`, which `Response` and its proofs do
without) compares what is sent with `Written`: the directives that
apply, in the order of the hook, each applied to the elements the header has,
without a table. `Tracked` says for which headers: it names the sequences in
which the code loses track (see the disagreements), a table with more names
than slots, a line that does not fit, and a name in `mixed`. Of 20,250 lists of
three directives 5,620 are tracked, of 1,350 lists of two 642.

### Leaf, Parser and Printer

A text is a sequence of words and quote marks. `Leaf` has the parsers that
`parse_line` dispatches to (`ParseHeader`, `ParseRedirect`, `ParseFrom`, ...):
what they take for a name, a value or a condition, and what they refuse.

| State | Code |
|---|---|
| `text` | the lines read so far |
| `st.fm`, `.files`, `.any`, `.all`, `.limit` | the slots of `htaccess_parse`, one for each kind |
| `st.innermost` | `req_innermost` |
| `st.ifmod`, `st.ifs` | the stacks of IfModules and Ifs; an IfModule has saved what was open |
| `st.conds`, `st.skip`, `st.top` | RewriteConds that wait for a rule; the nesting inside a stray Else; the list |

`Read(l)` is one turn of the parser's loop: `Step` tries the handlers in the
code's order. A file may end after any line; what is open then is dropped
(`Finish`). `Printer` is `htaccess_print`, and beside it `Reference`: the
containers of a text nested as they are written, with a stack, as a reader of
the file would do it.

### Merge, Override, Access, Cidr, Expr

Functions, each next to its reference. `Merge`: the directories of a walk,
`MergeOne` (a directive takes the place of the first that it matches), the
levels one by one. `Override`: `FilterByAllowOverride` and `FlattenIfModule`,
which are recursive; they have a module of their own so that `Merge` can be
reasoned about. `Cidr`: addresses as octets whose
width is a constant, so that all addresses of a small family are checked;
ranges and the lists of them, which are read in three ways (`RuleMatches4` and
`RuleMatches6`, `InList4` and `InList6`, `IpInCidrs`). `Access`: `AclDenies` (Order, Allow, Deny),
`RequireDenies` with its containers and its scan for user requirements,
`AuthStatus` and `CheckCredentials`, `ContainerDenies`. The references are
`InRange` (the address begins with the bits of the range) and `Written` (one
Boolean tree). `Expr`: the recursive descent with the depth it counts, the
evaluation, the printing. What the C library and PCRE say of a text (`Less`,
`Regex`, ...) are constants.

### Rewrite

The built-in engine, used on a server without the vendor's patch. `EvalCond`,
`CondChain`, `RuleMatch`, `Applied_` and `RunRule` are the functions and the
loop of `htaccess_rewrite_native.c`; a URI is kept as a path and the texts that
make up its query. `RewriteWritten` is the reference, from
`docs/src/content/docs/directives/rewrite.md`; `RulesExcepted` names where the
code does something else (listed below). `<` and `>` read a byte behind the end
of a shorter operand: `junk` is the set of operands for which it is not zero,
and any.

### DirCache

| State | Code |
|---|---|
| `link`, `node` | names and inodes of the `.htaccess` files: content, time, whether the file is trusted |
| `cache` | the table of parsed files of each worker, by name, with the key |
| `walk` | where a worker is: the levels it has, the open file, the key from `fstat`, the measured size |
| `seen` | history: what reading each file would have given at some moment of the walk |

| Action | Code |
|---|---|
| `StatHit`, `StatMiss` | `stat` and `htaccess_cache_get` |
| `Open`, `Measure`, `Read` | `open` and `fstat`; `fseek`/`ftell`; `fread`, the parse, `htaccess_cache_put` |
| `Restart` | the worker is restarted with an empty cache |
| `Write`, `Rename`, `Unlink` | the administrator, between any two of these |

### BotChallenge

| State | Code |
|---|---|
| `secretFile`, `writable` | the secret's file: absent, created but not written, or whole; its directory |
| `secret` | `g_secret` of each worker |
| `gate` | the call a worker is in: read, create, write, read again, keyed |
| `client` | the browser: its address, cookie, the puzzle it has solved |

`Ask`, `Check`, `Mint` are `exec_bot_challenge`; `LoadRead`, `LoadCreate`,
`LoadWrite`, `WriteFails`, `LoadReread` are the system calls of
`bc_load_secret`; `Crash` and `Roam` may come between. The hashes are
uninterpreted: a signature is the key it was made with.

### Site

`req[w]` is the request a worker serves. `Receive` refuses what `on_uri_map`
refuses at once and begins the walk; `Decide` is the merge and the access
decisions (`AccessStatus`: Require or Order, then Files, then Limit, then
authentication) up to the limiter and the gate; `GateDone` goes on after the
bot challenge; `Late` is everything that may answer in the place of the page,
in the order of the code (`LateOutcome`: redirects, rewrite rules, fallback,
brute force, `-Indexes`, environment, If blocks, error page); `Done` sends the
answer. `Fails` is a worker that dies.

## What the runs check

| Run | Instance | Shows |
|---|---|---|
| `bf_single` | one worker, two addresses, every action, a trusted proxy, a whitelist, an unprotected path, a pool of one entry, one restart | `NoLostCount`, `EscalateOncePerWindow`, `WindowNotCutShort`, and `JudgesAtomically`: the code implements `AtomicLimiter` |
| `bf_race` | two workers, one address, threshold 2, window 2 s | `NoPrematureBlock`, `EscalationNotSkipped`, and `AdmissionBound`: lost updates let through at most a(a+5)/2 requests of a window instead of a |
| `shm_table` | three slots, four keys, three of them colliding | `OneSlotPerKey`, `Reachable`, `CountExact`, `NoFalseFull`, `ImplementsMap` |
| `rate_limit` | two workers, two clients, limit 2, pool of one entry | `NoEarlyRefusal`, `LossOnlyByReopening`, and `AdmittedPerOpening`: whatever the workers mix, no more than the limit get through for each time the window is opened |
| `firewalld` | two addresses, three backends, two commands, one crash, one reboot, one failure | `CleanMeansSaved`, `EntryIsEnforced`, `NoOrphanElement`, `EntryLapses`, `AddressIsLetGo` |
| `firewalld_iptables` | one address, iptables, no failure of any kind | counterexample to `NoOrphanRule` |
| `response` | two sessions, two responses; five pages, a network that takes 0, 1 or all atoms, a hold of three atoms; a table of two names, lines of three elements, 28,000 lists of directives | `NoCrossTalk`, `DeliveredOnce`, `WholePage`, `NothingAfterEnd` of the bodies; `HeadersAsWritten` of the headers |
| `response_mixed` | two responses, 12 lists of header directives each | counterexample to `OwnHeadersOnly` |
| `esi_stream_order` | one response with two dynamic includes, a network that takes everything | counterexample to `NeverOutOfOrder` |
| `config` | every nesting of three containers with two directives and a stray tag, every directive with 60 shapes of arguments, 14 conditions | `Contained`: what is written while a container is open is never applied to the whole directory; `TreeAsWritten`: the tree is the one written; `PrintsBack`: what is printed is read back |
| `site` | six scenarios, see the bounds | `ServedAsWritten`: nobody gets, or is handed on to, what the directives refuse; `MergedAsWritten`: the directives are those of the levels; `RewrittenAsWritten`: rules do what their manual says; `Fresh`: a request is judged by what stood in the files; `SecretsAgree`, and `NoLoops`: who answers the puzzle gets the page |
| `rewrite_forbidden` | the rewrite rules of `site` | counterexample to `ForbiddenIsRefused` |

Each module has a type invariant (`TypeOK`, `ParserTypeOK`, `ResponseTypeOK`). Properties that
would be false of this code in cases that are known state those cases as
exceptions, each in its own conjunct or operand and explained in the comment;
the section on disagreements lists them. Those of `RulesExcepted` were checked
one by one: without it `RewrittenAsWritten` fails.

### Bounds, and why they are enough

- *Two workers.* A lost update needs one worker to sleep on an old copy while
  another writes; more sleepers add copies of the same case, which
  `BruteForceProofs` covers for the safety properties it proves. The bound
  a(a+5)/2 is for two workers only; TLC finds it reached for a = 1, 2 and 3 (the
  configuration keeps a = 2).
- *Nine requests in `bf_race`* is more than the 7 admissions the bound allows,
  so the bound, not the budget, is what stops an attacker.
- *Clocks* run long enough for a window to end and the next one to begin
  (`MaxTime` is the window, or twice the window with one worker).
- *A pool of one entry* makes `shm_update_record` fail for the second client.
- *Three slots, four keys*: more keys than slots, a probe that wraps around,
  tombstones in front of and behind live records.
- *One crash, one reboot, one failing call, two commands* in any order: block
  and block again, block and unblock, with the crash at every point between.
- *TTL 2* lets an entry be half over when it is restored or blocked again.
  `fw_client_block` writes the TTL only if it is positive, and the daemon takes
  a command without one for a permanent block; `Commands` has both.
- *`response`* starts in one of three scenarios:
  - *body*: two responses are enough for one to reset the other's slot, to
    inherit its session object, or to follow a fragment. The pages of the first
    have every kind of tag; the second is one dynamic include. `HoldMax` 1 and
    `BufferMax` 3 are reached: a tag of three atoms, a page with two includes
    and text.
  - *head*: two requests with one or two header directives each, on a header
    that the server has or has not, on both kinds of servers, with the hooks in
    any order and sessions recycled. No body.
  - *one*: one request; every list of up to three of 15 header directives on
    three kinds of headers; each of them in Files, FilesMatch and If blocks
    with an If and an If, ElseIf or Else behind it, two Ifs in one another
    (`MAX_IF_DEPTH` 2) at most; up to three of 11
    directives for types with six for expiry; up to three of nine for caching
    and error pages. Three header names and `HDR_SHADOW_SLOTS` 2 make the table
    give one away; `HDR_MAX` 3 makes lines overflow.
- *`config`*: two directives and a condition in up to three containers reach
  every pair of slots in either order, with a third below them; `MaxStray` 1 is
  a tag closed that is not open, or closed across another. With
  `MAX_IFMODULE_DEPTH` 1 and `MAX_IF_DEPTH` 2 the limits are reached. Texts of
  one line have every keyword with every shape of arguments. `Budget` 4 bounds
  containers, directives and strays together.
- *`site`* starts in one of six scenarios, each small in what the others vary:
  - *rules*: one file; 41 lists of access rules, each alone and inside 13 kinds
    of blocks, for three methods and sets of variables, four credentials and
    four addresses of both families (two and three bits), one IPv4-mapped;
  - *late*: 17 lists of the stages behind the gate, for paths that exist, do
    not, are directories, or are barred;
  - *rewrite*: one rule with up to two of eleven conditions, with and without
    `[OR]`, or three of two; and every pair of 18 rules with a RewriteBase;
  - *merge*: three levels with eleven lists each, four sets of AllowOverride;
  - *edit*: two requests through the cache while a file is written in place,
    replaced or removed twice, by contents of sizes 1, 2 and one above the
    limit, with one tick of the clock; a cache of two entries for three files;
  - *gate*: two workers and two clients, a file that is absent, in a directory
    that can be written or not; one crash, one change of address or one
    midnight (`Day` 1, `TTL` 1). A worker that is about to do what nobody else
    sees (walking files that do not change, answering) does it before anything
    else happens (`Alone`, `Quiet`), so that the orders that are explored are
    those of the steps on the secret's file and of the cookies.
- Symmetry (of workers, clients, sessions) is used only in runs without
  liveness properties.
- `CHECK_DEADLOCK FALSE` is set where requests and clock are bounded: such a
  run ends; so do `EsiStream`, `MCResponse`, `MCConfig` and `MCSite`, whose requests or texts
  are bounded. The table and the daemon
  never stop, and deadlock is checked there.

### Fairness

Two modules have liveness properties. In `Firewalld`, `FairSpec` assumes that time passes,
that the sweeper's loop comes round again and its write returns (`Sweeping`,
`Save \/ FailSaving`; nothing ends the loop while `main` runs), that systemd starts the
daemon again (`Restart=always` in the unit) and that restoring goes on. Nothing
is assumed of clients, of the order of commands, or of crashes, which are
bounded because a daemon that crashed for ever would never sweep.

In `MCSite`, `MCFairness` assumes that a worker goes on with the request it
serves (a hook runs to completion) and that a browser, which runs the script of
the challenge page, asks again when a worker is free. Both are weak fairness,
with what enables the actions, and the variables they change, written out. Nothing is assumed of the clock, of
changes of address or of crashes, which are bounded; a client whose address
changed for ever would never be served, and should not be.

## What is proved

The modules `*Proofs` hold the proofs. They hold for any number of workers,
addresses, policies, directives, slots, keys and commands, under the named
assumptions on the constants (which the runs evaluate).

- **BruteForceProofs.** `NeverBlocksTooEarly` (`[]NoPrematureBlock`): a refusal
  alone says nothing about how the count came about, so the invariant
  `CountInv` carries the count back to where it was made: every record in the
  table and every worker's copy counts no more attempts than the history of its
  window. `DaemonIsNotSkipped` (`[]EscalationNotSkipped`): the invariant
  `SendInv` says that any count above the threshold, in the table or in a copy,
  means that the command of that window is sent or about to be. It needs one
  threshold for all blocking policies (with two, a count can step over the
  lower one), at least one attempt allowed, and no throttling policy on the
  same record; the theorem states these.

  With several workers counts are lost, and the runs show it; what the source's
  comments promise holds of one worker, and is proved under the hypothesis
  `OneWorker` for any addresses, policies and clock. The invariant `AloneInv`
  says that the copy a worker is about to write back is still the record in the
  table (nobody else writes between its two locks), that counts are exact, and
  that no update was ever written to a window younger than the current one.
  From it follow `CountsAreExact` (`[]NoLostCount`), `WindowsRunTheirTime`
  (`WindowNotCutShort`), and `OneWorkerIsAtomic` (`JudgesAtomically`): each step
  of the four is a step of `AtomicLimiter` or a stutter, under the refinement
  mapping of `BruteForce`. `AdmitsNoMoreThanAllowed` bounds the attempts that are
  let through in a window by the largest `allowed_attempts`. `EscalatesOnce`
  (`[]EscalateOncePerWindow`) needs besides that the blocking policies have one
  threshold (`OneBlockThreshold`); its invariant `OnceInv` adds that a window
  for which the command was sent, or is about to be, is spent: over, or counted
  beyond the threshold, which a count crosses once.

  With two workers counts are lost, and `LostUpdatesAreBounded`
  (`[]AdmissionBound`) says how many: at most a(a+5)/2 attempts of a client are
  let through in a window of a. The hypotheses: there are two workers
  (`TwoWorkers`), and all scopes have one threshold and one window (`OneRule`).
  Nothing is assumed of the clock, of restarts, or of the pool. It is a
  potential argument. A write sets the table to one more than the copy it was
  made from, so `AdmissionInv` compares, for each client and window, the table's
  count and the two workers' copies with what was let through: twice that, plus
  `Promise` (what the table and the older copy still allow) is never more than
  `Budget`. A copy put back at level k costs what the counts above k had
  earned, and each level can be lost once only, since the worker that put it
  back must look again. `Late` is the case that made a second form of the
  invariant necessary (`Tense`): a worker that read the clock before the window
  began may write an older window over it, which starts again from nothing, but
  once only.
- **RateLimitProofs.** `NeverRefusesEarly`, `LosesOnlyByReopening`, with the
  invariant that every record's window was opened and its count is backed by
  the history. `AdmitsWithinLimit` (`[]AdmittedPerOpening`): `Within` alone is
  not inductive; `OpenWithin` adds that what was let through since the last
  opening is at most the count. An increment can then let one more through only
  while the count is below the limit, and an opening, also one by a slow worker
  over a window that others use, adds a whole limit to what is allowed.
- **ShmTableProofs.** For any capacity and hash function: `NeverStoredTwice`
  and `AlwaysReachable` (together inductive: an insertion is safe because
  reachability tells it that a key it missed is absent), `CountIsExact`, and
  `TableImplementsMap`: initial states map to initial states, and each step is
  a step of `CounterMap` or a stutter. `FullMeansFull` (`[]NoFalseFull`): a
  probe that finds neither the key nor a place has seen every slot, for the
  offsets reach all of them.
- **FirewalldProofs.** `CleanTableIsSaved`: the invariant adds that while
  restoring, the table and what is still to do make up the file.
  `EntriesAreEnforced`, for kernels that restart timeouts: the invariant
  `CoverInv` compares timers, a rule covers an entry if it outlasts it.
  `NftLeavesNoOrphan`.
- **EsiProofs.** For any sessions, pages, chunks, networks and limits of the
  filter, and any order of the hooks: `OwnBytesOnly` (`[]NoCrossTalk`),
  `SentOnceInOrder` (`[]DeliveredOnce`) and `EndedIsOver`
  (`NothingAfterEnd`). None of these three is inductive: what a client will get
  lies in the slot, in three places of the context (`parked`, `held`, `hold`),
  and in the rest of the page. The invariant `EsiInv` has six parts. `Typed`
  gives each sequence the atoms of its own request. `Fresh`: a request that has
  not come has received nothing, and none is answered on two sessions. `Owned`:
  the slot and the cache, where they name a session and the current sequence number,
  belong to the response this session sends, so that a session recycled after an
  abort cannot find the bytes of the one before. `InOrderSoFar`: the output, what
  is parked and what is held are three parts of a stream, each before the next,
  the partial tag comes after all of them, and none is beyond what the server
  has handed over. It has two ways: *order*, for a response whose filter has not
  given up holding, and *once* (no position twice), for one whose held output
  is overtaken. `Untouched`: without EsiEnable, what was consumed is what was
  sent. `Ended`: an ended stream has no filter and asks for no further call.

  `WholePageSent` (`[]WholePage`, for pages that are `WellFormed`) says that
  nothing is lost either. `WholeInv`, inductive with `EsiInv`, is about the
  responses that nothing has happened to. `Lone`: such a response has the worker
  for itself, since another one would have marked both as shared. `Progress`
  compares the slot with a reading of the page, a place in the grammar after
  each atom: while the page goes on (`Steady`) the filter is in the mode of that
  place, its partial tag is the tag that is open there, and what was sent, what
  is parked and what is held are together what the atoms so far yield
  (`Stuff`); after the end, while the rest waits for the network, nothing is
  held any more (`Flushed`). Only what is parked or sent is free of
  placeholders. `AllFinished`: a finished response is complete. The step from
  one place to the next is `AbsorbAt` (by the mode: `PassingAt`, `ClosingAt`,
  `RegionAt`), and `Kept` is met only at the end, where `DeliveredKept` compares
  it with the reading.

  What `Process` and `Join` do with a chunk is a recursion over it, and an
  induction theorem that takes a predicate as its parameter cannot be used
  here. The proof goes over sets instead: that the recursive functions exist is
  shown by their initial segments (`ScanExists`, `JoinExists`), and that every
  value of theirs has a property by the least index at which one has not
  (`FirstFailure`, from well-foundedness).
- **ResponseProofs.** `ResponseTypeCorrect` (`[]ResponseTypeOK`): whatever the
  directives, how deep their blocks, the fields of the server and the order of
  the hooks, the shadow table has no name twice, no more names than slots and
  no value longer than its buffer, after any header hook. That is about a run of
  loops over lists of directives, each iteration of which takes its response
  from the one before. `ExecType` shows one iteration, by the type of the
  directive, from `ShadowSetType`, `EvictType` and `ShadowRemoveType` (the three
  things that happen to the table); `RunType` carries it along a loop and
  `UnfoldedType` down the blocks. As above there is no induction theorem to
  use: `Recursively` says that a function on 0 .. n exists when its steps have a
  set they do not leave, `Inductively` that its values then lie in it, both by
  the least index at which it fails. `FlattenType` says the same of the
  community modules' `FlattenSeq`, of which every selection is made.

  `TableOnlyFromOthers` (`[]FoundWasMixed`) is the part of `HeadersAsWritten`
  that can be stated without the directives: what a header hook finds in the
  table are names that hooks of other sessions have put there since the
  `on_uri_map` of its request (`mixed`). With none in between it finds the table
  empty, whatever was aborted, recycled or served before. With some, it does
  not: that is what `response_mixed` shows.

  `StreamWithHeaders` (`ResponseSpec => Spec`): the header hook between them
  does not disturb the body hooks. From it and `EsiProofs`, `ResponseStreams`
  and `ResponsePages` state of the composed system what the run `response`
  checks: `NoCrossTalk`, `DeliveredOnce`, `NothingAfterEnd` and, for
  `WellFormed` pages, `WholePage`.
- **ParserProofs.** For any lines and depths: `ParserTypes`, the arrays of
  `htaccess_parse` are never left, and `StaysContained` (`Contained`), with the
  invariant that the stacks are sequences within their bounds and an IfModule
  has saved a depth that the stack of Ifs can have. One lemma for each handler
  of the loop says which of the places it may write to.
- **WorkerProofs**, about what a worker does with the files of a request, and
  the two modules in which workers share files.
  `NearestLevelWins` is about `Merge`, for any directives and any number of
  levels: of those that override one another exactly one is left (`Alone`), and
  what is left is what no later directive of its file or of a lower level
  overrides (`Stands`), nothing else. The first file that is not empty is copied
  without a look at its directives; the theorem supposes that it does not
  override itself, and nothing of the others. The argument: overriding is
  symmetric and transitive (the types that go by name and those that go by value
  are not the same), so in a list without doubles a directive has one match at
  most, and `MergeOne` leaves no other. `MergedAsWritten` says the same of eleven
  lists on each of three levels, and with it what the filter and
  `flatten_ifmodule` do.

  `OthersKeepTheirOrder`, also about any levels, and without that hypothesis: the
  directives that override nothing (`Accumulates`; rewrite rules and Require
  lines are judged in their order) are all there after the merge, each as often
  as it was written and in the order of the levels. An insertion is either at
  the end or in the place of a directive that overrides, so that it cannot
  change the sequence of the others but at its end (`AccMergeOne`).

  `StaysFresh` (`[]Fresh`) for any workers, files, sizes and edits between any
  two system calls. `Fresh` says nothing of a file that is open, nor of the
  cache; the invariant `DirInv` does: what is open was seen with two sizes
  (`FileOpen`), and a cached list is what the file gives, as long as its key fits
  and was not taken in the second of a change (`EntryGood`). The proof is about
  `DirCache` alone; `Site` takes its actions unchanged, each conjoined with what
  else the step does.

  `WorkersAgree` (`[]SecretsAgree`) for any workers and clients, crashes and
  orders of the system calls. The invariant `GateInv` says that at most one
  worker writes, and that while it does the file is short, so that a key that
  somebody uses is never overwritten.
- Type correctness of each of the nine modules.

Only model-checked:

- the liveness properties `EntryLapses`, `AddressIsLetGo` and `NoLoops`, which
  need fairness;
- `ServedAsWritten`, `MergedAsWritten`, `RewrittenAsWritten`, `HeadersAsWritten`,
  `TreeAsWritten` and `PrintsBack`. Each compares what two recursions over trees
  and lists compute, a loop of the code and a reference; to prove that they agree
  for every input is an induction over the input with the equality of both as
  its predicate, and their modules have RECURSIVE operators, with which the
  prover loses its arithmetic.

## Where code and documents disagree

With a run:

- `response_mixed`: the comment at `htaccess_exec_header.c:19` says that the
  shadow table tracks the headers "set during this request". It is emptied in
  `on_uri_map` only (`mod_htaccess.c:1519`). A worker that maps requests A and B
  before it sends their headers (a backend is at work on them) appends in B's
  response to the value that A's directives have left: B's client receives it.
- `firewalld_iptables`: a repeated block inserts a second iptables rule, the
  sweep deletes one; the address stays blocked. `backend.rs:103` says that the
  sweep removes the rule. (Two workers can cause the repeat, see below.)
- `esi_stream_order`: `mod_htaccess.c:455` says that from the first placeholder
  on, output is retained and never streamed out of order. A chunk without
  output (inside `<esi:remove>`, say) also clears `dyn_holding`
  (`mod_htaccess.c:487`): the text after it overtakes what is held, which
  comes last if a second include follows and never if none does.
- `rewrite_forbidden`: `rewrite.md:59` says that `[F]` is 403 Forbidden. The
  engine returns 403 (or 410) and does nothing else; `on_uri_map`
  (`mod_htaccess.c:1941-1955`) tells the codes apart for its log only, sets no
  status and returns `LSI_OK`. The server goes on, with the brute-force check,
  `-Indexes` and the If blocks skipped.

Read, and modelled as the code has it, without a run of their own:

- The comment above the escalation test (`htaccess_exec_brute_force.c:290`) and
  `docs/specs/firewall-daemon.md:30` promise one command per attacker and
  window. Two workers that read the same count both send it;
  `EscalateOncePerWindow` is checked for one worker (`bf_single`). The daemon
  takes the second as a repeated block.
- `docs/specs/firewall-daemon.md:26` says the table is saved on every mutation
  and every 30 s; the sweep saves every 10 s if something changed.
- The same document says that `q` closes the connection; the daemon answers
  `ok q` and reads on.
- A GET from a client over the threshold raises the count, though the comment
  at `htaccess_exec_brute_force.c:253` says that GETs do not.
- The comment at `htaccess_exec_brute_force.c:268` has the cleanup protect the
  pool; in native mode the cleanup does nothing (`htaccess_shm.c:400`).
- `CHANGELOG.md:91` calls Retry-After the seconds to the window's reset. The
  header is the window less the time elapsed (`ratelimit.c:116`), but the test
  of the window is strict (line 88): a client that waits exactly so long is
  still in its window and is refused again, now with a Retry-After of 1. The
  header is not modelled, and no property speaks of it.
- `tests/test_esi_stream_hook.cpp:5` says that returning `len1` alone drops the
  body; `mod_htaccess.c:351` and `:448` do that with a chunk that comes while
  parked output is still blocked. `on_rcvd_resp_body_esi_hook` goes on writing
  although its flush did not finish.
- `docs/specs/esi-include.md:61` says that any tag not terminated in its chunk
  is held; inside `<esi:remove>` and `<esi:vars>` a cut closing tag is not, and
  the region then lasts to the end of the page.
- `esi_req_subrequest` is set for the worker and never cleared
  (`mod_htaccess.c:241`), so its later pages lose their dynamic includes.
- `mod_htaccess.c:161` says that the chunks of one request "run in this thread
  sequentially"; other requests run between them, and each takes the slot.
- The built-in cleanup drops a record 600 s after its first attempt even if the
  directive asks for a longer window.
- `docs/src/content/docs/directives/rate-limit.md:28` says that `RateLimit
  100/60` denies the 101st request; the burst defaults to N
  (`ratelimit.c:37`), and the 201st is denied.

Headers (the exceptions of `HeadersAsWritten`):

- An Else in a Files block, or in an If inside an If, is executed although its
  If was (`eval_if_chain` is called for it again). In a FilesMatch two Ifs that
  touch are one chain, and the second is skipped if the first holds.
- `edit` reads the server's first line and never the table: it does not see
  what was set in the hook before it, and leaves the table with the old value
  for what comes after it. `append` and `merge` keep the first line only.
- `add` does not look at what the server had; an `append` after it does not
  either, and replaces both. After `unset`, on a server that does not show it,
  `append` brings the old value back.
- `headers.md` says that without `always` headers are only applied to
  successful responses; the condition is parsed and not looked at.
- `mod_htaccess.c:1451` says that Expires inside `<If>` is executed by the loop
  at the top; the loop does not go into blocks, and it is not executed.
- ExpiresByType replaces what `Header set Cache-Control` has set before it.

Rewriting (the exceptions of `RewrittenAsWritten`):

- `rewrite.md:80` says that an OR-group is satisfied when any member matches.
  In `eval_cond_chain` a condition with `[OR]` never lets a rule apply: the
  chain holds exactly when every condition without `[OR]` does.
- `<` and `>` are lexicographic in `rewrite.md`. With an operand longer than
  the test the test counts as greater; with a shorter one a byte behind the end
  of the operand decides (`htaccess_rewrite_native.c:172`).
- A condition whose pattern cannot be used ends the whole list of rules; a test
  path that is empty or has `..` fails a negated file test too.
- A relative target with `[R]` gets `http://` and the host before it, without a
  `/` or RewriteBase. The query an earlier rule has set is lost: a later one
  appends the original query. Flags of 128 bytes or more are dropped.
- `htaccess_exec_rewrite.c` keeps rules for a patched server under a
  fingerprint, by its comment a count and a hash of the first pattern pointer;
  it is a hash of the concatenated texts, without separators.

Access (the exceptions of `ServedAsWritten`):

- The comment of `exec_require` says that a `RequireAll` of a user and another
  condition over-denies before authentication. With valid credentials it
  grants: the other condition is then not looked at.
- `Require valid-user` without `AuthType Basic` in the same list, or in a block
  inside a block, is never asked. `Satisfy Any` without a Require line turns
  the access list off.
- A Files block inside another container is never looked at. Of two `<If>`
  blocks that touch, the access pass (`mod_htaccess.c:2140`) looks at the first
  that holds, as if they were one chain.

Conditions, as the code has them: a bare `false` or `0` is true, and the flag
of `/re/i` is dropped. Access lists: `Deny from a b` keeps the first word, and
a partial address there matches nobody, though it does in `Require ip`; an
IPv4-mapped client is matched as IPv4 in Allow and Deny, not in Require.

Parser (the exceptions of `Contained` and `TreeAsWritten`):

- The comment at `htaccess_parser.c:2712`,
  `docs/.../security-access-control.md:217` and
  `tests/.../test_container_semantics.cpp:343` say that what is read goes to the
  innermost container. It goes to the first open one of a fixed order of kinds.
- An IfModule or If that is too deep is skipped, but its closing tag closes the
  one around it. A closing tag of the wrong branch discards the block. What is
  not closed at the end is dropped. `<IfModule !m>` is applied like
  `<IfModule m>`.
- In `Header set X "a env=b"` the `env=` inside the quotes is taken for a
  condition if no mark follows it, against the comment at line 175.

Printer (the exceptions of `PrintsBack`): `htaccess_printer.c:4` says that the
output is designed to round-trip. Empty values, values with blanks where they
are printed bare, doubled quotes, and conditions that did not parse do not.

Cache (the exceptions of `Fresh`): a file that is written in place while it is
read may count as no directives for that request; a change to the same size, in
the same second and inode as the one before, is not noticed until the next.
A change of the file's mode alone is not noticed either.

Merge (the exception of `MergedAsWritten`): directives that stand twice in one
file or inside an IfModule; a child replaces the first only.

Bot challenge: a worker that dies between creating the secret's file and
writing it leaves the file short for good, and every worker then signs with the
empty key; `SecretsAgree` allows that key, for workers agree on it.

## Not modelled

- The daemon's `s` and `q`, argument parsing, socket permissions, and the
  answers on the socket, which change only a log line of the worker.
- The text of headers, log lines and addresses.
- In `EsiStream`: a network that reports an error, memory that runs out, the
  files behind static includes (they are text), the fetch of fragments (one
  arrives or does not), the limits of 16 includes and 1 MB for the joined page,
  and the bytes of tags.
- In `Headers` and `Response`: back-references and the arithmetic of dates,
  RequestHeader (one call into the server), the second walk of a header hook
  that does not find its directives in the cache (it finds the same, but for an
  edit in between, which `DirCache` has), names longer than 127 bytes.
- In `RateLimit`: the status and the headers of a refusal.
- In `Site`: what a directive does to PHP or the server's options once access
  is granted; directives are tried one by one as their effects do not meet
  again in the hook. The errors of `exec_redirect` and `exec_redirect_match` (a
  target that grows too long or has a line break, a pattern over the limit:
  `redirect.c:160-165`, `:199`, `:237-246`), after which the request goes on as
  if the directive did not apply.
- The early pass (`on_uri_map_early`, `mod_htaccess.c:1484`), a walk of its own
  before the one of `Site` that only feeds the mod_security bridge.
- `htaccess_cidr_table.c`: `docs/specs/cidr-fastmatch.md:26` plans it for
  `Require ip`, but only its unit test calls it.
- In `DirCache`: a change of owner or mode between requests (whether a file is
  trusted is decided when it is opened, and a hit of the cache does not look),
  the memory limit of the cache and the size limit that adapts
  to it, an insertion that fails in the server's hash, allocation failures.
- In `Parser` and `Expr`: blanks, comments, letter case, the tokenizer of
  conditions, the fixed lengths of buffers. Patterns are uninterpreted.
- In `Rewrite`: the engine of a patched server.
- The converter (an offline tool), the shims of the server's API but for the
  headers, and the hash functions of the bot challenge.

## Plan

1. **EsiStream**, continued: an abstract filter (the client receives its page,
   in order, once) that it implements when responses do not overlap, and the
   limits that are left out (dynamic includes, the joined page).
2. **Converter**: grouping of virtual hosts, and the files it replaces.
3. Proofs: `Override` without RECURSIVE operators, so that what is proved of
   `Merge` can be carried to `MergedAsWritten`.
