------------------------------ MODULE EsiStream ------------------------------
(***************************************************************************)
(* The ESI filter on response bodies: the body hooks of                    *)
(* src/mod_htaccess.c with the processor of src/htaccess_esi.c and the     *)
(* joining of dynamic includes.                                            *)
(*                                                                         *)
(* One worker is modelled.  It is single-threaded, so a hook is one step,  *)
(* but between two hooks of one response the event loop runs the hooks of  *)
(* others, and all of them share three thread-local variables: the         *)
(* directives of the last request (cache), the filter's slot (slot), and   *)
(* the flag that a fragment was seen (fragment).                           *)
(*                                                                         *)
(* A page is a sequence of atoms.  A tag is two atoms or more ("attr" is   *)
(* its middle), so that a chunk may end inside it; "dyn" is a dynamic include whose fragment      *)
(* arrives, "gone" one whose fragment does not (or not in time).  Static   *)
(* includes are text here: they are replaced as soon as they are seen.     *)
(***************************************************************************)
EXTENDS Naturals, Sequences, SequencesExt

CONSTANTS
  Sessions,     \* lsi_session_t objects, which the server recycles.
  NoSession,    \* NULL
  Pages,        \* The response bodies each request may get.
  HoldMax,      \* ESI_HOLD_MAX, in atoms.
  BufferMax,    \* ESI_MAX_BUFFER, in atoms.
  MaxRequests,  \* Bound on the number of requests.
  Rooms         \* How much the network may take in during one hook.

Heads == {"remove<", "vars<", "dyn<", "gone<"}
Tails == {"remove>", "vars>", "dyn>", "gone>", "endremove>", "endvars>"}
Kinds == {"text", "attr", "endremove<", "endvars<"} \cup Heads \cup Tails

ASSUME EsiAssumption ==
  /\ NoSession \notin Sessions
  /\ \A q \in 1 .. MaxRequests : \A page \in Pages[q] : page \in Seq(Kinds)
  /\ HoldMax \in Nat
  /\ BufferMax \in Nat
  /\ MaxRequests \in Nat
  /\ Rooms \subseteq Nat

VARIABLES
  reqs,      \* The requests so far; their number is req_seq_counter.
  resp,      \* What each session is sending.
  cache,     \* req_cache: the session and the request whose directives it holds.
  slot,      \* esi_req
  fragment,  \* esi_req_subrequest
  out,       \* What each request's client has received.
  ends,      \* How often each request's stream was ended.
  events     \* History: what happened to each request's response.

vars == <<reqs, resp, cache, slot, fragment, out, ends, events>>

Requests == 1 .. MaxRequests

seq == Len(reqs)

(***************************************************************************)
(* The atoms of request q from one position to another.  "at" is what the  *)
(* atom is; a placeholder and the fragment that replaces it stand at the   *)
(* position of their tag.                                                  *)
(***************************************************************************)
Atoms(q, from, to) ==
  [i \in 1 .. to - from + 1 |->
     [req |-> q, pos |-> from + i - 1, kind |-> reqs[q].page[from + i - 1]]]

\* Mutant of Drop: all of the output is parked, not what is left of it.
ParkAll(n, s) == s

Take(n, s) == SubSeq(s, 1, IF n < Len(s) THEN n ELSE Len(s))
Drop(n, s) == SubSeq(s, n + 1, Len(s))
Left(n, s) == IF n < Len(s) THEN 0 ELSE n - Len(s)

(***************************************************************************)
(* esi_ctx_t.  mode is the state machine's state, hold the partial tag     *)
(* kept from the last chunk, parked the output that the network did not    *)
(* take (ctx->buf up to pend_len), held the output kept for the join.      *)
(***************************************************************************)
NewCtx(sub) ==
  [mode |-> "pass", hold |-> <<>>, parked |-> <<>>, holding |-> FALSE,
   held |-> <<>>, subrequest |-> sub]

NoCtx == [mode |-> "off"]

NoSlot == [session |-> NoSession, req |-> 0, ctx |-> NoCtx]

----------------------------------------------------------------------------
(***************************************************************************)
(* esi_process: one chunk, after the partial tag kept from the last one.   *)
(* s is the context with the output so far and the last atom looked at: a  *)
(* closing tag is found only if both its halves lie in the data.           *)
(***************************************************************************)
Emit(s, a)  == [s EXCEPT !.out = Append(@, a)]
Enter(s, m) == [s EXCEPT !.mode = m, !.hold = <<>>]

Placeholder(a) == [a EXCEPT !.kind = IF @ = "dyn<" THEN "dyn" ELSE "gone"]

Include(s) ==
  IF s.subrequest
    THEN Enter(s, "pass")
    ELSE [Emit(Enter(s, "pass"), Placeholder(Head(s.hold))) EXCEPT !.holding = TRUE]

CloseTag(s) ==
  CASE Head(s.hold).kind = "remove<"           -> Enter(s, "strip")
    [] Head(s.hold).kind = "vars<"             -> Enter(s, "vars")
    [] Head(s.hold).kind \in {"dyn<", "gone<"} -> Include(s)

Passing(s, a) ==
  CASE s.hold = <<>> /\ a.kind \notin Heads -> Emit(s, a)
    [] s.hold = <<>> /\ a.kind \in Heads    -> [s EXCEPT !.hold = <<a>>]
    [] s.hold # <<>> /\ a.kind \notin Tails -> [s EXCEPT !.hold = Append(@, a)]
    [] s.hold # <<>> /\ a.kind \in Tails    -> CloseTag(s)

Stripping(s, a) ==
  IF s.last = "endremove<" /\ a.kind = "endremove>" THEN Enter(s, "pass") ELSE s

\* Output up to a closing tag was appended without the tag.
Substituting(s, a) ==
  IF s.last = "endvars<" /\ a.kind = "endvars>"
    THEN [Enter(s, "pass") EXCEPT !.out = Front(@)]
    ELSE Emit(s, a)

Absorb(s, a) ==
  LET next == CASE s.mode = "pass"  -> Passing(s, a)
                [] s.mode = "strip" -> Stripping(s, a)
                [] s.mode = "vars"  -> Substituting(s, a)
  IN  [next EXCEPT !.last = a.kind]

\* Mutant of FailOpen: a partial tag of any length is held.
HoldAny(s) == s

(***************************************************************************)
(* A partial tag beyond the limit is let through as it is.                 *)
(***************************************************************************)
FailOpen(s) ==
  IF Len(s.hold) > HoldMax
    THEN [s EXCEPT !.out = @ \o s.hold, !.hold = <<>>, !.last = "long"]
    ELSE s

Scan(ctx, data) ==
  LET state[i \in 0 .. Len(data)] ==
        IF i = 0
          THEN [mode |-> ctx.mode, hold |-> <<>>, parked |-> ctx.parked,
                holding |-> ctx.holding, held |-> ctx.held,
                subrequest |-> ctx.subrequest, out |-> <<>>, last |-> "text"]
          ELSE Absorb(state[i - 1], data[i])
  IN  FailOpen(state[Len(data)])

\* Mutant of Process: the partial tag of the last chunk is forgotten.
ProcessAlone(ctx, chunk) == Scan(ctx, chunk)

Process(ctx, chunk) == Scan(ctx, ctx.hold \o chunk)

\* The context without the scratch variables of Process.
Ctx(s) ==
  [mode |-> s.mode, hold |-> s.hold, parked |-> s.parked,
   holding |-> s.holding, held |-> s.held, subrequest |-> s.subrequest]

(***************************************************************************)
(* esi_dyn_join: fragments over their placeholders, the others removed.    *)
(***************************************************************************)
Fragment(a) == IF a.kind = "dyn" THEN [a EXCEPT !.kind = "fragment"] ELSE a

Resolved(a) == a.kind # "gone"

Spliced(bytes, a) == IF Resolved(a) THEN Append(bytes, Fragment(a)) ELSE bytes

Join(held) ==
  LET joined[i \in 0 .. Len(held)] ==
        IF i = 0 THEN <<>> ELSE Spliced(joined[i - 1], held[i])
  IN  joined[Len(held)]

----------------------------------------------------------------------------
Idle == [req |-> 0, fed |-> 0, eof |-> FALSE, buffered |-> FALSE]

Live(s) == resp[s].req # 0

Init ==
  /\ reqs = <<>>
  /\ resp = [s \in Sessions |-> Idle]
  /\ cache = [session |-> NoSession, req |-> 0]
  /\ slot = NoSlot
  /\ fragment = FALSE
  /\ out = [q \in Requests |-> <<>>]
  /\ ends = [q \in Requests |-> 0]
  /\ events = [q \in Requests |-> {}]

(***************************************************************************)
(* on_uri_map: a new request, on a free session or on one whose response   *)
(* was aborted without a further hook.  "on" says that EsiEnable is on and *)
(* the response will be plain HTML, "marker" that it is a fragment of      *)
(* another page (which is looked at only if the filter is on).             *)
(***************************************************************************)
UriMap(s, page, on, marker) ==
  /\ reqs' = Append(reqs, [page |-> page, on |-> on, marker |-> marker])
  /\ resp' = [resp EXCEPT ![s] = [Idle EXCEPT !.req = seq + 1]]
  /\ cache' = [session |-> s, req |-> seq + 1]
  /\ LET others == {resp[t].req : t \in {t \in Sessions \ {s} : Live(t)}} IN
       events' = IF others = {}
                   THEN events
                   ELSE [q \in Requests |->
                           IF q \in others \cup {seq + 1}
                             THEN events[q] \cup {"shared"} ELSE events[q]]
  /\ UNCHANGED <<slot, fragment, out, ends>>

(***************************************************************************)
(* on_send_resp_header drops the directives it found in the cache.         *)
(***************************************************************************)
CacheIsFor(s) == cache.session = s /\ cache.req = seq

\* Mutant of SlotIsFor: the session alone identifies the response.
SlotOfSession(s) == slot.session = s

SlotIsFor(s) == slot.session = s /\ slot.req = seq

Happened(q, what) == events' = [events EXCEPT ![q] = @ \cup what]

SendRespHeader(s) ==
  /\ Live(s)
  /\ CacheIsFor(s)
  /\ cache' = [session |-> NoSession, req |-> 0]
  /\ Happened(resp[s].req, IF SlotIsFor(s) \/ resp[s].fed > 0 THEN {} ELSE {"header"})
  /\ UNCHANGED <<reqs, resp, slot, fragment, out, ends>>

----------------------------------------------------------------------------
(***************************************************************************)
(* What every call of on_recv_resp_body_esi_hook does first: the slot of   *)
(* another request is reset, and the gate opens for a response whose       *)
(* directives are still in the cache.                                      *)
(***************************************************************************)
\* Mutant of Gate: EsiEnable is not looked at.
GateOpen(s) == CacheIsFor(s)

Gate(s) == CacheIsFor(s) /\ reqs[seq].on

FragmentSeen(s) ==
  fragment \/ (~ SlotIsFor(s) /\ Gate(s) /\ reqs[resp[s].req].marker)

Context(s) ==
  CASE SlotIsFor(s)               -> slot.ctx
    [] ~ SlotIsFor(s) /\ Gate(s)  -> NewCtx(FragmentSeen(s))
    [] ~ SlotIsFor(s) /\ ~Gate(s) -> NoCtx

Filters(s) == Context(s) # NoCtx

(***************************************************************************)
(* The server hands over the next n atoms.  An empty chunk comes at the    *)
(* end of the body, or because the filter asked for a call by              *)
(* LSI_CBFO_BUFFERED.                                                      *)
(***************************************************************************)
PageLength(s) == Len(reqs[resp[s].req].page)

Receives(s, n, eof) ==
  /\ Live(s)
  /\ resp[s].fed + n <= PageLength(s)
  /\ eof => resp[s].fed + n = PageLength(s)
  /\ resp[s].eof => eof /\ resp[s].buffered
  /\ n > 0 \/ eof \/ resp[s].buffered
  /\ fragment' = FragmentSeen(s)
  /\ UNCHANGED <<reqs, cache>>

Chunk(s, n) == Atoms(resp[s].req, resp[s].fed + 1, resp[s].fed + n)

Consumed(s, n, eof, buffered) ==
  resp' = [resp EXCEPT ![s].fed = @ + n, ![s].eof = eof, ![s].buffered = buffered]

Deliver(s, bytes) == out' = [out EXCEPT ![resp[s].req] = @ \o bytes]
End(s)            == ends' = [ends EXCEPT ![resp[s].req] = @ + 1]
Keep(s, ctx)      == slot' = [session |-> s, req |-> seq, ctx |-> ctx]

\* Mutant of Reset: the reset is forgotten.
Retain == slot' = slot

Reset == slot' = NoSlot

(***************************************************************************)
(* Bypass: the chunk is written as it is; what the network did not take    *)
(* was not consumed and comes again.                                       *)
(***************************************************************************)
Forward(s, n, eof, room) ==
  /\ Receives(s, n, eof)
  /\ ~ Filters(s)
  /\ LET sent == Take(room, Chunk(s, n)) IN
       /\ Deliver(s, sent)
       /\ Consumed(s, Len(sent), eof /\ Len(sent) = n, FALSE)
  /\ Keep(s, NoCtx)
  /\ UNCHANGED <<ends, events>>

(***************************************************************************)
(* esi_flush_parked fails: the network does not take all that is parked.   *)
(* The hook returns and reports the chunk as consumed.                     *)
(***************************************************************************)
StillBlocked(s, n, eof, room) ==
  /\ Receives(s, n, eof)
  /\ Filters(s)
  /\ LET ctx == Context(s) IN
       /\ Len(ctx.parked) > room
       /\ Deliver(s, Take(room, ctx.parked))
       /\ Keep(s, [ctx EXCEPT !.parked = Drop(room, @)])
  /\ Consumed(s, n, eof, TRUE)
  /\ Happened(resp[s].req, IF n = 0 THEN {} ELSE {"blocked"})
  /\ UNCHANGED ends

(***************************************************************************)
(* The other cases: what is parked goes out, and the chunk is processed.   *)
(***************************************************************************)
Filtering(s, n, eof, room) ==
  /\ Receives(s, n, eof)
  /\ Filters(s)
  /\ Len(Context(s).parked) <= room

Processed(s, n) == Process([Context(s) EXCEPT !.parked = <<>>], Chunk(s, n))

Fits(held, bytes) == Len(held) + Len(bytes) <= BufferMax

\* What goes wrong inside a call: a partial tag beyond the limit, the flag
\* stuck, a closing tag cut in two.
Mishaps(s, p) ==
  (IF p.last = "long" THEN {"long"} ELSE {})
    \cup
  (IF p.subrequest /\ ~ reqs[resp[s].req].marker THEN {"stuck"} ELSE {})
    \cup
  (IF <<p.mode, p.last>> \in {<<"strip", "endremove<">>, <<"vars", "endvars<">>}
     THEN {"split"} ELSE {})

(***************************************************************************)
(* A chunk in the middle, after a dynamic include: its output is kept.     *)
(***************************************************************************)
Hold(s, n, room) ==
  /\ Filtering(s, n, FALSE, room)
  /\ LET p == Processed(s, n) IN
       /\ p.holding /\ p.out # <<>> /\ Fits(p.held, p.out)
       /\ Keep(s, [Ctx(p) EXCEPT !.held = @ \o p.out])
       /\ Happened(resp[s].req, Mishaps(s, p))
  /\ Deliver(s, Context(s).parked)
  /\ Consumed(s, n, FALSE, FALSE)
  /\ UNCHANGED ends

(***************************************************************************)
(* Any other chunk in the middle: its output is written, and the rest of   *)
(* it is parked.  A filter that was holding stops holding.                 *)
(***************************************************************************)
Stream(s, n, room) ==
  /\ Filtering(s, n, FALSE, room)
  /\ LET parked == Context(s).parked
         p      == Processed(s, n)
         rest   == Drop(Left(room, parked), p.out)
     IN  /\ ~ (p.holding /\ p.out # <<>> /\ Fits(p.held, p.out))
         /\ Deliver(s, Take(room, parked \o p.out))
         /\ Keep(s, [Ctx(p) EXCEPT !.holding = FALSE, !.parked = rest])
         /\ Consumed(s, n, FALSE, rest # <<>>)
         /\ Happened(resp[s].req,
                     Mishaps(s, p) \cup (IF p.holding THEN {"gave up"} ELSE {}))
  /\ UNCHANGED ends

(***************************************************************************)
(* The last chunk with output held: the tail is added, the fragments are   *)
(* fetched and joined, and all of it is written once.                      *)
(***************************************************************************)
EndHeld(s, n, room) ==
  /\ Filtering(s, n, TRUE, room)
  /\ LET parked == Context(s).parked
         p      == Processed(s, n)
         last   == IF Fits(p.held, p.out) THEN p.held \o p.out ELSE p.held
         all    == IF last # <<>> /\ Fits(last, p.hold) THEN last \o p.hold ELSE last
         bytes  == parked \o Join(all)
     IN  /\ p.holding
         /\ Deliver(s, Take(room, bytes))
         /\ Happened(resp[s].req,
                     Mishaps(s, p)
                       \cup (IF Len(all) < Len(p.held \o p.out \o p.hold)
                               THEN {"gave up"} ELSE {})
                       \cup (IF Len(bytes) > room THEN {"blocked"} ELSE {}))
  /\ Consumed(s, n, TRUE, FALSE)
  /\ End(s)
  /\ Reset

(***************************************************************************)
(* The last chunk otherwise: its output, then the partial tag that is      *)
(* left.  What the network does not take is parked again.                  *)
(***************************************************************************)
EndStream(s, n, room) ==
  /\ Filtering(s, n, TRUE, room)
  /\ LET parked == Context(s).parked
         p      == Processed(s, n)
         rest   == Drop(Left(room, parked), p.out)
         tail   == Drop(Left(room, parked), p.out \o p.hold)
     IN  /\ ~ p.holding
         /\ Happened(resp[s].req, Mishaps(s, p))
         /\ CASE rest # <<>> ->
                   /\ Deliver(s, Take(room, parked \o p.out))
                   /\ Keep(s, [Ctx(p) EXCEPT !.parked = rest])
                   /\ Consumed(s, n, TRUE, TRUE)
                   /\ UNCHANGED ends
              [] rest = <<>> /\ tail # <<>> ->
                   /\ Deliver(s, Take(room, parked \o p.out \o p.hold))
                   /\ Keep(s, [Ctx(p) EXCEPT !.parked = tail, !.hold = <<>>])
                   /\ Consumed(s, n, TRUE, TRUE)
                   /\ UNCHANGED ends
              [] tail = <<>> ->
                   /\ Deliver(s, parked \o p.out \o p.hold)
                   /\ Reset
                   /\ Consumed(s, n, TRUE, FALSE)
                   /\ End(s)

(***************************************************************************)
(* on_rcvd_resp_body_esi_hook, the safety net: the body is over or was     *)
(* aborted.  Whatever slot there is, it is reset.                          *)
(***************************************************************************)
TagFits(ctx) == ctx.held # <<>> /\ Fits(ctx.held, ctx.hold)

Leftover(ctx) ==
  IF ~ ctx.holding
    THEN ctx.parked \o ctx.hold
    ELSE ctx.parked \o Join(IF TagFits(ctx) THEN ctx.held \o ctx.hold ELSE ctx.held)

\* What goes wrong at the end: the partial tag does not fit, or not all of the
\* rest into one write.
EndMishaps(ctx, room) ==
  (IF ctx.holding /\ ctx.hold # <<>> /\ ~ TagFits(ctx) THEN {"gave up"} ELSE {})
    \cup
  (IF Len(Leftover(ctx)) > room THEN {"blocked"} ELSE {})

Rcvd(s, room) ==
  /\ Live(s)
  /\ LET finished == IF resp[s].eof THEN {"finished"} ELSE {} IN
       IF SlotIsFor(s) /\ slot.ctx # NoCtx
         THEN /\ Deliver(s, Take(room, Leftover(slot.ctx)))
              /\ End(s)
              /\ Happened(resp[s].req, finished \cup EndMishaps(slot.ctx, room))
         ELSE /\ UNCHANGED <<out, ends>>
              /\ Happened(resp[s].req, finished)
  /\ Reset
  /\ resp' = [resp EXCEPT ![s] = Idle]
  /\ UNCHANGED <<reqs, cache, fragment>>

----------------------------------------------------------------------------
Recv(s, n, room) ==
  \/ \E eof \in BOOLEAN : Forward(s, n, eof, room)
  \/ \E eof \in BOOLEAN : StillBlocked(s, n, eof, room)
  \/ Hold(s, n, room)
  \/ Stream(s, n, room)
  \/ EndHeld(s, n, room)
  \/ EndStream(s, n, room)

Next ==
  \/ \E s \in Sessions, on, marker \in BOOLEAN :
       /\ seq < MaxRequests
       /\ marker => on
       /\ \E page \in Pages[seq + 1] : UriMap(s, page, on, marker)
  \/ \E s \in Sessions : SendRespHeader(s)
  \/ \E s \in Sessions, room \in Rooms :
       \/ Live(s) /\ \E n \in 0 .. PageLength(s) : Recv(s, n, room)
       \/ Rcvd(s, room)

Spec == Init /\ [][Next]_vars

----------------------------------------------------------------------------
(***************************************************************************)
(* Type invariant.                                                         *)
(***************************************************************************)
Items == [req : Requests, pos : Nat, kind : Kinds \cup {"dyn", "gone", "fragment"}]

Contexts ==
  [mode : {"pass", "strip", "vars"}, hold : Seq(Items), parked : Seq(Items),
   holding : BOOLEAN, held : Seq(Items), subrequest : BOOLEAN]

Events == {"shared", "header", "blocked", "stuck", "split", "long", "gave up",
           "finished"}

TypeOK ==
  /\ seq <= MaxRequests
  /\ \A q \in 1 .. seq : reqs[q] \in [page : Pages[q], on : BOOLEAN, marker : BOOLEAN]
  /\ resp \in [Sessions -> [req : 0 .. seq, fed : Nat, eof : BOOLEAN, buffered : BOOLEAN]]
  /\ cache \in [session : Sessions \cup {NoSession}, req : 0 .. seq]
  /\ slot \in [session : Sessions \cup {NoSession}, req : 0 .. seq,
               ctx : Contexts \cup {NoCtx}]
  /\ slot.ctx # NoCtx => Len(slot.ctx.hold) <= HoldMax /\ Len(slot.ctx.held) <= BufferMax
  /\ fragment \in BOOLEAN
  /\ out \in [Requests -> Seq(Items)]
  /\ ends \in [Requests -> Nat]
  /\ events \in [Requests -> SUBSET Events]

(***************************************************************************)
(* No client receives a byte of another response, however sessions are     *)
(* interleaved, aborted and recycled.                                      *)
(***************************************************************************)
NoCrossTalk == \A q \in Requests : \A i \in DOMAIN out[q] : out[q][i].req = q

Positions(s) == [i \in DOMAIN s |-> s[i].pos]

InOrder(q) ==
  \A i, j \in DOMAIN out[q] : i < j => out[q][i].pos < out[q][j].pos

(***************************************************************************)
(* Nothing is delivered twice ("returning 0 would make OLS re-deliver it   *)
(* and double the output"), and, unless the filter gave up holding, all in *)
(* the order of the page.  A response that did not ask for the filter is   *)
(* forwarded as it is.                                                     *)
(***************************************************************************)
DeliveredOnce ==
  \A q \in Requests :
    /\ \A i, j \in DOMAIN out[q] : out[q][i].pos = out[q][j].pos => i = j
    /\ InOrder(q) \/ "gave up" \in events[q]
    /\ q <= seq /\ ~ reqs[q].on => Positions(out[q]) = [i \in DOMAIN out[q] |-> i]

(***************************************************************************)
(* The order is kept always: "output is retained ... and joined at EOF -   *)
(* never streamed out of order".                                           *)
(***************************************************************************)
NeverOutOfOrder == \A q \in Requests : InOrder(q)

(***************************************************************************)
(* However the page is cut into chunks, and however slow the network is, a *)
(* client gets the whole page: what is not in a removed region and no tag, *)
(* with the fragments in place, and a tag that the page leaves unfinished. *)
(* The exceptions are those of the history: the worker sent another        *)
(* response at the same time; a chunk came while output was still blocked; *)
(* a closing tag was cut in two; a partial tag was too long; the filter    *)
(* gave up holding; a fragment was served before.                          *)
(***************************************************************************)
Removed(page, i) ==
  \E j \in 1 .. i - 1 :
    page[j] = "remove>" /\ \A k \in j .. i - 1 : page[k] # "endremove<"

NeverClosed(page, i) ==
  \E j \in 1 .. i : page[j] \in Heads /\ \A k \in j + 1 .. Len(page) : page[k] = "attr"

Kept(q, i) ==
  LET page == reqs[q].page IN
  \/ ~ reqs[q].on \/ "header" \in events[q]
  \/ /\ ~ Removed(page, i)
     /\ \/ page[i] = "text"
        \/ page[i] = "dyn<" /\ ~ reqs[q].marker
        \/ NeverClosed(page, i)

WholePage ==
  \A q \in Requests :
    events[q] \ {"header"} = {"finished"} =>
      /\ InOrder(q)
      /\ Range(Positions(out[q])) = {i \in DOMAIN reqs[q].page : Kept(q, i)}
      /\ \A i \in DOMAIN out[q] : out[q][i].kind \notin {"dyn", "gone"}

(***************************************************************************)
(* The pages it is about: text, tags that are closed if they are not the   *)
(* last thing on the page, regions that do not lie in one another; only    *)
(* what is removed may contain anything.  at[i] is where the page is after *)
(* its atom i: in text ("pass"), in a region, in a tag, or at the closing  *)
(* tag of a region.                                                        *)
(***************************************************************************)
Places == {"pass", "strip", "vars", "endremove<", "endvars<"} \cup Heads

Grammar ==
  {<<"pass", "text", "pass">>, <<"vars", "text", "vars">>}
    \cup {<<"pass", h, h>> : h \in Heads}
    \cup {<<h, "attr", h>> : h \in Heads}
    \cup {<<"remove<", "remove>", "strip">>, <<"vars<", "vars>", "vars">>,
          <<"dyn<", "dyn>", "pass">>, <<"gone<", "gone>", "pass">>}
    \cup {<<"strip", k, "strip">> : k \in Kinds \ {"endremove<", "endremove>"}}
    \cup {<<"strip", "endremove<", "endremove<">>, <<"endremove<", "endremove>", "pass">>}
    \cup {<<"vars", "endvars<", "endvars<">>, <<"endvars<", "endvars>", "pass">>}

Reads(page, at) ==
  /\ at \in [0 .. Len(page) -> Places] /\ at[0] = "pass"
  /\ \A i \in 1 .. Len(page) : <<at[i - 1], page[i], at[i]>> \in Grammar

WellFormed == \A q \in Requests : \A page \in Pages[q] : \E at : Reads(page, at)

(***************************************************************************)
(* A filtered stream is ended once, and nothing follows its end.           *)
(***************************************************************************)
NothingAfterEnd ==
  [][\A q \in Requests : ends[q] > 0 => out'[q] = out[q] /\ ends'[q] = ends[q]]_vars
=============================================================================
