------------------------------ MODULE Response ------------------------------
(***************************************************************************)
(* A response as its client sees it: the header hook (module Headers) and  *)
(* the body hooks (module EsiStream) of one worker, whose event loop runs  *)
(* the hooks of several sessions one between another.                      *)
(*                                                                         *)
(* Beside the three variables of EsiStream the sessions share the shadow   *)
(* table of htaccess_exec_header.c, which on_uri_map empties.  The         *)
(* directives of the header hook come from the cache, or from a second     *)
(* walk if another request has come since: they are those of the request   *)
(* either way (module DirCache has what an edit between the two does).     *)
(***************************************************************************)
EXTENDS EsiStream, Headers, FiniteSets

VARIABLES
  shadow,  \* hdr_shadow
  head,    \* What each session's server has of its response's headers.
  mixed    \* History: names that other hooks put into the table meanwhile.

rvars == <<vars, shadow, head, mixed>>

NoHead == [phase |-> "none"]

ResponseInit ==
  /\ Init
  /\ shadow = <<>>
  /\ head = [s \in Sessions |-> NoHead]
  /\ mixed = [s \in Sessions |-> {}]

----------------------------------------------------------------------------
\* Mutant of Emptied: on_uri_map leaves the table as it is.
LeftAsIs(table) == table

\* exec_header_reset_shadow
Emptied(table) == <<>>

Map(s, page, on, marker, ask) ==
  /\ UriMap(s, page, on, marker)
  /\ shadow' = Emptied(shadow)
  /\ head' = [head EXCEPT ![s] =
                IF ask.dirs = <<>> THEN NoHead ELSE [phase |-> "mapped", ask |-> ask]]
  /\ mixed' = [mixed EXCEPT ![s] = {}]

(***************************************************************************)
(* on_send_resp_header: whole, and once for a response.  A request without *)
(* directives about headers has no part in head.                           *)
(***************************************************************************)
NamesIn(table) == {table[i].name : i \in DOMAIN table}

SendHead(s) ==
  /\ Live(s) /\ head[s].phase = "mapped"
  /\ LET t == Respond(head[s].ask, shadow) IN
       /\ shadow' = t.table
       /\ head' = [head EXCEPT ![s] =
                     [phase |-> "sent", ask |-> head[s].ask, lines |-> t.lines,
                      status |-> t.status, page |-> t.page, hint |-> t.hint]]
       /\ mixed' = [u \in Sessions |->
                      IF u = s THEN mixed[u] ELSE mixed[u] \cup NamesIn(t.table)]
  /\ IF CacheIsFor(s) THEN SendRespHeader(s) ELSE UNCHANGED vars

\* The hook of a request whose directives are not about headers.
SendBare(s) == head[s] = NoHead /\ SendRespHeader(s) /\ UNCHANGED <<shadow, head, mixed>>

Finish(s, room) ==
  /\ Rcvd(s, room)
  /\ head' = [head EXCEPT ![s] = NoHead]
  /\ mixed' = [mixed EXCEPT ![s] = {}]
  /\ UNCHANGED shadow

Body(s, n, room) == Recv(s, n, room) /\ UNCHANGED <<shadow, head, mixed>>

ResponseNext ==
  \/ \E s \in Sessions, on, marker \in BOOLEAN, ask \in Asks :
       /\ seq < MaxRequests
       /\ marker => on
       /\ \E page \in Pages[seq + 1] : Map(s, page, on, marker, ask)
  \/ \E s \in Sessions : SendHead(s) \/ SendBare(s)
  \/ \E s \in Sessions, room \in Rooms :
       \/ Live(s) /\ \E n \in 0 .. PageLength(s) : Body(s, n, room)
       \/ Finish(s, room)

ResponseSpec == ResponseInit /\ [][ResponseNext]_rvars

----------------------------------------------------------------------------
(***************************************************************************)
(* Type invariant: the types, and that the table has a name once, never    *)
(* more names than slots and no value that is longer than its buffer.      *)
(***************************************************************************)
TableOK(table) ==
  /\ table \in Seq([name : Fields, value : Lines])
  /\ Len(table) <= HDR_SHADOW_SLOTS
  /\ \A i, j \in DOMAIN table : table[i].name = table[j].name => i = j
  /\ \A i \in DOMAIN table : Len(table[i].value) <= HDR_MAX

ResponseHeads ==
  {NoHead}
    \cup [phase : {"mapped"}, ask : Asks]
    \cup [phase : {"sent"}, ask : Asks, lines : [Fields -> Seq(Lines)], status : Nat,
          page : {"server", "text"}, hint : {"none", "path"}]

ResponseTypeOK ==
  /\ TypeOK
  /\ TableOK(shadow)
  /\ head \in [Sessions -> ResponseHeads]
  /\ mixed \in [Sessions -> SUBSET Fields]
=============================================================================
