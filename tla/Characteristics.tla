---------------------------- MODULE Characteristics ----------------------------
(***************************************************************************)
(* The characteristic handlers of the server (part_001): GET and PUT      *)
(* /characteristics of every connection, over the characteristics' values *)
(* and their Events maps (remote address -> subscribed).                  *)
(*   - Both handlers refuse a request only when the accessory is unpaired *)
(*     (srv.isPaired()); they do not look the address's Session up.       *)
(*   - A PUT element ignores the status of the write hook; the response *)
(*     is 204 when no element produced an entry, 207 otherwise.           *)
(*   - c.Events is a plain Go map, written by every connection's PUT and  *)
(*     read by every GET without a lock.  The write is a step of its own  *)
(*     so that another handler can reach the map while it is in progress; *)
(*     the Go runtime then either goes on or kills the process ("fatal    *)
(*     error: concurrent map writes"), a nondeterministic choice here.    *)
(* A request names one characteristic (one element of the id list or of   *)
(* the body); a value is a member of a small set.  The value hooks of the *)
(* characteristic package (ValueRequest, SetValueRequest) are abstracted  *)
(* to reading the value and writing it when the characteristic is         *)
(* writable.                                                               *)
(***************************************************************************)
EXTENDS Registry

CONSTANTS
  Chars,       \* the characteristics of the accessories, by (aid, iid)
  NoChar,      \* an (aid, iid) that findC does not resolve
  Observable,  \* c.IsObservable(): the characteristics with Events permission
  Writable,    \* the characteristics whose write hook accepts a value
  Values,      \* the values a characteristic can hold
  InitValue,   \* the value of each characteristic when the server starts
  NoValue,     \* an absent `value' field
  PutElements  \* the elements {aid, iid, value?, ev?, r?} a PUT may carry

\* The ids a request may carry, and the `ev' field of a PUT element.
Ids == Chars \cup {NoChar}
EvField == {"absent", "true", "false"}
Element == [id : Ids, v : Values \cup {NoValue}, ev : EvField, r : BOOLEAN]

ASSUME CharacteristicsAssumption ==
  /\ NoChar \notin Chars
  /\ Observable \subseteq Chars
  /\ Writable \subseteq Chars
  /\ NoValue \notin Values
  /\ InitValue \in [Chars -> Values]
  /\ PutElements \subseteq Element

\* The handler of a connection that is inside the assignment to c.Events:
\* the characteristic, the bool written, and the response it will send.
CIdle == [op |-> "idle"]
NoReply == [kind |-> "none"]
GetReply == [kind : {"get"}, to : Addr, char : Ids, ev : BOOLEAN]
PutReply == [kind : {"put"}, to : Addr, code : {204, 207}]
Reply == {NoReply} \cup GetReply \cup PutReply
CHandler ==
  {CIdle} \cup [op : {"evwrite"}, char : Chars, on : BOOLEAN, resp : PutReply]

VARIABLES
  value,     \* value[c]: the current value of characteristic c
  events,    \* events[c]: the addresses with c.Events[addr] = true
  cpc,       \* cpc[a]: the characteristic handler in flight on address a
  reply,     \* the last characteristic response sent, and to whom
  crashed    \* the Go runtime has killed the process

charVars == <<value, events, cpc, reply, crashed>>

-----------------------------------------------------------------------------
(* Helpers.                                                                *)

\* findC(aid, iid) resolves the id to a characteristic.
FindC(id) == id \in Chars

\* A request of a reaches a characteristic handler: HTTP serves one request
\* of a connection at a time, and the handler runs only if srv.isPaired().
CharAdmitted(a) ==
  /\ ~crashed
  /\ Serving(a)
  /\ cpc[a] = CIdle
  /\ IsPaired

\* Some handler is inside the assignment to c.Events.
InMapWrite(c) == \E b \in Addr : cpc[b].op = "evwrite" /\ cpc[b].char = c

\* The write hook accepts the value.
WriteAccepted(c, v) == v # NoValue /\ c \in Writable

\* c.Events[addr] = on.
SetEvent(c, a, on) ==
  [events EXCEPT ![c] = IF on THEN @ \cup {a} ELSE @ \ {a}]

-----------------------------------------------------------------------------
(* GET /characteristics                                                    *)

\* One element of GetCharacteristics: a missing characteristic carries a
\* status; otherwise the value is read and, with ev=1, the subscription of
\* req.RemoteAddr (false when the map has no entry).
GetCharacteristics(a, id, ev) ==
  /\ CharAdmitted(a)
  /\ reply' = [kind |-> "get", to |-> a, char |-> id,
                ev |-> ev /\ FindC(id) /\ a \in events[id]]
  /\ UNCHANGED <<value, events, cpc, crashed>>
  /\ UNCHANGED vars

-----------------------------------------------------------------------------
(* PUT /characteristics                                                    *)

\* Mutant: an empty response is sent as 200 OK instead of 204 No Content.
PutResponseStatusOK(a, id, ev, r) ==
  LET entries == ~FindC(id) \/ r \/ (ev # "absent" /\ id \notin Observable)
  IN [kind |-> "put", to |-> a, code |-> IF entries THEN 207 ELSE 200]

\* The response PutCharacteristics sends: 204 when no element produced an
\* entry, else 207 with the entries.
PutResponse(a, id, ev, r) ==
  LET entries == \/ ~FindC(id)
                 \/ r
                 \/ ev # "absent" /\ id \notin Observable
  IN [kind |-> "put", to |-> a, code |-> IF entries THEN 207 ELSE 204]

\* One element of PutCharacteristics: findC; with r, read the value into
\* the entry; with value, call the write hook and drop its status; with ev
\* on a characteristic that is not observable, a NotificationNotSupported
\* entry; with ev on an observable one, enter the assignment to c.Events.
PutCharacteristics(a, id, v, ev, r) ==
  /\ CharAdmitted(a)
  /\ LET resp == PutResponse(a, id, ev, r) IN
       /\ value' = IF FindC(id) /\ WriteAccepted(id, v)
                     THEN [value EXCEPT ![id] = v] ELSE value
       /\ IF FindC(id) /\ ev # "absent" /\ id \in Observable
            THEN /\ cpc' = [cpc EXCEPT ![a] =
                             [op |-> "evwrite", char |-> id,
                              on |-> ev = "true", resp |-> resp]]
                 /\ UNCHANGED reply
            ELSE /\ reply' = resp
                 /\ UNCHANGED cpc
  /\ UNCHANGED <<events, crashed>>
  /\ UNCHANGED vars

\* The assignment c.Events[req.RemoteAddr] = *d.Events completes and the
\* response is sent.
PutEventsDone(a) ==
  /\ ~crashed
  /\ cpc[a].op = "evwrite"
  /\ events' = SetEvent(cpc[a].char, a, cpc[a].on)
  /\ reply' = cpc[a].resp
  /\ cpc' = [cpc EXCEPT ![a] = CIdle]
  /\ UNCHANGED <<value, crashed>>
  /\ UNCHANGED vars

\* A GET with ev=1 or a PUT with ev reaches c.Events while another handler
\* is inside its assignment: the runtime detects it and exits the process.
ConcurrentMapAccess(a, c) ==
  /\ CharAdmitted(a)
  /\ InMapWrite(c)
  /\ crashed' = TRUE
  /\ UNCHANGED <<value, events, cpc, reply>>
  /\ UNCHANGED vars

=============================================================================
