----------------------------- MODULE HAPAccessory -----------------------------
(***************************************************************************)
(* The accessory after pair-setup: connections come and go, pair-verify   *)
(* installs Sessions, and the characteristic handlers of every connection *)
(* serve GET and PUT concurrently.  The process may die (the Go runtime's *)
(* verdict on a concurrent map access) and is then restarted: the         *)
(* registries, the handlers, the values and the Events maps live in       *)
(* memory and start afresh; the pairing store is on disk and survives.    *)
(***************************************************************************)
EXTENDS PairVerify, Characteristics

CONSTANT PairedCtrl   \* the controllers stored by an earlier pair-setup

ASSUME AccessoryAssumption == PairedCtrl \subseteq PinHolders

\* The store as pair-setup left it: each paired controller as admin.
InitialStore ==
  [c \in Ctrl |->
     IF c \in PairedCtrl
       THEN [name |-> c, key |-> ControllerKey[c], perm |-> PermissionAdmin]
       ELSE NoPairing]

\* The in-memory state of a freshly started server.
Fresh ==
  /\ conn = [a \in Addr |-> "none"]
  /\ ctrlOf = [a \in Addr |-> NoCtrl]
  /\ sessions = [a \in Addr |-> NoSession]
  /\ pc = [a \in Addr |-> Idle]
  /\ value = InitValue
  /\ events = [c \in Chars |-> {}]
  /\ cpc = [a \in Addr |-> CIdle]
  /\ reply = NoReply
  /\ crashed = FALSE

Init ==
  /\ store = InitialStore
  /\ added = {}
  /\ replied = {}
  /\ Fresh

allVars == <<vars, charVars>>

\* SetConn on accept; a new connection has been sent nothing.
\* Closing and ConnStateEvent leave the characteristics alone; the close
\* event waits for a characteristics handler in flight as for any other.
ConnNext ==
  \E a \in Addr :
    \/ \E c \in Ctrl :
         /\ Accept(a, c)
         /\ reply' = IF reply # NoReply /\ reply.to = a THEN NoReply ELSE reply
         /\ UNCHANGED <<value, events, cpc, crashed>>
    \/ ClientClose(a) /\ UNCHANGED charVars
    \/ cpc[a] = CIdle /\ ConnStateEvent(a) /\ UNCHANGED charVars

\* Pair-verify requests are served between characteristic requests.
VerifyServed ==
  \E a \in Addr :
    /\ \/ cpc[a] = CIdle /\ (VerifyStep1(a) \/ VerifyStep3(a))
       \/ VerifyInstall(a)
    /\ UNCHANGED charVars

CharNext ==
  \E a \in Addr :
    \/ \E id \in Ids, ev \in BOOLEAN : GetCharacteristics(a, id, ev)
    \/ \E e \in PutElements : PutCharacteristics(a, e.id, e.v, e.ev, e.r)
    \/ PutEventsDone(a)
    \/ \E c \in Chars : ConcurrentMapAccess(a, c)

\* The process is started again after it died.
Restart ==
  /\ crashed
  /\ conn' = [a \in Addr |-> "none"]
  /\ ctrlOf' = [a \in Addr |-> NoCtrl]
  /\ sessions' = [a \in Addr |-> NoSession]
  /\ pc' = [a \in Addr |-> Idle]
  /\ value' = InitValue
  /\ events' = [c \in Chars |-> {}]
  /\ cpc' = [a \in Addr |-> CIdle]
  /\ reply' = NoReply
  /\ crashed' = FALSE
  /\ UNCHANGED <<store, added, replied>>

Next ==
  \/ ~crashed /\ (ConnNext \/ VerifyServed)
  \/ CharNext
  \/ Restart

Spec == Init /\ [][Next]_allVars

-----------------------------------------------------------------------------
(* Properties.                                                             *)

TypeOK ==
  /\ conn \in [Addr -> ConnState]
  /\ ctrlOf \in [Addr -> Ctrl \cup {NoCtrl}]
  /\ sessions \in [Addr -> SessionValue]
  /\ store \in [Ctrl -> Pairing \cup {NoPairing}]
  /\ pc \in [Addr -> Handler]
  /\ value \in [Chars -> Values]
  /\ events \in [Chars -> SUBSET Addr]
  /\ cpc \in [Addr -> CHandler]
  /\ reply \in Reply
  /\ crashed \in BOOLEAN

\* Spec 5: the characteristic event maps are protected by mutexes, so
\* concurrent GET and PUT requests of different controllers never make the
\* accessory process die.
NoFatalMapAccess == ~crashed

=============================================================================
