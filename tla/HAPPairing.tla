----------------------------- MODULE HAPPairing -----------------------------
(***************************************************************************)
(* The pairing core of the accessory: connections, the session registry,  *)
(* the pairing store, and the pair-setup, pair-verify and pairings        *)
(* handlers of every connection running concurrently over them.           *)
(***************************************************************************)
EXTENDS PairSetup, PairVerify, PairingsAdmin

\* A fresh accessory: no connection, no session, no pairing.
Init ==
  /\ conn = [a \in Addr |-> "none"]
  /\ ctrlOf = [a \in Addr |-> NoCtrl]
  /\ sessions = [a \in Addr |-> NoSession]
  /\ store = [c \in Ctrl |-> NoPairing]
  /\ pc = [a \in Addr |-> Idle]
  /\ added = {}
  /\ replied = {}

ConnNext ==
  \E a \in Addr :
    \/ \E c \in Ctrl : Accept(a, c)
    \/ ClientClose(a)
    \/ ConnStateEvent(a)

Next == ConnNext \/ SetupNext \/ VerifyNext \/ AdminNext

Spec == Init /\ [][Next]_vars

-----------------------------------------------------------------------------
(* Properties.                                                             *)

TypeOK ==
  /\ conn \in [Addr -> ConnState]
  /\ ctrlOf \in [Addr -> Ctrl \cup {NoCtrl}]
  /\ sessions \in [Addr -> SessionValue]
  /\ store \in [Ctrl -> Pairing \cup {NoPairing}]
  /\ pc \in [Addr -> Handler]
  /\ added \in SUBSET Ctrl
  /\ replied \in SUBSET Ctrl

\* Authentication of controllers, across every interleaving of the setup,
\* verify and admin handlers of all connections: a pairing exists only for
\* a PIN holder (pair-setup) or a name an admin added, and an established
\* Session is only ever bound to such a pairing, with the key the
\* controller really holds (its V3 signature verified).
Authentication ==
  /\ \A c \in Ctrl : store[c] # NoPairing => c \in PinHolders \cup added
  /\ \A a \in Addr :
       sessions[a].kind = "est" =>
         LET p == sessions[a].pairing IN
           /\ p.name \in PinHolders \cup added
           /\ p.key = ControllerKey[p.name]

\* What the busy loop of pairSetup does guarantee, however the M1 handlers
\* of different connections race and whenever connections close: at most
\* one address at a time holds a PairSetupSession that has got past M3
\* (a verified proof and a derived K), so at most one controller at a time
\* can be in the position to send a valid M5.
SetupProofExclusive ==
  \A a, b \in Addr :
    (a # b /\ GetPairSetupSession(a) /\ sessions[a].kOk) =>
      ~(GetPairSetupSession(b) /\ sessions[b].kOk)

\* Spec 3: at most one PairSetupSession in the whole process at any time.
SetupSingleton ==
  Cardinality({a \in Addr : sessions[a].kind = "setup"}) <= 1

\* Spec 4.4 and 5: closing a connection evicts its session state; no
\* address without a connection keeps a registry entry.
NoLeakedSession ==
  \A a \in Addr : sessions[a] # NoSession => conn[a] # "none"

\* Spec 3 and 8: pair-setup is refused once a pairing exists, so while a
\* pair-setup is about to persist its controller no pairing is stored.
SetupOnlyWhenUnpaired ==
  \A a \in Addr : pc[a].op = "setup5" => ~IsPaired

\* Spec 4.1 (persist, then reply M6): a controller that was sent M6 is
\* stored, or its save is still in flight.
M6ImpliesPersisted ==
  \A c \in replied :
    \E a \in Addr : pc[a].op = "setup5" /\ pc[a].pairing.name = c

\* Spec 4.5 and 8: Add and Delete are accepted only from a controller whose
\* pairing is admin (what the store says at the time of the request).
AdminOpsByAdmins ==
  [][\A a \in Addr :
       (pc[a] = Idle /\ pc'[a].op \in {"add", "del"}) =>
         LET n == sessions[a].pairing.name IN
           store[n] # NoPairing /\ store[n].perm = PermissionAdmin]_vars

\* Spec 4.5: AddPairing of a known name only updates the permission, so
\* the key of a stored pairing never changes while it stays stored.
KeyNeverReplaced ==
  [][\A c \in Ctrl :
       (store[c] # NoPairing /\ store'[c] # NoPairing) =>
         store'[c].key = store[c].key]_store

=============================================================================
