------------------------------ MODULE Registry ------------------------------
(***************************************************************************)
(* The state shared by the pairing handlers of the accessory:              *)
(*   - the process-wide registry of session.go: the map `sessions' from a  *)
(*     remote address to a session value (a *PairSetupSession, a           *)
(*     *PairVerifySession or an established *Session), and the map `conns' *)
(*     of live connections, here folded into `conn';                       *)
(*   - the pairing store of the storer (part_004): controller name ->      *)
(*     Pairing{Name, PublicKey, Permission}, or nothing;                   *)
(*   - the request handler in flight on each connection.  HTTP/1.1 serves  *)
(*     the requests of one connection one at a time, so each address has   *)
(*     at most one handler; a handler that has started keeps running when  *)
(*     its connection closes (net/http does not stop it).                  *)
(* Keys, salts, proofs and ciphertexts are abstracted to what decides the  *)
(* control flow: whether a proof or signature verifies.                    *)
(***************************************************************************)
EXTENDS Naturals, FiniteSets

CONSTANTS
  Addr,          \* remote addresses req.RemoteAddr, one connection each
  Ctrl,          \* controller identifiers, the Pairing.Name values
  Keys,          \* controller long-term Ed25519 public keys
  ControllerKey, \* the key pair each controller really holds
  PinHolders,    \* the controllers that know the setup PIN
  NoPairing,     \* what a store lookup of an absent name yields
  NoCtrl         \* the peer of an address with no connection

\* Pairing permission bytes (PermissionUser = 0, PermissionAdmin = 1).
PermissionUser == 0
PermissionAdmin == 1
Perms == {PermissionUser, PermissionAdmin}

\* The Pairing struct of part_004.
Pairing == [name : Ctrl, key : Keys, perm : Perms]

ASSUME RegistryAssumption ==
  /\ ControllerKey \in [Ctrl -> Keys]
  /\ PinHolders \subseteq Ctrl
  /\ NoPairing \notin Pairing
  /\ NoCtrl \notin Ctrl

(***************************************************************************)
(* The three session shapes held by the interface-typed map `sessions'.   *)
(* A PairSetupSession keeps the SRP shared secret S (PrivateKey) and the  *)
(* derived key K (EncryptionKey); sOk says that S comes from a client     *)
(* proof that verified, kOk that K has been derived from such an S.       *)
(***************************************************************************)
NoSession == [kind |-> "none"]
SetupSession == [kind : {"setup"}, sOk : BOOLEAN, kOk : BOOLEAN]
VerifySession == [kind : {"verify"}]
EstSession == [kind : {"est"}, pairing : Pairing]
SessionValue == {NoSession} \cup SetupSession \cup VerifySession \cup EstSession

\* The TCP connection of an address: none, open, or closed by one side and
\* not yet reported Closed to the ConnState callback.
ConnState == {"none", "open", "closing"}

\* The step a connection's handler is in between two suspension points.
Idle == [op |-> "idle"]
Handler ==
  {Idle} \cup [op : {"setup1"}]
         \cup [op : {"setup5", "verify3", "add"}, pairing : Pairing]
         \cup [op : {"del"}, name : Ctrl]

VARIABLES
  conn,      \* conn[a]: the connection with remote address a
  ctrlOf,    \* ctrlOf[a]: the controller at the other end of conn[a]
  sessions,  \* sessions[a]: the registry entry of address a
  store,     \* store[c]: the stored pairing of controller c, or NoPairing
  pc,        \* pc[a]: the handler in flight on address a
  added,     \* history: names written by an AddPairing
  replied    \* history: controllers sent M6 whose pairing is not yet saved

vars == <<conn, ctrlOf, sessions, store, pc, added, replied>>

-----------------------------------------------------------------------------
(* Store and registry operations used by the handlers.                     *)

\* storer.Pairing(name) via pairingForKey(keyForPairingName(name)): the
\* stored pairing, or NoPairing when the key's file is missing.
StorePairing(id) == store[id]

\* storer.SavePairing(p): the JSON blob of p under hex(p.Name).pairing.
StoreSavePairing(p) == [store EXCEPT ![p.name] = p]

\* storer.DeletePairing(name): remove the file of the name.
StoreDeletePairing(id) == [store EXCEPT ![id] = NoPairing]

\* GetSession(addr) succeeds: the entry is an established *Session.
GetSession(a) == sessions[a].kind = "est"

\* GetPairSetupSession(addr) succeeds: the entry is a *PairSetupSession.
GetPairSetupSession(a) == sessions[a].kind = "setup"

\* GetPairVerifySession(addr) succeeds: the entry is a *PairVerifySession.
GetPairVerifySession(a) == sessions[a].kind = "verify"

\* SetSession(addr, sess): sessions[addr] = sess under the mutex.
SetSession(a, s) == [sessions EXCEPT ![a] = s]

\* srv.isPaired(): the store holds at least one pairing.
IsPaired == \E c \in Ctrl : store[c] # NoPairing

\* srv.pairedWithAdmin(): the store holds an admin pairing.
PairedWithAdmin ==
  \E c \in Ctrl : store[c] # NoPairing /\ store[c].perm = PermissionAdmin

\* A request can arrive on address a: its connection is open and its
\* previous request has been answered.
Serving(a) == conn[a] = "open" /\ pc[a] = Idle

-----------------------------------------------------------------------------
(* Connection lifecycle.                                                   *)

\* The listener accepts a connection from controller c on address a and
\* registers it with SetConn.
Accept(a, c) ==
  /\ conn[a] = "none"
  /\ conn' = [conn EXCEPT ![a] = "open"]
  /\ ctrlOf' = [ctrlOf EXCEPT ![a] = c]
  /\ UNCHANGED <<sessions, store, pc, added, replied>>

\* The controller or the network closes the connection.
ClientClose(a) ==
  /\ conn[a] = "open"
  /\ conn' = [conn EXCEPT ![a] = "closing"]
  /\ UNCHANGED <<ctrlOf, sessions, store, pc, added, replied>>

\* Mutant: the close event forgets delete(sessions, addr).
ConnStateEventKeepSession(a) ==
  /\ conn[a] = "closing"
  /\ pc[a] = Idle
  /\ conn' = [conn EXCEPT ![a] = "none"]
  /\ ctrlOf' = [ctrlOf EXCEPT ![a] = NoCtrl]
  /\ UNCHANGED <<sessions, store, pc, added, replied>>

\* ConnStateEvent(conn, http.StateClosed): delete(sessions, addr) and
\* delete(conns, addr) under the registry mutex.  net/http reports
\* StateClosed from the connection's own serving goroutine, after the
\* handler of the request in flight has returned: the event waits for it.
ConnStateEvent(a) ==
  /\ conn[a] = "closing"
  /\ pc[a] = Idle
  /\ conn' = [conn EXCEPT ![a] = "none"]
  /\ ctrlOf' = [ctrlOf EXCEPT ![a] = NoCtrl]
  /\ sessions' = [sessions EXCEPT ![a] = NoSession]
  /\ UNCHANGED <<store, pc, added, replied>>

=============================================================================
