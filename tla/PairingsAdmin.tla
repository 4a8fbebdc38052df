---------------------------- MODULE PairingsAdmin ----------------------------
(***************************************************************************)
(* The pairings administration handler Server.Pairings (pairings.go).     *)
(* It needs a paired accessory and an established Session on the address; *)
(* Add and Delete need the Session's copy of its Pairing to be admin.     *)
(*   - AddPairing reads the stored pairing, compares the keys and saves:  *)
(*     two store operations with nothing held in between.                 *)
(*   - DeletePairing deletes, answers State=2, then closes connections:   *)
(*     all of them when no admin is left, else those whose Session        *)
(*     belongs to the removed name.                                       *)
(* ListPairings changes nothing and every refusal answers an error        *)
(* without a change, so those are stutter steps.                          *)
(***************************************************************************)
EXTENDS Registry

\* The checks before the method switch and the non-admin refusal.
AdminAdmitted(a) ==
  /\ Serving(a)
  /\ IsPaired
  /\ GetSession(a)
  /\ sessions[a].pairing.perm = PermissionAdmin

\* MethodAddPairing: srv.st.Pairing(d.Identifier); a new pairing for an
\* unknown name, only a permission update for a known one with the same
\* key, and Unknown (no change) for a known one with another key.
AddPairing(a, id, key, perm) ==
  /\ AdminAdmitted(a)
  /\ LET p == StorePairing(id) IN
       \/ /\ p = NoPairing
          /\ pc' = [pc EXCEPT ![a] =
                      [op |-> "add",
                       pairing |-> [name |-> id, key |-> key, perm |-> perm]]]
       \/ /\ p # NoPairing
          /\ p.key = key
          /\ pc' = [pc EXCEPT ![a] =
                      [op |-> "add", pairing |-> [p EXCEPT !.perm = perm]]]
  /\ UNCHANGED <<conn, ctrlOf, sessions, store, added, replied>>

\* srv.savePairing(p): on success State=2 is sent, on a store error Unknown.
AddPairingSave(a) ==
  /\ pc[a].op = "add"
  /\ LET p == pc[a].pairing IN
       \/ /\ store' = StoreSavePairing(p)
          /\ added' = added \cup {p.name}
       \/ UNCHANGED <<store, added>>
  /\ pc' = [pc EXCEPT ![a] = Idle]
  /\ UNCHANGED <<conn, ctrlOf, sessions, replied>>

\* MethodDeletePairing: look the pairing up and srv.deletePairing(p); a
\* miss or a store error answers Unknown.  On success State=2 is sent.
DeletePairing(a, id) ==
  /\ AdminAdmitted(a)
  /\ StorePairing(id) # NoPairing
  /\ store' = StoreDeletePairing(id)
  /\ pc' = [pc EXCEPT ![a] = [op |-> "del", name |-> id]]
  /\ UNCHANGED <<conn, ctrlOf, sessions, added, replied>>

\* The connections the loops over Conns() close after the reply.
ClosedByDelete(b, id) ==
  \/ ~PairedWithAdmin
  \/ GetSession(b) /\ sessions[b].pairing.name = id

\* conn.Close() on each of them; the ConnState callback evicts them later.
DeletePairingClose(a) ==
  /\ pc[a].op = "del"
  /\ conn' = [b \in Addr |->
                IF conn[b] = "open" /\ ClosedByDelete(b, pc[a].name)
                  THEN "closing" ELSE conn[b]]
  /\ pc' = [pc EXCEPT ![a] = Idle]
  /\ UNCHANGED <<ctrlOf, sessions, store, added, replied>>

AdminNext ==
  \E a \in Addr :
    \/ \E id \in Ctrl, key \in Keys, perm \in Perms : AddPairing(a, id, key, perm)
    \/ AddPairingSave(a)
    \/ \E id \in Ctrl : DeletePairing(a, id)
    \/ DeletePairingClose(a)

=============================================================================
