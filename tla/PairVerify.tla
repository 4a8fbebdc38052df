----------------------------- MODULE PairVerify -----------------------------
(***************************************************************************)
(* Pair-verify (spec section 4.2; its handler is not among the sources,    *)
(* only NewSession of session.go is).  V1 creates a PairVerifySession for  *)
(* the address.  V3 looks the controller up in the store and checks its    *)
(* signature against the stored key; the store read and the registry      *)
(* write are separate suspension points (spec section 5), so installing   *)
(* the Session is a step of its own.  The Session keeps a copy of the     *)
(* Pairing as it was read (Session.Pairing is a value, not a pointer).    *)
(***************************************************************************)
EXTENDS Registry

\* NewSession(shared, p): a Session holding a copy of the Pairing p; its
\* keys and counters belong to the transport (SessionTransport).
NewSession(p) == [kind |-> "est", pairing |-> p]

\* V1: the accessory answers M2 and keeps a PairVerifySession.
VerifyStep1(a) ==
  /\ Serving(a)
  /\ sessions' = SetSession(a, [kind |-> "verify"])
  /\ UNCHANGED <<conn, ctrlOf, store, pc, added, replied>>

\* V3: the controller's signature verifies only against its own key.  A
\* missing pairing or a mismatching key answers Authentication and clears
\* the PairVerifySession.
VerifyStep3(a) ==
  /\ Serving(a)
  /\ GetPairVerifySession(a)
  /\ LET p == StorePairing(ctrlOf[a]) IN
       IF p # NoPairing /\ p.key = ControllerKey[ctrlOf[a]]
         THEN /\ pc' = [pc EXCEPT ![a] = [op |-> "verify3", pairing |-> p]]
              /\ UNCHANGED sessions
         ELSE /\ sessions' = SetSession(a, NoSession)
              /\ UNCHANGED pc
  /\ UNCHANGED <<conn, ctrlOf, store, added, replied>>

\* Mutant: the Session takes the pairing as stored now, not the one read.
VerifyInstallReread(a) ==
  /\ pc[a].op = "verify3"
  /\ sessions' = SetSession(a, NewSession(StorePairing(pc[a].pairing.name)))
  /\ pc' = [pc EXCEPT ![a] = Idle]
  /\ UNCHANGED <<conn, ctrlOf, store, added, replied>>

\* NewSession(shared, p) and SetSession: the Session with the copied
\* Pairing and zeroed counters replaces the PairVerifySession; M4 is sent.
VerifyInstall(a) ==
  /\ pc[a].op = "verify3"
  /\ sessions' = SetSession(a, NewSession(pc[a].pairing))
  /\ pc' = [pc EXCEPT ![a] = Idle]
  /\ UNCHANGED <<conn, ctrlOf, store, added, replied>>

VerifyNext ==
  \E a \in Addr : VerifyStep1(a) \/ VerifyStep3(a) \/ VerifyInstall(a)

=============================================================================
