------------------------------ MODULE PairSetup ------------------------------
(***************************************************************************)
(* The pair-setup handler (part_002, pairSetup and pairSetupStep1/3/5) and *)
(* the PairSetupSession it drives (pair-setup-session.go).                 *)
(*                                                                         *)
(* Every request first passes the two refusals of pairSetup: the accessory *)
(* is already paired (Unavailable), or another address holds any session   *)
(* (Busy).  The handler then runs in its own goroutine with no lock held:  *)
(*   - M1: newPairSetupSession computes the SRP verifier (a 3072-bit       *)
(*     exponentiation) and only then calls setSession; the refusals and    *)
(*     setSession are two separate steps (SetupStep1, SetupStep1Done).     *)
(*   - M3: ComputeKey stores S before the client proof is checked, so a    *)
(*     failed proof leaves the K of an earlier exchange beside a new S.    *)
(*   - M5: the reply M6 is written before savePairing, whose error is      *)
(*     ignored; the save is a step of its own (SetupStep5Save).            *)
(* The decoding errors, the MFi method and unknown states answer an error  *)
(* and change nothing, so they are stutter steps and are left out.         *)
(***************************************************************************)
EXTENDS Registry

\* Mutant: the busy loop skips addresses whose connection is closing.
BusyOpenOnly(a) ==
  \E b \in Addr \ {a} : sessions[b] # NoSession /\ conn[b] = "open"

\* The loop over sessions() in pairSetup: another address holds a session.
Busy(a) == \E b \in Addr \ {a} : sessions[b] # NoSession

\* Mutant: pair-setup does not test isPaired.
SetupAdmittedWhenPaired(a) == Serving(a) /\ ~Busy(a)

\* The refusals every pair-setup request passes before its step runs.
SetupAdmitted(a) == Serving(a) /\ ~IsPaired /\ ~Busy(a)

\* NewPairSetupSession: salt, verifier and B, no S and no K yet.
NewPairSetupSession == [kind |-> "setup", sOk |-> FALSE, kOk |-> FALSE]

\* Mutant: VerifyClientAuthenticator's answer is not looked at.
ProofAcceptsAnyClient(a) == TRUE

\* ProofFromClientProof: M1 verifies only for a controller knowing the PIN.
ProofFromClientProof(a) == ctrlOf[a] \in PinHolders

\* SetupPrivateKeyFromClientPublicKey then SetupEncryptionKey after a
\* verified proof: S and K both come from this exchange.
SetupEncryptionKey(s) == [s EXCEPT !.sOk = TRUE, !.kOk = TRUE]

\* SetupPrivateKeyFromClientPublicKey alone (the proof then fails): the
\* new S replaces the old one, K stays.
SetupPrivateKeyFromClientPublicKey(s) == [s EXCEPT !.sOk = FALSE]

\* M1 admitted: newPairSetupSession starts computing salt, verifier and B.
SetupStep1(a) ==
  /\ SetupAdmitted(a)
  /\ pc' = [pc EXCEPT ![a] = [op |-> "setup1"]]
  /\ UNCHANGED <<conn, ctrlOf, sessions, store, added, replied>>

\* setSession(req.RemoteAddr, ss): the new session replaces whatever the
\* address held, whether or not its connection is still there; M2 is sent.
SetupStep1Done(a) ==
  /\ pc[a].op = "setup1"
  /\ sessions' = SetSession(a, NewPairSetupSession)
  /\ pc' = [pc EXCEPT ![a] = Idle]
  /\ UNCHANGED <<conn, ctrlOf, store, added, replied>>

\* M3 {A, M1}: S is computed from A, then M1 is checked; on success K is
\* derived and M4 sent, on failure InvalidRequest is sent.  A bad A
\* (ComputeKey error) changes nothing.
SetupStep3(a) ==
  /\ SetupAdmitted(a)
  /\ GetPairSetupSession(a)
  /\ \/ /\ ProofFromClientProof(a)
        /\ sessions' = SetSession(a, SetupEncryptionKey(sessions[a]))
     \/ sessions' = SetSession(a, SetupPrivateKeyFromClientPublicKey(sessions[a]))
  /\ UNCHANGED <<conn, ctrlOf, store, pc, added, replied>>

\* M5: the data decrypts with K ("PS-Msg05") and the controller signature
\* over HKDF(S) verifies only when K and S come from the same verified
\* proof; the accessory signs, encrypts and writes M6, then goes on to
\* persist the controller as admin.  Any failure answers an error.
SetupStep5(a) ==
  /\ SetupAdmitted(a)
  /\ GetPairSetupSession(a)
  /\ sessions[a].kOk /\ sessions[a].sOk
  /\ pc' = [pc EXCEPT ![a] =
              [op |-> "setup5",
               pairing |-> [name |-> ctrlOf[a],
                            key |-> ControllerKey[ctrlOf[a]],
                            perm |-> PermissionAdmin]]]
  /\ replied' = replied \cup {ctrlOf[a]}
  /\ UNCHANGED <<conn, ctrlOf, sessions, store, added>>

\* srv.savePairing(p) after M6: the store write either succeeds or fails,
\* and a failure is ignored.
SetupStep5Save(a) ==
  /\ pc[a].op = "setup5"
  /\ LET p == pc[a].pairing IN
       \/ /\ store' = StoreSavePairing(p)
          /\ replied' = replied \ {p.name}
       \/ UNCHANGED <<store, replied>>
  /\ pc' = [pc EXCEPT ![a] = Idle]
  /\ UNCHANGED <<conn, ctrlOf, sessions, added>>

SetupNext ==
  \E a \in Addr :
    \/ SetupStep1(a) \/ SetupStep1Done(a) \/ SetupStep3(a)
    \/ SetupStep5(a) \/ SetupStep5Save(a)

=============================================================================
