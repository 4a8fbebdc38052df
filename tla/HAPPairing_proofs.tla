-------------------------- MODULE HAPPairing_proofs --------------------------
(***************************************************************************)
(* Proofs about the pairing core HAPPairing, for every set of addresses,   *)
(* controllers, keys and PIN holders.                                      *)
(***************************************************************************)
EXTENDS HAPPairing, TLAPS

\* Typing, plus: an address with a connection has a controller.  TypeOK is
\* not inductive alone, since the handlers use ctrlOf[a] as a Ctrl.
TypeInv ==
  /\ TypeOK
  /\ \A a \in Addr : conn[a] # "none" => ctrlOf[a] \in Ctrl

\* A pairing that passed (or will pass) the V3 signature check: the
\* controller is authorized and the key is its own.
Genuine(p) ==
  /\ p.name \in PinHolders \cup added
  /\ p.key = ControllerKey[p.name]

\* The inductive invariant behind Authentication: a store entry sits under
\* its own name; a setup session past a verified proof belongs to a PIN
\* holder's live connection; the pairing a setup handler is about to save
\* is a PIN holder's; the pairing a verify handler read, and every
\* established Session, is genuine.
AuthInv ==
  /\ \A c \in Ctrl :
       store[c] # NoPairing => store[c].name = c /\ c \in PinHolders \cup added
  /\ \A a \in Addr :
       (GetPairSetupSession(a) /\ sessions[a].sOk) =>
         conn[a] # "none" /\ ctrlOf[a] \in PinHolders
  /\ \A a \in Addr : pc[a].op = "setup5" => pc[a].pairing.name \in PinHolders
  /\ \A a \in Addr : pc[a].op = "verify3" => Genuine(pc[a].pairing)
  /\ \A a \in Addr : GetSession(a) => Genuine(sessions[a].pairing)

IInv == TypeInv /\ AuthInv

-----------------------------------------------------------------------------
(* The shapes of registry entries and handler steps.                       *)

\* A registry entry GetPairSetupSession accepts is a PairSetupSession.
LEMMA SetupSessionShape ==
  ASSUME NEW s \in SessionValue, s.kind = "setup"
  PROVE  s \in SetupSession
  BY DEF SessionValue, NoSession, SetupSession, VerifySession, EstSession

\* A registry entry GetSession accepts holds a Pairing.
LEMMA EstSessionShape ==
  ASSUME NEW s \in SessionValue, s.kind = "est"
  PROVE  s.pairing \in Pairing
  BY DEF SessionValue, NoSession, SetupSession, VerifySession, EstSession

\* A handler about to save or install a pairing holds a Pairing.
LEMMA HandlerPairingShape ==
  ASSUME NEW h \in Handler, h.op \in {"setup5", "verify3", "add"}
  PROVE  h.pairing \in Pairing
  BY DEF Handler, Idle

\* A delete handler about to close connections holds a controller name.
LEMMA HandlerDelShape ==
  ASSUME NEW h \in Handler, h.op = "del"
  PROVE  h.name \in Ctrl
  BY DEF Handler, Idle

-----------------------------------------------------------------------------
(* Type correctness.                                                       *)

LEMMA InitTypeInv == Init => TypeInv
  BY RegistryAssumption
  DEF Init, TypeInv, TypeOK, SessionValue, NoSession, Handler, Idle, ConnState

LEMMA NextTypeInv == TypeInv /\ [Next]_vars => TypeInv'
  <1> SUFFICES ASSUME TypeInv, [Next]_vars PROVE TypeInv'
    OBVIOUS
  <1> USE RegistryAssumption
  <1>1. ASSUME NEW a \in Addr, NEW c \in Ctrl, Accept(a, c) PROVE TypeInv'
    BY <1>1 DEF Accept, TypeInv, TypeOK, ConnState
  <1>2. ASSUME NEW a \in Addr, ClientClose(a) PROVE TypeInv'
    BY <1>2 DEF ClientClose, TypeInv, TypeOK, ConnState
  <1>3. ASSUME NEW a \in Addr, ConnStateEvent(a) PROVE TypeInv'
    BY <1>3 DEF ConnStateEvent, TypeInv, TypeOK, ConnState, SessionValue, NoSession
  <1>4. ASSUME NEW a \in Addr, SetupStep1(a) PROVE TypeInv'
    BY <1>4 DEF SetupStep1, TypeInv, TypeOK, Handler
  <1>5. ASSUME NEW a \in Addr, SetupStep1Done(a) PROVE TypeInv'
    BY <1>5 DEF SetupStep1Done, TypeInv, TypeOK, Handler, Idle, SetSession,
                NewPairSetupSession, SessionValue, SetupSession
  <1>6. ASSUME NEW a \in Addr, SetupStep3(a) PROVE TypeInv'
    <2>1. sessions[a] \in SetupSession
      BY <1>6, SetupSessionShape DEF SetupStep3, GetPairSetupSession, TypeInv, TypeOK
    <2>2. /\ SetupEncryptionKey(sessions[a]) \in SessionValue
          /\ SetupPrivateKeyFromClientPublicKey(sessions[a]) \in SessionValue
      BY <2>1 DEF SetupEncryptionKey, SetupPrivateKeyFromClientPublicKey,
                  SetupSession, SessionValue
    <2>. QED
      BY <1>6, <2>2 DEF SetupStep3, TypeInv, TypeOK, SetSession
  <1>7. ASSUME NEW a \in Addr, SetupStep5(a) PROVE TypeInv'
    BY <1>7 DEF SetupStep5, SetupAdmitted, Serving, TypeInv, TypeOK, Handler,
                Pairing, Perms, PermissionAdmin
  <1>8. ASSUME NEW a \in Addr, SetupStep5Save(a) PROVE TypeInv'
    BY <1>8 DEF SetupStep5Save, StoreSavePairing, TypeInv, TypeOK, Handler, Idle
  <1>9. ASSUME NEW a \in Addr, VerifyStep1(a) PROVE TypeInv'
    BY <1>9 DEF VerifyStep1, SetSession, TypeInv, TypeOK, SessionValue, VerifySession
  <1>10. ASSUME NEW a \in Addr, VerifyStep3(a) PROVE TypeInv'
    BY <1>10 DEF VerifyStep3, Serving, StorePairing, SetSession, TypeInv, TypeOK,
                 Handler, SessionValue, NoSession
  <1>11. ASSUME NEW a \in Addr, VerifyInstall(a) PROVE TypeInv'
    BY <1>11 DEF VerifyInstall, NewSession, SetSession, TypeInv, TypeOK, Handler,
                 Idle, SessionValue, EstSession
  <1>12. ASSUME NEW a \in Addr, NEW id \in Ctrl, NEW key \in Keys,
                NEW perm \in Perms, AddPairing(a, id, key, perm)
         PROVE TypeInv'
    BY <1>12 DEF AddPairing, StorePairing, TypeInv, TypeOK, Handler, Pairing
  <1>13. ASSUME NEW a \in Addr, AddPairingSave(a) PROVE TypeInv'
    <2>1. pc[a].pairing \in Pairing
      BY <1>13, HandlerPairingShape DEF AddPairingSave, TypeInv, TypeOK
    <2>. QED
      BY <1>13, <2>1 DEF AddPairingSave, StoreSavePairing, TypeInv, TypeOK,
                         Handler, Idle, Pairing
  <1>14. ASSUME NEW a \in Addr, NEW id \in Ctrl, DeletePairing(a, id) PROVE TypeInv'
    BY <1>14 DEF DeletePairing, StoreDeletePairing, TypeInv, TypeOK, Handler
  <1>15. ASSUME NEW a \in Addr, DeletePairingClose(a) PROVE TypeInv'
    BY <1>15 DEF DeletePairingClose, TypeInv, TypeOK, Handler, Idle, ConnState
  <1>16. CASE UNCHANGED vars
    BY <1>16 DEF vars, TypeInv, TypeOK
  <1>. QED
    BY <1>1, <1>2, <1>3, <1>4, <1>5, <1>6, <1>7, <1>8, <1>9, <1>10, <1>11,
       <1>12, <1>13, <1>14, <1>15, <1>16
    DEF Next, ConnNext, SetupNext, VerifyNext, AdminNext

\* The accessory's state always has the shapes the handlers rely on.
THEOREM TypeCorrect == Spec => []TypeOK
  <1>1. Spec => []TypeInv
    BY InitTypeInv, NextTypeInv, PTL DEF Spec
  <1>. QED
    BY <1>1, PTL DEF TypeInv

-----------------------------------------------------------------------------
(* Authentication.                                                         *)

LEMMA InitAuthInv == Init => AuthInv
  BY DEF Init, AuthInv, GetPairSetupSession, GetSession, NoSession, Idle

LEMMA NextAuthInv == IInv /\ [Next]_vars => AuthInv'
  <1> SUFFICES ASSUME TypeInv, AuthInv, [Next]_vars PROVE AuthInv'
    BY DEF IInv
  <1> USE RegistryAssumption
  <1>1. ASSUME NEW a \in Addr, NEW c \in Ctrl, Accept(a, c) PROVE AuthInv'
    BY <1>1 DEF Accept, AuthInv, Genuine, GetPairSetupSession, GetSession
  <1>2. ASSUME NEW a \in Addr, ClientClose(a) PROVE AuthInv'
    BY <1>2 DEF ClientClose, AuthInv, Genuine, GetPairSetupSession, GetSession
  <1>3. ASSUME NEW a \in Addr, ConnStateEvent(a) PROVE AuthInv'
    BY <1>3 DEF ConnStateEvent, AuthInv, Genuine, GetPairSetupSession,
                GetSession, TypeInv, TypeOK, NoSession
  <1>4. ASSUME NEW a \in Addr, SetupStep1(a) PROVE AuthInv'
    BY <1>4 DEF SetupStep1, AuthInv, Genuine, GetPairSetupSession, GetSession,
                TypeInv, TypeOK
  <1>5. ASSUME NEW a \in Addr, SetupStep1Done(a) PROVE AuthInv'
    BY <1>5 DEF SetupStep1Done, AuthInv, Genuine, GetPairSetupSession,
                GetSession, SetSession, NewPairSetupSession, TypeInv, TypeOK, Idle
  <1>6. ASSUME NEW a \in Addr, SetupStep3(a) PROVE AuthInv'
    <2>1. sessions[a] \in SetupSession
      BY <1>6, SetupSessionShape DEF SetupStep3, GetPairSetupSession, TypeInv, TypeOK
    <2>2. \E t \in SetupSession :
            /\ sessions' = SetSession(a, t)
            /\ t.sOk => ctrlOf[a] \in PinHolders
      <3>1. CASE ProofFromClientProof(a)
             /\ sessions' = SetSession(a, SetupEncryptionKey(sessions[a]))
        <4>1. SetupEncryptionKey(sessions[a]) \in SetupSession
          BY <2>1 DEF SetupEncryptionKey, SetupSession
        <4>. QED
          BY <3>1, <4>1 DEF ProofFromClientProof
      <3>2. CASE sessions' = SetSession(a, SetupPrivateKeyFromClientPublicKey(sessions[a]))
        <4>1. /\ SetupPrivateKeyFromClientPublicKey(sessions[a]) \in SetupSession
              /\ ~SetupPrivateKeyFromClientPublicKey(sessions[a]).sOk
          BY <2>1 DEF SetupPrivateKeyFromClientPublicKey, SetupSession
        <4>. QED
          BY <3>2, <4>1
      <3>. QED
        BY <1>6, <3>1, <3>2 DEF SetupStep3
    <2>3. PICK t \in SetupSession :
            /\ sessions' = SetSession(a, t)
            /\ t.sOk => ctrlOf[a] \in PinHolders
      BY <2>2
    <2>4. conn[a] = "open" /\ UNCHANGED <<conn, ctrlOf, store, pc, added>>
      BY <1>6 DEF SetupStep3, SetupAdmitted, Serving
    <2>5. t.kind = "setup"
      BY DEF SetupSession
    <2>. QED
      BY <2>3, <2>4, <2>5 DEF AuthInv, Genuine, GetPairSetupSession,
                              GetSession, SetSession, TypeInv, TypeOK
  <1>7. ASSUME NEW a \in Addr, SetupStep5(a) PROVE AuthInv'
    BY <1>7 DEF SetupStep5, AuthInv, Genuine, GetPairSetupSession, GetSession,
                TypeInv, TypeOK
  <1>8. ASSUME NEW a \in Addr, SetupStep5Save(a) PROVE AuthInv'
    <2>1. pc[a].pairing \in Pairing
      BY <1>8, HandlerPairingShape DEF SetupStep5Save, TypeInv, TypeOK
    <2>. QED
      BY <1>8, <2>1 DEF SetupStep5Save, StoreSavePairing, AuthInv, Genuine,
                        GetPairSetupSession, GetSession, TypeInv, TypeOK, Idle
  <1>9. ASSUME NEW a \in Addr, VerifyStep1(a) PROVE AuthInv'
    BY <1>9 DEF VerifyStep1, AuthInv, Genuine, GetPairSetupSession, GetSession,
                SetSession, TypeInv, TypeOK
  <1>10. ASSUME NEW a \in Addr, VerifyStep3(a) PROVE AuthInv'
    BY <1>10 DEF VerifyStep3, Serving, StorePairing, AuthInv, Genuine,
                 GetPairSetupSession, GetPairVerifySession, GetSession,
                 SetSession, TypeInv, TypeOK, NoSession
  <1>11. ASSUME NEW a \in Addr, VerifyInstall(a) PROVE AuthInv'
    BY <1>11 DEF VerifyInstall, NewSession, AuthInv, Genuine,
                 GetPairSetupSession, GetSession, SetSession, TypeInv, TypeOK, Idle
  <1>12. ASSUME NEW a \in Addr, NEW id \in Ctrl, NEW key \in Keys,
                NEW perm \in Perms, AddPairing(a, id, key, perm)
         PROVE AuthInv'
    BY <1>12 DEF AddPairing, AuthInv, Genuine, GetPairSetupSession, GetSession,
                 TypeInv, TypeOK
  <1>13. ASSUME NEW a \in Addr, AddPairingSave(a) PROVE AuthInv'
    <2>1. pc[a].pairing \in Pairing
      BY <1>13, HandlerPairingShape DEF AddPairingSave, TypeInv, TypeOK
    <2>. QED
      BY <1>13, <2>1 DEF AddPairingSave, StoreSavePairing, AuthInv, Genuine,
                         GetPairSetupSession, GetSession, TypeInv, TypeOK, Idle
  <1>14. ASSUME NEW a \in Addr, NEW id \in Ctrl, DeletePairing(a, id) PROVE AuthInv'
    BY <1>14 DEF DeletePairing, StoreDeletePairing, AuthInv, Genuine,
                 GetPairSetupSession, GetSession, TypeInv, TypeOK
  <1>15. ASSUME NEW a \in Addr, DeletePairingClose(a) PROVE AuthInv'
    BY <1>15 DEF DeletePairingClose, AuthInv, Genuine, GetPairSetupSession,
                 GetSession, TypeInv, TypeOK, Idle
  <1>16. CASE UNCHANGED vars
    BY <1>16 DEF vars, AuthInv, Genuine, GetPairSetupSession, GetSession
  <1>. QED
    BY <1>1, <1>2, <1>3, <1>4, <1>5, <1>6, <1>7, <1>8, <1>9, <1>10, <1>11,
       <1>12, <1>13, <1>14, <1>15, <1>16
    DEF Next, ConnNext, SetupNext, VerifyNext, AdminNext

\* Authentication of controllers (see HAPPairing): for every number of
\* connections and controllers, however the setup, verify and pairings
\* handlers interleave, every stored pairing and every established Session
\* belongs to a PIN holder or an admin-added name, with its genuine key.
THEOREM AuthenticationHolds == Spec => []Authentication
  <1>1. Init => IInv
    BY InitTypeInv, InitAuthInv DEF IInv
  <1>2. IInv /\ [Next]_vars => IInv'
    BY NextTypeInv, NextAuthInv DEF IInv
  <1>3. IInv => Authentication
    BY DEF IInv, AuthInv, Genuine, Authentication, GetSession
  <1>. QED
    BY <1>1, <1>2, <1>3, PTL DEF Spec

-----------------------------------------------------------------------------
(* Exclusion of pair-setup proofs.                                         *)

\* Writing into one registry entry a value that is not a PairSetupSession
\* with a derived K keeps SetupProofExclusive.
LEMMA ExclusiveAfterWrite ==
  ASSUME SetupProofExclusive, NEW a \in Addr, NEW t,
         sessions' = SetSession(a, t), ~(t.kind = "setup" /\ t.kOk),
         sessions \in [Addr -> SessionValue]
  PROVE  SetupProofExclusive'
  BY DEF SetupProofExclusive, GetPairSetupSession, SetSession

LEMMA NextExclusive ==
  TypeInv /\ SetupProofExclusive /\ [Next]_vars => SetupProofExclusive'
  <1> SUFFICES ASSUME TypeInv, SetupProofExclusive, [Next]_vars
               PROVE SetupProofExclusive'
    OBVIOUS
  <1>1. sessions \in [Addr -> SessionValue]
    BY DEF TypeInv, TypeOK
  <1>2. ASSUME NEW a \in Addr, ConnStateEvent(a) PROVE SetupProofExclusive'
    BY <1>1, <1>2, ExclusiveAfterWrite DEF ConnStateEvent, NoSession, SetSession
  <1>3. ASSUME NEW a \in Addr, SetupStep1Done(a) PROVE SetupProofExclusive'
    BY <1>1, <1>3, ExclusiveAfterWrite DEF SetupStep1Done, NewPairSetupSession
  <1>4. ASSUME NEW a \in Addr, SetupStep3(a) PROVE SetupProofExclusive'
    <2>1. \A b \in Addr \ {a} : sessions'[b] = NoSession
      BY <1>4, <1>1 DEF SetupStep3, SetupAdmitted, Busy, SetSession
    <2>. QED
      BY <2>1 DEF SetupProofExclusive, GetPairSetupSession, NoSession
  <1>5. ASSUME NEW a \in Addr, VerifyStep1(a) PROVE SetupProofExclusive'
    BY <1>1, <1>5, ExclusiveAfterWrite DEF VerifyStep1
  <1>6. ASSUME NEW a \in Addr, VerifyStep3(a) PROVE SetupProofExclusive'
    <2>1. CASE UNCHANGED sessions
      BY <2>1 DEF SetupProofExclusive, GetPairSetupSession
    <2>2. CASE sessions' = SetSession(a, NoSession)
      BY <1>1, <2>2, ExclusiveAfterWrite DEF NoSession
    <2>. QED
      BY <1>6, <2>1, <2>2 DEF VerifyStep3
  <1>7. ASSUME NEW a \in Addr, VerifyInstall(a) PROVE SetupProofExclusive'
    BY <1>1, <1>7, ExclusiveAfterWrite DEF VerifyInstall, NewSession
  <1>8. CASE UNCHANGED sessions
    BY <1>8 DEF SetupProofExclusive, GetPairSetupSession
  <1>. QED
    BY <1>2, <1>3, <1>4, <1>5, <1>6, <1>7, <1>8
    DEF Next, ConnNext, SetupNext, VerifyNext, AdminNext, vars,
        Accept, ClientClose, SetupStep1, SetupStep5, SetupStep5Save,
        AddPairing, AddPairingSave, DeletePairing, DeletePairingClose

\* SetupProofExclusive (see HAPPairing): for any number of connections,
\* the busy loop of pairSetup keeps a verified SRP proof with a derived K
\* to at most one address, however M1 and M3 handlers race and whenever
\* connections close.
THEOREM SetupProofExclusiveHolds == Spec => []SetupProofExclusive
  <1>1. Init => TypeInv /\ SetupProofExclusive
    BY InitTypeInv DEF Init, SetupProofExclusive, GetPairSetupSession, NoSession
  <1>2. TypeInv /\ SetupProofExclusive /\ [Next]_vars
          => (TypeInv /\ SetupProofExclusive)'
    BY NextTypeInv, NextExclusive
  <1>. QED
    BY <1>1, <1>2, PTL DEF Spec

-----------------------------------------------------------------------------
(* Sessions do not outlive their connections.                              *)

\* An address holds registry state, or has a handler in flight.
Attached(a) == sessions[a] # NoSession \/ pc[a] # Idle

\* The inductive form of NoLeakedSession: not only a registry entry but
\* also a handler in flight keeps its connection from being gone, since
\* the close event waits for the handler (and that handler may still
\* install a session).
LiveInv == \A a \in Addr : Attached(a) => conn[a] # "none"

LEMMA InitLiveInv == Init => LiveInv
  BY DEF Init, LiveInv, Attached

LEMMA NextLiveInv == TypeInv /\ LiveInv /\ [Next]_vars => LiveInv'
  <1> SUFFICES ASSUME TypeInv, LiveInv, [Next]_vars PROVE LiveInv'
    OBVIOUS
  <1>0. \A a \in Addr : Serving(a) => conn[a] # "none"
    BY DEF Serving
  <1>1. ASSUME NEW a \in Addr, NEW c \in Ctrl, Accept(a, c) PROVE LiveInv'
    BY <1>1 DEF Accept, LiveInv, Attached, TypeInv, TypeOK
  <1>2. ASSUME NEW a \in Addr, ClientClose(a) PROVE LiveInv'
    BY <1>2 DEF ClientClose, LiveInv, Attached, TypeInv, TypeOK
  <1>3. ASSUME NEW a \in Addr, ConnStateEvent(a) PROVE LiveInv'
    BY <1>3 DEF ConnStateEvent, LiveInv, Attached, TypeInv, TypeOK
  <1>4. ASSUME NEW a \in Addr, SetupStep1(a) PROVE LiveInv'
    BY <1>4, <1>0 DEF SetupStep1, SetupAdmitted, LiveInv, Attached, TypeInv, TypeOK
  <1>5. ASSUME NEW a \in Addr, SetupStep1Done(a) PROVE LiveInv'
    BY <1>5 DEF SetupStep1Done, SetSession, LiveInv, Attached, TypeInv, TypeOK, Idle
  <1>6. ASSUME NEW a \in Addr, SetupStep3(a) PROVE LiveInv'
    BY <1>6, <1>0 DEF SetupStep3, SetupAdmitted, SetSession, LiveInv, Attached,
                     TypeInv, TypeOK
  <1>7. ASSUME NEW a \in Addr, SetupStep5(a) PROVE LiveInv'
    BY <1>7, <1>0 DEF SetupStep5, SetupAdmitted, LiveInv, Attached, TypeInv, TypeOK
  <1>8. ASSUME NEW a \in Addr, SetupStep5Save(a) PROVE LiveInv'
    BY <1>8 DEF SetupStep5Save, SetSession, LiveInv, Attached, TypeInv, TypeOK
  <1>9. ASSUME NEW a \in Addr, VerifyStep1(a) PROVE LiveInv'
    BY <1>9, <1>0 DEF VerifyStep1, SetSession, LiveInv, Attached, TypeInv, TypeOK
  <1>10. ASSUME NEW a \in Addr, VerifyStep3(a) PROVE LiveInv'
    BY <1>10, <1>0 DEF VerifyStep3, SetSession, LiveInv, Attached, TypeInv, TypeOK
  <1>11. ASSUME NEW a \in Addr, VerifyInstall(a) PROVE LiveInv'
    BY <1>11 DEF VerifyInstall, SetSession, LiveInv, Attached, TypeInv, TypeOK, Idle
  <1>12. ASSUME NEW a \in Addr, NEW id \in Ctrl, NEW key \in Keys,
                NEW perm \in Perms, AddPairing(a, id, key, perm)
         PROVE LiveInv'
    BY <1>12, <1>0 DEF AddPairing, AdminAdmitted, LiveInv, Attached, TypeInv, TypeOK
  <1>13. ASSUME NEW a \in Addr, AddPairingSave(a) PROVE LiveInv'
    BY <1>13 DEF AddPairingSave, LiveInv, Attached, TypeInv, TypeOK
  <1>14. ASSUME NEW a \in Addr, NEW id \in Ctrl, DeletePairing(a, id) PROVE LiveInv'
    BY <1>14, <1>0 DEF DeletePairing, AdminAdmitted, LiveInv, Attached, TypeInv, TypeOK
  <1>15. ASSUME NEW a \in Addr, DeletePairingClose(a) PROVE LiveInv'
    BY <1>15 DEF DeletePairingClose, LiveInv, Attached, TypeInv, TypeOK
  <1>16. CASE UNCHANGED vars
    BY <1>16 DEF vars, LiveInv, Attached
  <1>. QED
    BY <1>1, <1>2, <1>3, <1>4, <1>5, <1>6, <1>7, <1>8, <1>9, <1>10, <1>11,
       <1>12, <1>13, <1>14, <1>15, <1>16
    DEF Next, ConnNext, SetupNext, VerifyNext, AdminNext

\* NoLeakedSession (see HAPPairing): for any number of connections, no
\* registry entry outlives its connection's ConnStateEvent, because net/http
\* reports StateClosed only after the handler in flight (which may call
\* setSession) has returned.
THEOREM NoLeakedSessionHolds == Spec => []NoLeakedSession
  <1>1. Init => TypeInv /\ LiveInv
    BY InitTypeInv, InitLiveInv
  <1>2. TypeInv /\ LiveInv /\ [Next]_vars => (TypeInv /\ LiveInv)'
    BY NextTypeInv, NextLiveInv
  <1>3. LiveInv => NoLeakedSession
    BY DEF LiveInv, Attached, NoLeakedSession
  <1>. QED
    BY <1>1, <1>2, <1>3, PTL DEF Spec

=============================================================================
