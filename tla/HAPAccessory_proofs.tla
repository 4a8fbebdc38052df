-------------------------- MODULE HAPAccessory_proofs --------------------------
(***************************************************************************)
(* Proofs about the accessory for every set of addresses, controllers and *)
(* characteristics: its state keeps its shapes, and only an address's own *)
(* completed PUT (or a restart) changes its entry in an Events map.       *)
(***************************************************************************)
EXTENDS HAPAccessory, TLAPS

\* The response a PUT element leaves in its handler is a PutReply.
LEMMA PutResponseType ==
  ASSUME NEW a \in Addr, NEW id, NEW ev, NEW r
  PROVE  PutResponse(a, id, ev, r) \in PutReply
BY DEF PutResponse, PutReply

-----------------------------------------------------------------------------
(* Type correctness.                                                       *)

\* Typing, plus: an address with a connection has a controller, which
\* pair-verify's V3 looks its key up by.  TypeOK is not inductive alone.
AccTypeInv ==
  /\ TypeOK
  /\ \A a \in Addr : conn[a] # "none" => ctrlOf[a] \in Ctrl

\* The pairing store pair-setup left: each paired controller as admin.
LEMMA InitialStoreType == InitialStore \in [Ctrl -> Pairing \cup {NoPairing}]
BY RegistryAssumption DEF InitialStore, Pairing, Perms, PermissionAdmin

LEMMA InitAccTypeInv == Init => AccTypeInv
BY InitialStoreType, CharacteristicsAssumption
DEF Init, Fresh, AccTypeInv, TypeOK, SessionValue, NoSession, Handler, Idle,
    ConnState, CHandler, CIdle, Reply, NoReply

\* The replies the characteristic handlers send have the shapes of Reply.
LEMMA GetReplyType ==
  ASSUME NEW a \in Addr, NEW id \in Ids, NEW ev \in BOOLEAN
  PROVE  [kind |-> "get", to |-> a, char |-> id,
          ev |-> ev /\ FindC(id) /\ a \in events[id]] \in Reply
BY DEF Reply, GetReply

LEMMA NextAccTypeInv == AccTypeInv /\ [Next]_allVars => AccTypeInv'
<1> SUFFICES ASSUME AccTypeInv, [Next]_allVars PROVE AccTypeInv'
  OBVIOUS
<1> USE RegistryAssumption, CharacteristicsAssumption
<1>1. ASSUME NEW a \in Addr, NEW c \in Ctrl, Accept(a, c),
             reply' = IF reply # NoReply /\ reply.to = a THEN NoReply ELSE reply,
             UNCHANGED <<value, events, cpc, crashed>>
      PROVE AccTypeInv'
  BY <1>1 DEF Accept, AccTypeInv, TypeOK, ConnState, Reply, NoReply
<1>2. ASSUME NEW a \in Addr, ClientClose(a) \/ ConnStateEvent(a),
             UNCHANGED charVars
      PROVE AccTypeInv'
  BY <1>2 DEF ClientClose, ConnStateEvent, charVars, AccTypeInv, TypeOK,
              ConnState, SessionValue, NoSession
<1>3. ASSUME NEW a \in Addr, VerifyStep1(a), UNCHANGED charVars PROVE AccTypeInv'
  BY <1>3 DEF VerifyStep1, SetSession, charVars, AccTypeInv, TypeOK,
              SessionValue, VerifySession
<1>4. ASSUME NEW a \in Addr, VerifyStep3(a), UNCHANGED charVars PROVE AccTypeInv'
  BY <1>4 DEF VerifyStep3, Serving, StorePairing, SetSession, charVars,
              AccTypeInv, TypeOK, Handler, SessionValue, NoSession
<1>5. ASSUME NEW a \in Addr, VerifyInstall(a), UNCHANGED charVars PROVE AccTypeInv'
  BY <1>5 DEF VerifyInstall, NewSession, SetSession, charVars, AccTypeInv,
              TypeOK, Handler, Idle, SessionValue, EstSession
<1>6. ASSUME NEW a \in Addr, NEW id \in Ids, NEW ev \in BOOLEAN,
             GetCharacteristics(a, id, ev)
      PROVE AccTypeInv'
  BY <1>6, GetReplyType DEF GetCharacteristics, AccTypeInv, TypeOK, vars
<1>7. ASSUME NEW a \in Addr, NEW e \in PutElements,
             PutCharacteristics(a, e.id, e.v, e.ev, e.r)
      PROVE AccTypeInv'
  <2>1. e \in Element
    OBVIOUS
  <2>2. value' \in [Chars -> Values]
    BY <1>7, <2>1 DEF PutCharacteristics, WriteAccepted, FindC, Element,
                      AccTypeInv, TypeOK
  <2>3. PutResponse(a, e.id, e.ev, e.r) \in PutReply
    BY PutResponseType
  <2>4. reply' \in Reply /\ cpc' \in [Addr -> CHandler]
    <3>1. CASE FindC(e.id) /\ e.ev # "absent" /\ e.id \in Observable
      <4> DEFINE h == [op |-> "evwrite", char |-> e.id, on |-> e.ev = "true",
                       resp |-> PutResponse(a, e.id, e.ev, e.r)]
      <4>1. h \in CHandler
        BY <2>3, <3>1 DEF FindC, CHandler
      <4>2. cpc' = [cpc EXCEPT ![a] = h] /\ reply' = reply
        BY <1>7, <3>1 DEF PutCharacteristics
      <4> QED
        BY <4>1, <4>2 DEF AccTypeInv, TypeOK
    <3>2. CASE ~(FindC(e.id) /\ e.ev # "absent" /\ e.id \in Observable)
      <4>1. reply' = PutResponse(a, e.id, e.ev, e.r) /\ cpc' = cpc
        BY <1>7, <3>2 DEF PutCharacteristics
      <4> QED
        BY <2>3, <4>1 DEF AccTypeInv, TypeOK, Reply
    <3> QED
      BY <3>1, <3>2
  <2> QED
    BY <1>7, <2>2, <2>4 DEF PutCharacteristics, AccTypeInv, TypeOK, vars
<1>8. ASSUME NEW a \in Addr, PutEventsDone(a) PROVE AccTypeInv'
  <2>1. cpc[a] \in [op : {"evwrite"}, char : Chars, on : BOOLEAN, resp : PutReply]
    BY <1>8 DEF PutEventsDone, AccTypeInv, TypeOK, CHandler, CIdle
  <2>2. events' \in [Chars -> SUBSET Addr]
    BY <1>8, <2>1 DEF PutEventsDone, SetEvent, AccTypeInv, TypeOK
  <2>3. reply' \in Reply /\ cpc' \in [Addr -> CHandler]
    BY <1>8, <2>1 DEF PutEventsDone, AccTypeInv, TypeOK, Reply, CHandler, CIdle
  <2> QED
    BY <1>8, <2>2, <2>3 DEF PutEventsDone, AccTypeInv, TypeOK, vars
<1>9. ASSUME NEW a \in Addr, NEW c \in Chars, ConcurrentMapAccess(a, c)
      PROVE AccTypeInv'
  BY <1>9 DEF ConcurrentMapAccess, AccTypeInv, TypeOK, vars
<1>10. CASE Restart
  BY <1>10 DEF Restart, AccTypeInv, TypeOK, SessionValue, NoSession, Handler,
               Idle, ConnState, CHandler, CIdle, Reply, NoReply
<1>11. CASE UNCHANGED allVars
  BY <1>11 DEF allVars, vars, charVars, AccTypeInv, TypeOK
<1>12. CASE ~crashed /\ ConnNext
  BY <1>1, <1>2, <1>12 DEF ConnNext
<1>13. CASE ~crashed /\ VerifyServed
  BY <1>3, <1>4, <1>5, <1>13 DEF VerifyServed
<1>14. CASE CharNext
  BY <1>6, <1>7, <1>8, <1>9, <1>14 DEF CharNext
<1> QED
  BY <1>10, <1>11, <1>12, <1>13, <1>14 DEF Next

\* Theorem: for every set of addresses, controllers, keys and
\* characteristics, the accessory's state keeps the shapes the handlers of
\* session.go, pair-verify and part_001 rely on, through connection churn,
\* concurrent GET and PUT, and crash and restart.
THEOREM AccessoryTypeCorrect == Spec => []TypeOK
<1>1. Spec => []AccTypeInv
  BY InitAccTypeInv, NextAccTypeInv, PTL DEF Spec
<1> QED
  BY <1>1, PTL DEF AccTypeInv

=============================================================================
