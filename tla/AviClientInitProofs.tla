-------------------------- MODULE AviClientInitProofs --------------------------
(***************************************************************************)
(* initAVI for any number of ADCs, AVI controllers and CAs: the two        *)
(* clients agree, and are those of the ADC, whenever the phases run.       *)
(***************************************************************************)
EXTENDS AviClientInit, TLAPS

\* The three kinds of client are told apart by their field kind.
LEMMA Kinds ==
  /\ Nil.kind = "nil" /\ TypedNil.kind = "typedNil"
  /\ \A r \in RealClient : r.kind = "real" /\ r.ctrl \in Controllers /\ r.ca \in AllCAs
  /\ \A r \in ClientType : r.kind = "real" => r \in RealClient
  /\ \A r \in ClientType : r.kind # "real" => r \in {Nil, TypedNil}
<1>1. Nil.kind = "nil" /\ TypedNil.kind = "typedNil"
  BY DEF Nil, TypedNil
<1>2. \A r \in RealClient : r.kind = "real" /\ r.ctrl \in Controllers /\ r.ca \in AllCAs
  BY DEF RealClient
<1>3. "nil" # "real" /\ "typedNil" # "real"
  OBVIOUS
<1> QED
  BY Zenon, <1>1, <1>2, <1>3 DEF ClientType

LEMMA InitType == Init => TypeOK
<1> SUFFICES ASSUME Init PROVE TypeOK
  OBVIOUS
<1>1. 0 \in Versions /\ 0 \in 0..MaxFaults /\ 0 \in 0..MaxChanges
  BY ConstantsAssumption DEF Versions
<1>2. pc \in Phase /\ pc = "idle"
  BY DEF Init, Phase
<1> QED
  BY Zenon, <1>1, <1>2 DEF Init, TypeOK, ClientType

\* A Secret holds a CA of its ADC.
LEMMA SecretFacts ==
  ASSUME TypeOK, NEW a \in ADCs, secretCA[a] # Missing
  PROVE  secretCA[a] \in CAs[a] /\ secretCA[a] \in AllCAs
  BY DEF TypeOK, AllCAs

LEMMA FaultType ==
  ASSUME TypeOK, NEW k, UNCHANGED faults \/ Fault(k)
  PROVE  faults' \in 0..MaxFaults
  BY ConstantsAssumption DEF TypeOK, Fault

LEMMA NewClientType ==
  ASSUME TypeOK, NEW v \in Versions, NEW next \in {"version", "unlock"}, cur \in ADCs,
         NewAviClientFromSecrets(v, next)
  PROVE  /\ TypeOK'
         /\ pc' = next => /\ client'.kind = "real" /\ client'.ctrl = Controller[cur]
                          /\ client'.ca \in CAs[cur]
         /\ pc' # next => client' = TypedNil /\ pc' = "save"
         /\ UNCHANGED <<user, locked, newCa, reInit, cur>>
<1>1. CASE /\ secretCA[cur] # Missing
           /\ client' = [kind |-> "real", ctrl |-> Controller[cur], ca |-> secretCA[cur],
                         version |-> v]
           /\ pc' = next
           /\ UNCHANGED faults
  <2>1. secretCA[cur] \in CAs[cur] /\ secretCA[cur] \in AllCAs
    BY <1>1, SecretFacts
  <2>2. Controller[cur] \in Controllers
    BY DEF Controllers, TypeOK
  <2>3. client' \in RealClient
    BY <1>1, <2>1, <2>2 DEF RealClient
  <2>4. client'.kind = "real" /\ client'.ctrl = Controller[cur] /\ client'.ca \in CAs[cur]
    BY <1>1, <2>1
  <2>5. pc' \in Phase
    BY <1>1 DEF Phase
  <2>6. UNCHANGED <<worldVars, user, locked, localVars, faults>>
    BY <1>1 DEF NewAviClientFromSecrets
  <2>7. TypeOK'
    BY Zenon, <2>3, <2>5, <2>6 DEF TypeOK, worldVars, localVars, ClientType
  <2> QED
    BY Zenon, <1>1, <2>4, <2>6, <2>7 DEF localVars
<1>2. CASE /\ IF secretCA[cur] = Missing THEN UNCHANGED faults ELSE Fault("new")
           /\ client' = TypedNil
           /\ pc' = "save"
  <2>1. faults' \in 0..MaxFaults
    BY <1>2, FaultType
  <2>2. UNCHANGED <<worldVars, user, locked, localVars>>
    BY DEF NewAviClientFromSecrets
  <2>3. pc' \in Phase /\ pc' # next
    BY <1>2 DEF Phase
  <2>4. client' \in ClientType
    BY Zenon, <1>2 DEF ClientType
  <2>5. TypeOK'
    BY Zenon, <2>1, <2>2, <2>3, <2>4 DEF TypeOK, worldVars, localVars
  <2> QED
    BY Zenon, <1>2, <2>2, <2>3, <2>5 DEF localVars
<1> QED
  BY Zenon, <1>1, <1>2 DEF NewAviClientFromSecrets

LEMMA NextType == TypeOK /\ InitInv /\ [Next]_vars => TypeOK'
<1> SUFFICES ASSUME TypeOK, InitInv, [Next]_vars PROVE TypeOK'
  OBVIOUS
<1>1. ASSUME NEW a \in ADCs, StartReconcile(a) PROVE TypeOK'
  <2>1. pc' \in Phase
    BY <1>1 DEF StartReconcile, Phase
  <2>2. adcVersion[a] \in Versions
    BY DEF TypeOK
  <2> QED
    BY Zenon, <1>1, <2>1, <2>2 DEF StartReconcile, TypeOK, worldVars
<1>2. CASE ReadCA
  <2>1. pc = "init" /\ cur \in ADCs /\ cur' = cur
    BY <1>2 DEF ReadCA, TypeOK
  <2>2. pc' \in Phase /\ faults' \in 0..MaxFaults
    BY <1>2, FaultType DEF ReadCA, Phase
  <2>3. newCa' \in AllCAs \cup {EmptyCA} /\ reInit' \in BOOLEAN
    BY Zenon, <1>2, <2>1, SecretFacts DEF ReadCA, ReInit, TypeOK
  <2> QED
    BY Zenon, <1>2, <2>1, <2>2, <2>3 DEF ReadCA, TypeOK, worldVars
<1>3. CASE Lock
  <2>1. pc' \in Phase /\ cur' = cur /\ cur \in ADCs
    BY <1>3 DEF Lock, Phase, TypeOK, localVars
  <2> QED
    BY Zenon, <1>3, <2>1 DEF Lock, TypeOK, worldVars, localVars
<1>4. CASE NewClient
  BY <1>4, NewClientType DEF NewClient, TypeOK
<1>5. CASE GetControllerVersion
  <2>1. pc = "version" /\ cur \in ADCs /\ cur' = cur
    BY <1>5 DEF GetControllerVersion, TypeOK
  <2>2. client.ctrl \in Controllers
    BY <2>1, Kinds DEF InitInv, AtStep, TypeOK
  <2>3. version' \in Versions
    BY <1>5, <2>2 DEF GetControllerVersion, TypeOK
  <2>4. pc' \in Phase /\ faults' \in 0..MaxFaults
    BY <1>5, FaultType DEF GetControllerVersion, Phase
  <2> QED
    BY Zenon, <1>5, <2>1, <2>3, <2>4 DEF GetControllerVersion, TypeOK, worldVars
<1>6. CASE RenewClient
  BY <1>6, NewClientType DEF RenewClient, TypeOK
<1>7. CASE Unlock
  <2>1. pc' \in Phase /\ cur' = cur /\ cur \in ADCs
    BY <1>7 DEF Unlock, Phase, TypeOK, localVars
  <2>2. client \in RealClient
    BY <1>7, Kinds DEF Unlock, InitInv, AtStep, TypeOK
  <2>3. user' \in RealClient \cup {Nil}
    BY Zenon, <1>7, <2>2 DEF Unlock, TypeOK
  <2> QED
    BY Zenon, <1>7, <2>1, <2>3 DEF Unlock, TypeOK, worldVars, localVars
<1>8. CASE RunPhases
  <2>1. pc = "phases" /\ cur \in ADCs /\ cur' = cur
    BY <1>8 DEF RunPhases, TypeOK
  <2>2. client.ctrl \in Controllers
    BY <2>1, Kinds DEF InitInv, AtStep, TypeOK
  <2>3. objVersion' \in Versions
    BY <1>8, <2>2 DEF RunPhases, ControllerVersion, TypeOK
  <2>4. pc' \in Phase /\ faults' \in 0..MaxFaults
    BY <1>8, FaultType DEF RunPhases, Phase
  <2> QED
    BY Zenon, <1>8, <2>1, <2>3, <2>4 DEF RunPhases, TypeOK, worldVars
<1>9. CASE Save
  <2>1. pc' = "idle" /\ pc' \in Phase /\ faults' \in 0..MaxFaults
    BY <1>9, FaultType DEF Save, Phase
  <2>2. adcVersion' \in [ADCs -> Versions]
    BY <1>9 DEF Save, TypeOK
  <2> QED
    BY Zenon, <1>9, <2>1, <2>2 DEF Save, TypeOK
<1>10. CASE Restart
  <2>1. pc' = "idle" /\ pc' \in Phase /\ faults' \in 0..MaxFaults
    BY <1>10, FaultType DEF Restart, Phase
  <2> QED
    BY Zenon, <1>10, <2>1 DEF Restart, TypeOK, worldVars, ClientType
<1>11. CASE World
  <2>1. changes' \in 0..MaxChanges
    BY <1>11, ConstantsAssumption DEF World, RotateCA, Upgrade, Change, TypeOK
  <2>2. UNCHANGED <<adcVersion, client, user, locked, pc, localVars, faults>>
    BY <1>11 DEF World, RotateCA, Upgrade
  <2>3. /\ secretCA' \in [ADCs -> AllCAs \cup {Missing}]
        /\ \A a \in ADCs : secretCA'[a] \in CAs[a] \cup {Missing}
    BY <1>11 DEF World, RotateCA, Upgrade, TypeOK, AllCAs
  <2>4. actual' \in [Controllers -> Versions]
    BY <1>11, ConstantsAssumption
    DEF World, RotateCA, Upgrade, TypeOK, Versions
  <2> QED
    BY Zenon, <2>1, <2>2, <2>3, <2>4 DEF TypeOK, localVars
<1>12. CASE UNCHANGED vars
  BY Zenon, <1>12 DEF vars, TypeOK, worldVars, localVars
<1> QED
  BY Zenon, <1>1, <1>2, <1>3, <1>4, <1>5, <1>6, <1>7, <1>8, <1>9, <1>10, <1>11, <1>12
  DEF Next, Step

-----------------------------------------------------------------------------
LEMMA InitInit == Init => InitInv
  BY Kinds DEF Init, InitInv, CaNamesController, FreeMeansAgreed, AtStep

\* A failed or finished step: the worker is where nothing is claimed of it.
LEMMA ElsewhereKeeps ==
  ASSUME InitInv, pc' \in {"idle", "init", "save", "panic"},
         UNCHANGED <<client, user, locked>>
  PROVE  InitInv'
  BY DEF InitInv, CaNamesController, FreeMeansAgreed, AtStep

\* NewAviClientFromSecrets, first or second.
LEMMA NewClientKeeps ==
  ASSUME TypeOK, InitInv, NEW v \in Versions, cur \in ADCs,
         NEW next \in {"version", "unlock"}, pc \in {"new", "renew"},
         NewAviClientFromSecrets(v, next)
  PROVE  InitInv'
<1>1. /\ pc' = next => /\ client'.kind = "real" /\ client'.ctrl = Controller[cur]
                       /\ client'.ca \in CAs[cur]
      /\ pc' # next => client' = TypedNil /\ pc' = "save"
      /\ UNCHANGED <<user, locked, newCa, reInit, cur>>
  BY NewClientType
<1>2. locked /\ (user = Nil \/ reInit) /\ newCa \in CAs[cur]
  BY DEF InitInv, AtStep
<1>3. CASE pc' = next
  BY <1>1, <1>2, <1>3 DEF InitInv, CaNamesController, FreeMeansAgreed, AtStep
<1>4. CASE pc' # next
  BY <1>1, <1>2, <1>4, Kinds DEF InitInv, CaNamesController, FreeMeansAgreed, AtStep
<1> QED
  BY <1>3, <1>4

LEMMA LockKeeps ==
  ASSUME TypeOK, InitInv, Lock
  PROVE  InitInv'
<1>1. /\ pc = "lock" /\ ~locked /\ locked' /\ newCa \in CAs[cur] /\ cur \in ADCs
      /\ client # TypedNil /\ reInit = (CaOf(client) # newCa)
      /\ UNCHANGED <<client, user, cur, newCa, reInit>>
  BY DEF Lock, InitInv, AtStep, TypeOK, localVars
<1>2. (client = Nil /\ user = Nil) \/ (client.kind = "real" /\ user = client)
  BY <1>1 DEF InitInv, FreeMeansAgreed
<1>3. CaNamesController' /\ FreeMeansAgreed'
  BY <1>1 DEF InitInv, CaNamesController, FreeMeansAgreed
<1>4. CASE client = Nil \/ reInit
  BY <1>1, <1>2, <1>3, <1>4 DEF Lock, InitInv, AtStep
<1>5. CASE client # Nil /\ ~reInit
  <2>1. pc' = "unlock" /\ client.kind = "real" /\ user = client
    BY <1>2, <1>5 DEF Lock
  <2>2. client.ca = newCa
    BY Zenon, <1>1, <1>5 DEF CaOf
  <2>3. PICK a \in ADCs : client.ctrl = Controller[a] /\ client.ca \in CAs[a]
    BY <2>1 DEF InitInv, CaNamesController
  <2>4. DistinctCAs => client.ctrl = Controller[cur]
    BY <1>1, <2>2, <2>3 DEF DistinctCAs
  <2> QED
    BY <1>1, <1>3, <2>1, <2>4 DEF InitInv, AtStep, DistinctCAs
<1> QED
  BY <1>4, <1>5

LEMMA NextInit == TypeOK /\ InitInv /\ [Next]_vars => InitInv'
<1> SUFFICES ASSUME TypeOK, InitInv, [Next]_vars PROVE InitInv'
  OBVIOUS
<1>1. CASE (\E a \in ADCs : StartReconcile(a)) \/ RunPhases \/ Save
  BY <1>1, ElsewhereKeeps DEF StartReconcile, RunPhases, Save
<1>2. CASE ReadCA
  <2>1. CASE pc' # "lock"
    BY <1>2, <2>1, ElsewhereKeeps DEF ReadCA
  <2>2. CASE pc' = "lock"
    <3>1. /\ client # TypedNil /\ secretCA[cur] # Missing /\ newCa' = secretCA[cur]
          /\ reInit' = (CaOf(client) # newCa') /\ cur \in ADCs
          /\ UNCHANGED <<client, user, locked, cur>>
      BY <1>2, <2>2 DEF ReadCA, ReInit, TypeOK
    <3>2. newCa' \in CAs[cur]
      BY <3>1, SecretFacts
    <3> QED
      BY <2>2, <3>1, <3>2 DEF InitInv, CaNamesController, FreeMeansAgreed, AtStep, CaOf
  <2> QED
    BY <2>1, <2>2
<1>3. CASE Lock
  BY <1>3, LockKeeps
<1>4. CASE NewClient
  <2>1. pc = "new" /\ cur \in ADCs /\ objVersion \in Versions
    BY <1>4 DEF NewClient, TypeOK
  <2> QED
    BY <1>4, <2>1, NewClientKeeps DEF NewClient
<1>5. CASE GetControllerVersion
  BY <1>5 DEF GetControllerVersion, InitInv, CaNamesController, FreeMeansAgreed, AtStep
<1>6. CASE RenewClient
  <2>1. pc = "renew" /\ cur \in ADCs /\ version \in Versions
    BY <1>6 DEF RenewClient, TypeOK
  <2> QED
    BY <1>6, <2>1, NewClientKeeps DEF RenewClient
<1>7. CASE Unlock
  <2>1. /\ pc = "unlock" /\ pc' = "phases" /\ ~locked' /\ client.kind = "real"
        /\ DistinctCAs => client.ctrl = Controller[cur]
        /\ user = Nil \/ reInit \/ user = client
        /\ UNCHANGED <<client, cur>>
    BY <1>7 DEF Unlock, InitInv, AtStep, localVars
  <2>2. user' = client
    BY <1>7, <2>1 DEF Unlock, NewUserReconciler
  <2> QED
    BY <2>1, <2>2 DEF InitInv, CaNamesController, FreeMeansAgreed, AtStep, DistinctCAs
<1>8. CASE Restart
  BY <1>8, Kinds DEF Restart, InitInv, CaNamesController, FreeMeansAgreed, AtStep
<1>9. CASE World \/ UNCHANGED vars
  <2>1. UNCHANGED <<client, user, locked, pc, cur, newCa, reInit>>
    BY <1>9 DEF World, RotateCA, Upgrade, vars, localVars
  <2> QED
    BY <2>1 DEF InitInv, CaNamesController, FreeMeansAgreed, AtStep, CaOf, DistinctCAs
<1> QED
  BY <1>1, <1>2, <1>3, <1>4, <1>5, <1>6, <1>7, <1>8, <1>9 DEF Next, Step

\* Types and positions together: whatever fails or is rotated between two steps
\* of initAVI, what it knows of the clients holds.
THEOREM InitInvariant == Spec => [](TypeOK /\ InitInv)
  BY InitType, InitInit, NextType, NextInit, PTL DEF Spec

\* Every variable of initAVI keeps its type, whatever fails between Lock and Unlock.
THEOREM TypeCorrect == Spec => []TypeOK
  BY InitInvariant, PTL

\* The phases never run with two different clients, or with a nil one.
THEOREM PhasesUseOneClient == Spec => []ClientsAgree
<1>1. TypeOK /\ InitInv => ClientsAgree
  BY DEF InitInv, AtStep, FreeMeansAgreed, ClientsAgree, Nil
<1> QED
  BY <1>1, InitInvariant, PTL

\* If CAs tell AVI controllers apart, the phases of an ADC talk to its own.
THEOREM PhasesUseOwnController ==
  ASSUME DistinctCAs
  PROVE  Spec => []OwnController
<1>1. TypeOK /\ InitInv => OwnController
  BY DEF InitInv, AtStep, FreeMeansAgreed, OwnController, Nil
<1> QED
  BY <1>1, InitInvariant, PTL
=============================================================================
