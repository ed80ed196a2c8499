----------------------------- MODULE AviClientInit -----------------------------
(***************************************************************************)
(* The client of the AVI controller that the ADC controller keeps between  *)
(* reconciles: initAVI creates it lazily, again when the controller's CA   *)
(* has changed, and hands it to the user reconciler.  One reconciler, and  *)
(* so one client, serves all ADCs.                                         *)
(*                                                                         *)
(* Processes: the one worker of the ADC controller, step by step through   *)
(* initAVI; users who rotate CAs; AVI controllers that are upgraded;       *)
(* restarts.  Secrets are read uncached (main.go).                         *)
(*                                                                         *)
(* Abstractions: credentials are left out, since nothing but the creation  *)
(* of a client looks at them; of the phases after initAVI only             *)
(* reconcileControllerVersion is here, because the client's version        *)
(* depends on it; the ADC is read without delay, since nobody else writes  *)
(* the field read from it.                                                 *)
(***************************************************************************)
EXTENDS Naturals

CONSTANTS
  ADCs,        \* the AKODeploymentConfigs
  Controller,  \* the AVI controller of each, spec.controller
  CAs,         \* the CAs the Secret of each ADC may hold
  EmptyCA,     \* what a nil client answers for its CA
  Missing,     \* the CA Secret is not there
  NoADC,       \* the worker is idle
  FaultKinds,  \* which calls may fail
  MaxFaults,   \* and how often in all
  MaxChanges   \* how many rotations and upgrades there are

AllFaults == {"ca", "new", "version", "phase", "save", "crash"}

ASSUME ConstantsAssumption ==
  /\ NoADC \notin ADCs
  /\ DOMAIN Controller = ADCs /\ DOMAIN CAs = ADCs
  /\ \A a \in ADCs : CAs[a] # {} /\ Missing \notin CAs[a]
  /\ FaultKinds \subseteq AllFaults
  /\ MaxFaults \in Nat /\ MaxChanges \in Nat

VARIABLES
  secretCA,    \* the CA in the Secret each ADC refers to, or Missing
  adcVersion,  \* spec.controllerVersion of each ADC
  actual,      \* the version each AVI controller runs
  client,      \* r.aviClient
  user,        \* the client of r.userReconciler
  locked,      \* the package's mutex
  pc,          \* where the worker is
  cur,         \* the ADC it reconciles
  readVersion, \* spec.controllerVersion as read, and as changed in memory
  objVersion,
  newCa,       \* the locals of initAVI
  reInit,
  version,
  faults, changes

localVars == <<cur, readVersion, objVersion, newCa, reInit, version>>
worldVars == <<secretCA, adcVersion, actual, changes>>
vars == <<worldVars, client, user, locked, pc, localVars, faults>>

Controllers == {Controller[a] : a \in ADCs}
AllCAs == UNION {CAs[a] : a \in ADCs}
Versions == 0..MaxChanges

\* An interface that is nil; one that holds a nil *realAviClient, as after a
\* failed NewAviClientFromSecrets; and a client.
Nil == [kind |-> "nil"]
TypedNil == [kind |-> "typedNil"]
RealClient == [kind: {"real"}, ctrl: Controllers, ca: AllCAs, version: Versions]
ClientType == RealClient \cup {Nil, TypedNil}

Phase == {"idle", "init", "lock", "new", "version", "renew", "unlock", "phases",
          "save", "panic"}

TypeOK ==
  /\ secretCA \in [ADCs -> AllCAs \cup {Missing}]
  /\ \A a \in ADCs : secretCA[a] \in CAs[a] \cup {Missing}
  /\ adcVersion \in [ADCs -> Versions]
  /\ actual \in [Controllers -> Versions]
  /\ client \in ClientType /\ user \in RealClient \cup {Nil}
  /\ locked \in BOOLEAN /\ reInit \in BOOLEAN
  /\ pc \in Phase
  /\ cur \in ADCs \cup {NoADC} /\ (pc \notin {"idle", "panic"} => cur \in ADCs)
  /\ readVersion \in Versions /\ objVersion \in Versions /\ version \in Versions
  /\ newCa \in AllCAs \cup {EmptyCA}
  /\ faults \in 0..MaxFaults /\ changes \in 0..MaxChanges

Init ==
  /\ secretCA \in {f \in [ADCs -> AllCAs \cup {Missing}] :
                     \A a \in ADCs : f[a] \in CAs[a] \cup {Missing}}
  /\ adcVersion = [a \in ADCs |-> 0]
  /\ actual = [k \in Controllers |-> 0]
  /\ client = Nil /\ user = Nil /\ locked = FALSE
  /\ pc = "idle" /\ cur = NoADC
  /\ readVersion = 0 /\ objVersion = 0 /\ version = 0
  /\ newCa = EmptyCA /\ reInit = FALSE
  /\ faults = 0 /\ changes = 0

Fault(k) == k \in FaultKinds /\ faults < MaxFaults /\ faults' = faults + 1

-----------------------------------------------------------------------------
\* Reconcile reads the ADC.
StartReconcile(a) ==
  /\ pc = "idle"
  /\ pc' = "init" /\ cur' = a
  /\ readVersion' = adcVersion[a] /\ objVersion' = adcVersion[a]
  /\ UNCHANGED <<worldVars, client, user, locked, newCa, reInit, version, faults>>

CaOf(cl) == IF cl = Nil THEN EmptyCA ELSE cl.ca

\* Mutant: a client, once there, is kept.
MutantNeverAgain(cl, ca) == FALSE

ReInit(cl, ca) == CaOf(cl) # ca

\* initAVI up to the lock.  AviCertificateConfig reads a field of the client,
\* and panics on a typed nil, which "!= nil" does not tell from a client.
ReadCA ==
  /\ pc = "init"
  /\ \/ /\ client = TypedNil
        /\ pc' = "panic"
        /\ UNCHANGED <<newCa, reInit, faults>>
     \/ /\ client # TypedNil /\ secretCA[cur] # Missing
        /\ newCa' = secretCA[cur] /\ reInit' = ReInit(client, secretCA[cur])
        /\ pc' = "lock"
        /\ UNCHANGED faults
     \/ /\ client # TypedNil
        /\ IF secretCA[cur] = Missing THEN UNCHANGED faults ELSE Fault("ca")
        /\ pc' = "save"
        /\ UNCHANGED <<newCa, reInit>>
  /\ UNCHANGED <<worldVars, client, user, locked, cur, readVersion, objVersion, version>>

Lock ==
  /\ pc = "lock" /\ ~locked
  /\ locked' = TRUE
  /\ pc' = IF client = Nil \/ reInit THEN "new" ELSE "unlock"
  /\ UNCHANGED <<worldVars, client, user, localVars, faults>>

\* NewAviClientFromSecrets for version v, which reads both Secrets itself.  On
\* an error the reconciler's client is a typed nil and the lock is kept.
NewAviClientFromSecrets(v, next) ==
  /\ \/ /\ secretCA[cur] # Missing
        /\ client' = [kind |-> "real", ctrl |-> Controller[cur], ca |-> secretCA[cur],
                      version |-> v]
        /\ pc' = next
        /\ UNCHANGED faults
     \/ /\ IF secretCA[cur] = Missing THEN UNCHANGED faults ELSE Fault("new")
        /\ client' = TypedNil
        /\ pc' = "save"
  /\ UNCHANGED <<worldVars, user, locked, localVars>>

NewClient == pc = "new" /\ NewAviClientFromSecrets(objVersion, "version")

\* Mutant: a failed GetControllerVersion is taken for a matching version.
MutantVersionErrorIgnored ==
  /\ pc = "version"
  /\ \/ /\ version' = actual[client.ctrl]
        /\ pc' = IF objVersion # actual[client.ctrl] THEN "renew" ELSE "unlock"
        /\ UNCHANGED faults
     \/ /\ Fault("version")
        /\ pc' = "phases"
        /\ UNCHANGED version
  /\ UNCHANGED <<worldVars, client, user, locked, cur, readVersion, objVersion,
                 newCa, reInit>>

\* An error keeps the lock here too, and the client of the unknown version.
GetControllerVersion ==
  /\ pc = "version"
  /\ \/ /\ version' = actual[client.ctrl]
        /\ pc' = IF objVersion # actual[client.ctrl] THEN "renew" ELSE "unlock"
        /\ UNCHANGED faults
     \/ /\ Fault("version")
        /\ pc' = "save"
        /\ UNCHANGED version
  /\ UNCHANGED <<worldVars, client, user, locked, cur, readVersion, objVersion,
                 newCa, reInit>>

RenewClient == pc = "renew" /\ NewAviClientFromSecrets(version, "unlock")

\* Mutant: the user reconciler is created once.
MutantUserOnce == user = Nil

NewUserReconciler == user = Nil \/ reInit

Unlock ==
  /\ pc = "unlock"
  /\ locked' = FALSE
  /\ user' = IF NewUserReconciler THEN client ELSE user
  /\ pc' = "phases"
  /\ UNCHANGED <<worldVars, client, localVars, faults>>

\* Mutant: the version the client was created with.
MutantClientVersion == client.version

ControllerVersion == actual[client.ctrl]

\* The phases of reconcileAVI; here, reconcileControllerVersion.
RunPhases ==
  /\ pc = "phases"
  /\ \/ objVersion' = ControllerVersion /\ UNCHANGED faults
     \/ Fault("phase") /\ UNCHANGED objVersion
  /\ pc' = "save"
  /\ UNCHANGED <<worldVars, client, user, locked, cur, readVersion, newCa, reInit, version>>

\* Reconcile's deferred patch: the difference to the ADC as read.
Save ==
  /\ pc = "save"
  /\ \/ /\ adcVersion' = IF objVersion # readVersion
                           THEN [adcVersion EXCEPT ![cur] = objVersion] ELSE adcVersion
        /\ UNCHANGED faults
     \/ Fault("save") /\ UNCHANGED adcVersion
  /\ pc' = "idle" /\ cur' = NoADC
  /\ UNCHANGED <<secretCA, actual, changes, client, user, locked,
                 readVersion, objVersion, newCa, reInit, version>>

\* A panic ends the process; so may anything else.  The next one starts afresh.
Restart ==
  /\ IF pc = "panic" THEN UNCHANGED faults ELSE Fault("crash")
  /\ client' = Nil /\ user' = Nil /\ locked' = FALSE
  /\ pc' = "idle" /\ cur' = NoADC
  /\ UNCHANGED <<worldVars, readVersion, objVersion, newCa, reInit, version>>

-----------------------------------------------------------------------------
Change == changes < MaxChanges /\ changes' = changes + 1

RotateCA(a, ca) ==
  /\ Change /\ secretCA[a] # ca
  /\ secretCA' = [secretCA EXCEPT ![a] = ca]
  /\ UNCHANGED <<adcVersion, actual, client, user, locked, pc, localVars, faults>>

Upgrade(k) ==
  /\ Change /\ actual[k] < MaxChanges
  /\ actual' = [actual EXCEPT ![k] = @ + 1]
  /\ UNCHANGED <<secretCA, adcVersion, client, user, locked, pc, localVars, faults>>

Step ==
  \/ ReadCA \/ Lock \/ NewClient \/ GetControllerVersion \/ RenewClient \/ Unlock
  \/ RunPhases \/ Save

World ==
  \/ \E a \in ADCs : \E ca \in CAs[a] \cup {Missing} : RotateCA(a, ca)
  \/ \E k \in Controllers : Upgrade(k)

Next == (\E a \in ADCs : StartReconcile(a)) \/ Step \/ Restart \/ World

Spec == Init /\ [][Next]_vars

\* The worker runs, the operator is restarted after a panic, and every ADC is
\* reconciled again and again (each resync at the latest).
Fairness ==
  /\ WF_vars(Step)
  /\ WF_vars(pc = "panic" /\ Restart)
  /\ \A a \in ADCs : SF_vars(StartReconcile(a))

FairSpec == Spec /\ Fairness

-----------------------------------------------------------------------------
\* When the phases run, the user reconciler and the reconciler itself use one
\* and the same client (initAVI's reInit; an init that failed half way never
\* gets here, because it leaves the lock behind).
ClientsAgree == pc = "phases" => client.kind = "real" /\ user = client

\* Do different AVI controllers have different CAs?
DistinctCAs ==
  \A a, b \in ADCs : Controller[a] # Controller[b] => CAs[a] \cap CAs[b] = {}

\* The phases of an ADC talk to the AVI controller of that ADC, although all
\* ADCs share one client and only CAs are compared (initAVI).
OwnController ==
  pc = "phases" => client.ctrl = Controller[cur] /\ user.ctrl = Controller[cur]

\* The worker waits for a lock that a failed initAVI has left behind.
Stuck == pc = "lock" /\ locked

\* Once a CA stays in the Secret, the phases of its ADC run again and again, in
\* the end always with that CA, even if it changed while initAVI was between
\* reading it for the comparison and reading it for the client.  Only the lock
\* that ReconcilesEnd is about stops them.
CAFollowed ==
  \A a \in ADCs : \A ca \in CAs[a] :
    <>[](secretCA[a] = ca) =>
      \/ <>[]Stuck
      \/ /\ []<>(pc = "phases" /\ cur = a)
         /\ <>[]((pc = "phases" /\ cur = a) => client.ca = ca)

\* spec.controllerVersion follows the version of the AVI controller, upgrades
\* included, as long as the CA can be read (reconcileControllerVersion) and the
\* worker is not stuck.
VersionFollowed ==
  \A a \in ADCs : \A v \in Versions :
    <>[](actual[Controller[a]] = v /\ secretCA[a] # Missing) =>
      <>[]Stuck \/ <>[](adcVersion[a] = v)

\* "Lazily initialize aviClient so we don't skip other reconciliations": a
\* reconcile that has begun ends.
ReconcilesEnd == pc # "idle" ~> pc = "idle"

\* A failed initialization is returned as an error and tried again: no step of
\* the worker panics.
NoPanic == pc # "panic"

-----------------------------------------------------------------------------
(***************************************************************************)
(* The inductive invariant.  While the lock is free, the two clients agree *)
(* and belong to a controller that their CA names; the worker's position   *)
(* says what its locals know of them.  A lock left behind keeps the worker *)
(* from ever using a half-initialized client.                              *)
(***************************************************************************)

CaNamesController ==
  client.kind = "real" =>
    \E a \in ADCs : client.ctrl = Controller[a] /\ client.ca \in CAs[a]

FreeMeansAgreed ==
  ~locked => (client = Nil /\ user = Nil) \/ (client.kind = "real" /\ user = client)

AtStep ==
  /\ pc \in {"lock", "new", "version", "renew", "unlock"} => newCa \in CAs[cur]
  /\ pc = "lock" => client # TypedNil /\ reInit = (CaOf(client) # newCa)
  /\ pc \in {"new", "version", "renew"} => locked /\ (user = Nil \/ reInit)
  /\ pc \in {"version", "renew", "unlock", "phases"} =>
       client.kind = "real" /\ (DistinctCAs => client.ctrl = Controller[cur])
  /\ pc = "unlock" => locked /\ (user = Nil \/ reInit \/ user = client)
  /\ pc = "phases" => ~locked

\* What initAVI knows of the two clients at each of its steps.
InitInv == CaNamesController /\ FreeMeansAgreed /\ AtStep
=============================================================================
