------------------------- MODULE OtelcolSystemProofs -------------------------
(***************************************************************************)
(* Proofs about the extension in its environment, for every set of        *)
(* payloads and every bound on faults and environment changes.            *)
(***************************************************************************)
EXTENDS OtelcolSystem, TLAPS

USE PayloadsAssumption, MaxFaultsAssumption, MaxEditsAssumption

(* A returning method leaves the worker well typed: the results and the   *)
(* counter labels it adds are those of the actuator.                       *)
LEMMA ReturnTyped ==
    ASSUME TypeOK, NEW r \in Results, NEW k \in SUBSET Triggers, Return(r, k)
    PROVE  worker' \in Workers /\ worker'.pc = "done" /\ worker'.result = r
           /\ worker'.trigger = worker.trigger
BY DEF TypeOK, Return, Workers, WrapperCount, Triggers, Results, Steps

(* The trigger the controller chooses is one of the actuator's methods. *)
LEMMA TriggerForTyped ==
    ASSUME NEW e \in ExtensionResources
    PROVE  TriggerFor(e) \in Triggers
BY DEF TriggerFor, Triggers, ExtensionResources, Operations

(* The gate the actuator is built with is one of the three outcomes of   *)
(* the lookup.                                                             *)
LEMMA GateOfTyped ==
    ASSUME NEW feats \in FeatureGateMaps
    PROVE  GateOf(feats) \in GateValues
BY Zenon DEF GateValues

(* The initial states are well typed. *)
LEMMA InitTyped == Init => TypeOK
<1> SUFFICES ASSUME Init PROVE TypeOK
  OBVIOUS
<1>1. IdleWorker \in Workers
  BY DEF IdleWorker, Workers, Steps, Results
<1>2. NoExtensionResource \in ExtensionResources
  BY DEF NoExtensionResource, ExtensionResources, DeletionStates, Operations, LastOps
<1>3. shoot \in Shoots(Payloads) /\ shoot.hibernated \in BOOLEAN
  BY DEF Init, Shoots
<1>4. /\ faults \in 0..MaxFaults /\ edits \in 0..MaxEdits
      /\ mr \in {{}, RenderedObjects} /\ mrCfg \in Payloads \cup {NilPayload}
  BY DEF Init
<1>6. gate \in GateValues
  BY GateOfTyped DEF Init
<1>5. QED
  BY <1>1, <1>2, <1>3, <1>4, <1>6 DEF Init, TypeOK

(* One step of any actor keeps the state well typed. *)
LEMMA TypeStep == TypeOK /\ [Next]_vars => TypeOK'
<1> SUFFICES ASSUME TypeOK, [Next]_vars PROVE TypeOK'
  OBVIOUS
<1>1. CASE TenantUpdate
  BY <1>1 DEF TenantUpdate, TypeOK, Shoots, actuatorVars
<1>2. CASE TenantDelete
  <2>1. shoot' \in Shoots(Payloads)
    BY <1>2, Zenon DEF TenantDelete, TypeOK, Shoots
  <2>2. QED
    BY <1>2, <2>1 DEF TenantDelete, TypeOK, actuatorVars
<1>3. CASE AnnotateOperation
  BY <1>3 DEF AnnotateOperation, TypeOK, ExtensionResources, Operations, actuatorVars
<1>4. CASE Redeploy
  <2>1. gate' \in GateValues
    BY <1>4, GateOfTyped DEF Redeploy
  <2>2. QED
    BY <1>4, <2>1 DEF Redeploy, TypeOK, IdleWorker, Workers, Steps, Results
<1>13. CASE StartWebhookServer
  BY <1>13 DEF StartWebhookServer, TypeOK, actuatorVars
<1>5. CASE GardenletSync
  <2>1. ExtensionWanted(shoot) => shoot.ext.providerConfig \in Payloads \cup {NilPayload}
    <3>1. shoot.ext \in ExtensionEntries(Payloads)
      BY DEF TypeOK, Shoots
    <3>2. CASE shoot.ext = NoExtension
      BY <3>2 DEF NoExtension, ExtensionWanted, ExtensionEnabled
    <3>3. CASE shoot.ext \in [present : {TRUE}, disabled : Tri,
                                providerConfig : Payloads \cup {NilPayload}]
      BY <3>3
    <3>4. QED
      BY <3>1, <3>2, <3>3 DEF ExtensionEntries
  <2>2. ext' \in ExtensionResources
    <3>1. CASE ExtensionWanted(shoot) /\ ext.deleting = "no"
              /\ ext' = [ext EXCEPT !.exists = TRUE,
                                    !.providerConfig = shoot.ext.providerConfig,
                                    !.admitted = shootAdmitted, !.op = "reconcile"]
      BY <2>1, <3>1 DEF TypeOK, ExtensionResources, Operations
    <3>2. CASE \E d \in {"delete", "force"} : ext' = [ext EXCEPT !.deleting = d]
      BY <3>2 DEF TypeOK, ExtensionResources, DeletionStates
    <3>3. CASE UNCHANGED ext
      BY <3>3 DEF TypeOK
    <3>4. QED
      BY <1>5, <3>1, <3>2, <3>3 DEF GardenletSync
  <2>3. shoot.hibernated \in BOOLEAN
    BY DEF TypeOK, Shoots
  <2>4. QED
    BY <1>5, <2>2, <2>3 DEF GardenletSync, TypeOK
<1>6. CASE Dispatch
  <2>1. TriggerFor(ext) \in Triggers
    BY TriggerForTyped DEF TypeOK
  <2>2. QED
    BY <1>6, <2>1 DEF Dispatch, Call, TypeOK, IdleWorker, Workers, Steps,
                      Results, ExtensionResources, LastOps, Operations
<1>7. CASE Complete
  BY <1>7 DEF Complete, TypeOK, IdleWorker, Workers, Steps, Results,
              NoExtensionResource, ExtensionResources, DeletionStates,
              Operations, LastOps
<1>8. CASE ActuatorSteps /\ ReconcileGetCluster
  <2>1. CASE ~GateOn(gate) /\ worker' = [worker EXCEPT !.pc = "delete"]
              /\ UNCHANGED faults
    BY <1>8, <2>1 DEF ReconcileGetCluster, ActuatorSteps, TypeOK, Workers, Steps
  <2>2. CASE GateOn(gate)
              /\ worker' = [worker EXCEPT !.pc = "apply", !.hibernated = clusterHibernated]
              /\ UNCHANGED faults
    BY <1>8, <2>2 DEF ReconcileGetCluster, ActuatorSteps, TypeOK, Workers, Steps
  <2>3. CASE faults < MaxFaults /\ faults' = faults + 1 /\ Return("error", {"reconcile"})
    BY <1>8, <2>3, ReturnTyped DEF ReconcileGetCluster, ActuatorSteps, TypeOK,
                                    Results, Triggers
  <2>4. QED
    BY <1>8, <2>1, <2>2, <2>3 DEF ReconcileGetCluster
<1>9. CASE ActuatorSteps /\ ReconcileApply
  <2>1. /\ "ok" \in Results /\ "error" \in Results /\ "configError" \in Results
        /\ {"reconcile"} \in SUBSET Triggers
    BY DEF Results, Triggers
  <2>2. worker' \in Workers
    BY <1>9, <2>1, ReturnTyped DEF ReconcileApply
  <2>3. worker.payload \in Payloads \cup {NilPayload}
    BY DEF TypeOK, Workers
  <2>4. QED
    BY <1>9, <2>2, <2>3 DEF ReconcileApply, ActuatorSteps, TypeOK
<1>10. CASE ActuatorSteps /\ DeleteManagedResource
  <2>1. /\ "ok" \in Results /\ "error" \in Results
        /\ {"delete"} \in SUBSET Triggers
    BY DEF Results, Triggers
  <2>2. worker' \in Workers
    BY <1>10, <2>1, ReturnTyped DEF DeleteManagedResource
  <2>3. QED
    BY <1>10, <2>2 DEF DeleteManagedResource, ActuatorSteps, TypeOK
<1>11. CASE UNCHANGED vars
  BY <1>11 DEF vars, actuatorVars, TypeOK
<1>12. QED
  BY <1>1, <1>2, <1>3, <1>4, <1>13, <1>5, <1>6, <1>7, <1>8, <1>9, <1>10, <1>11
     DEF Next, ActuatorSteps, ActuatorStep

(* Every reachable state is well typed: the feature gate, the managed     *)
(* resource (absent or the four rendered objects), the call in flight,    *)
(* the Shoot and the Extension resource keep their types through every    *)
(* step of the tenant, the gardenlet, the controller and the actuator.    *)
THEOREM TypeCorrect == Spec => []TypeOK
<1>1. Init => TypeOK
  BY InitTyped
<1>2. TypeOK /\ [Next]_vars => TypeOK'
  BY TypeStep
<1>3. QED
  BY <1>1, <1>2, PTL DEF Spec

-----------------------------------------------------------------------------
(* The inductive invariant behind NoOrphanManagedResource. *)
IInv == TypeOK /\ NoOrphanInv

(* Every step keeps the strengthening of NoOrphanManagedResource. *)
LEMMA NoOrphanStep == IInv /\ [Next]_vars => IInv'
<1> SUFFICES ASSUME IInv, [Next]_vars PROVE IInv'
  OBVIOUS
<1>0. TypeOK'
  BY TypeStep DEF IInv
<1> USE DEF IInv, NoOrphanInv
<1>1. CASE TenantUpdate \/ TenantDelete
  BY <1>0, <1>1 DEF TenantUpdate, TenantDelete, actuatorVars
<1>11. CASE AnnotateOperation
  <2>1. ext'.exists
    BY <1>11, Zenon DEF AnnotateOperation, TypeOK, ExtensionResources
  <2>2. QED
    BY <1>0, <1>11, <2>1 DEF AnnotateOperation, actuatorVars
<1>2. CASE Redeploy
  BY <1>0, <1>2 DEF Redeploy, IdleWorker, DeleteTriggers
<1>12. CASE StartWebhookServer
  BY <1>0, <1>12 DEF StartWebhookServer, actuatorVars
<1>3. CASE GardenletSync
  <2>1. ext.exists => ext'.exists
    BY <1>3, Zenon DEF GardenletSync, TypeOK, ExtensionResources
  <2>2. QED
    BY <1>0, <1>3, <2>1 DEF GardenletSync
<1>4. CASE Dispatch
  <2>1. ext'.exists
    BY <1>4, Zenon DEF Dispatch, TypeOK, ExtensionResources
  <2>2. /\ worker'.pc \in {"delete", "reconcile"}
        /\ worker'.trigger \in DeleteTriggers => worker'.pc = "delete"
    BY <1>4 DEF Dispatch, Call, IdleWorker
  <2>3. QED
    BY <1>0, <1>4, <2>1, <2>2 DEF Dispatch
<1>5. CASE Complete
  BY <1>0, <1>5 DEF Complete, IdleWorker, NoExtensionResource, DeleteTriggers
<1>6. CASE ActuatorSteps /\ ReconcileGetCluster
  BY <1>0, <1>6 DEF ActuatorSteps, ReconcileGetCluster, Return, TypeOK, Workers,
                    DeleteTriggers
<1>7. CASE ActuatorSteps /\ ReconcileApply
  <2>1. worker.pc = "apply" /\ worker.trigger \notin DeleteTriggers /\ ext.exists
    BY <1>7 DEF ActuatorSteps, ReconcileApply
  <2>2. /\ worker'.pc = "done" /\ worker'.trigger = worker.trigger
    BY <1>7, ReturnTyped DEF ActuatorSteps, ReconcileApply, Results, Triggers
  <2>3. QED
    BY <1>0, <1>7, <2>1, <2>2 DEF ActuatorSteps
<1>8. CASE ActuatorSteps /\ DeleteManagedResource
  BY <1>0, <1>8 DEF ActuatorSteps, DeleteManagedResource, Return, TypeOK, Workers
<1>9. CASE UNCHANGED vars
  BY <1>0, <1>9 DEF vars, actuatorVars
<1>10. QED
  BY <1>1, <1>11, <1>12, <1>2, <1>3, <1>4, <1>5, <1>6, <1>7, <1>8, <1>9
     DEF Next, ActuatorSteps, ActuatorStep
(* No orphaned managed resource, for every instance: the controller only  *)
(* removes the Extension's finalizer after Delete or ForceDelete returned *)
(* nil, that return leaves the managed resource deleted, and a removed    *)
(* Extension has no call in flight that could write it again.             *)
THEOREM NoOrphan == Spec => []NoOrphanManagedResource
<1>1. Init => IInv
  <2>1. Init => NoOrphanInv
    BY DEF Init, NoOrphanInv, IdleWorker, NoExtensionResource, DeleteTriggers
  <2>2. QED
    BY <2>1, InitTyped DEF IInv
<1>2. IInv /\ [Next]_vars => IInv'
  BY NoOrphanStep
<1>3. IInv => NoOrphanManagedResource
  BY DEF IInv, NoOrphanInv, NoOrphanManagedResource
<1>4. QED
  BY <1>1, <1>2, <1>3, PTL DEF Spec
=============================================================================
