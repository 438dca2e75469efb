----------------------- MODULE OtelcolRefinementProofs -----------------------
(***************************************************************************)
(* Proofs about what reaches the managed resource: only validated configs *)
(* are applied, an admitted config never fails reconciliation, and the    *)
(* system implements the abstract lifecycle of ManagedResourceLifecycle.  *)
(***************************************************************************)
EXTENDS OtelcolSystemProofs

(* A returning method keeps the payload and the admitted flag of the call *)
(* and records its result.                                                 *)
LEMMA ReturnKeeps ==
    ASSUME TypeOK, NEW r, NEW k, Return(r, k)
    PROVE  /\ worker'.payload = worker.payload
           /\ worker'.admitted = worker.admitted
           /\ worker'.result = r
BY DEF TypeOK, Return, Workers

-----------------------------------------------------------------------------
(* The inductive invariant behind OnlyValidConfigApplied. *)
VInv == TypeOK /\ OnlyValidConfigApplied

(* Only validated configs are applied, for every instance: CreateForSeed  *)
(* is reached only after the config decoded and passed Validate, every     *)
(* other step leaves the managed resource and its config alone or removes *)
(* the resource, and the Shoots stored before the webhook served change   *)
(* nothing in that.                                                        *)
THEOREM ValidConfigOnly == Spec => []OnlyValidConfigApplied
<1>1. Init => VInv
  BY InitTyped DEF Init, VInv, OnlyValidConfigApplied
<1>2. VInv /\ [Next]_vars => VInv'
  <2> SUFFICES ASSUME VInv, [Next]_vars PROVE OnlyValidConfigApplied'
    BY TypeStep DEF VInv
  <2> USE DEF VInv, OnlyValidConfigApplied
  <2>1. CASE ActuatorSteps /\ ReconcileApply
    <3>1. CASE mr' = RenderedObjects /\ mrCfg' = worker.payload
               /\ ConfigOK(worker.payload)
      BY <3>1
    <3>2. CASE UNCHANGED <<mr, mrCfg>>
      BY <3>2
    <3>3. QED
      BY <2>1, <3>1, <3>2 DEF ActuatorSteps, ReconcileApply
  <2>2. CASE ActuatorSteps /\ DeleteManagedResource
    BY <2>2 DEF ActuatorSteps, DeleteManagedResource
  <2>3. CASE ActuatorSteps /\ ReconcileGetCluster
    BY <2>3 DEF ActuatorSteps, ReconcileGetCluster
  <2>4. CASE ~ActuatorSteps
    <3>1. UNCHANGED <<mr, mrCfg>>
      BY <2>4 DEF Next, vars, actuatorVars, TenantUpdate, TenantDelete,
                  AnnotateOperation, Redeploy, StartWebhookServer, GardenletSync,
                  Dispatch, Complete
    <3>2. QED
      BY <3>1
  <2>5. QED
    BY <2>1, <2>2, <2>3, <2>4 DEF ActuatorSteps, ActuatorStep
<1>3. QED
  BY <1>1, <1>2, PTL DEF Spec, VInv

-----------------------------------------------------------------------------
(* The webhook's verdict and the actuator's checks agree: a Shoot that    *)
(* wants the extension and is admitted carries a config that is present,  *)
(* decodes and validates.                                                  *)
LEMMA VerdictImpliesConfigOK ==
    ASSUME NEW s, AdmissionVerdict(s) = "ok", ExtensionWanted(s)
    PROVE  ConfigOK(s.ext.providerConfig)
BY DEF AdmissionVerdict, ExtensionWanted, ExtensionEnabled, ConfigOK

(* The inductive invariant behind AdmittedConfigNeverFailsReconcile. *)
AInv == TypeOK /\ AdmittedInv

(* The admitted flag and the config it vouches for start out consistent. *)
LEMMA AdmittedInit == Init => AInv
BY InitTyped DEF Init, AInv, AdmittedInv, NoExtensionResource, IdleWorker

(* Every step keeps AdmittedInv: the admitted flag moves from the Shoot   *)
(* to the Extension to the call only together with the config checked.    *)
LEMMA AdmittedStep == AInv /\ [Next]_vars => AInv'
<1> SUFFICES ASSUME AInv, [Next]_vars PROVE AdmittedInv'
  BY TypeStep DEF AInv
<1> USE DEF AInv
<1>1. CASE TenantUpdate
  <2>1. shootAdmitted' /\ ExtensionWanted(shoot') => ConfigOK(shoot'.ext.providerConfig)
    BY <1>1, VerdictImpliesConfigOK DEF TenantUpdate
  <2>2. QED
    BY <1>1, <2>1 DEF TenantUpdate, AdmittedInv, actuatorVars
<1>2. CASE TenantDelete
  <2>1. shoot'.deleting
    BY <1>2, Zenon DEF TenantDelete, TypeOK, Shoots
  <2>2. QED
    BY <1>2, <2>1 DEF TenantDelete, AdmittedInv, ExtensionWanted, actuatorVars
<1>3. CASE StartWebhookServer
  BY <1>3 DEF StartWebhookServer, AdmittedInv, actuatorVars
<1>4. CASE AnnotateOperation
  <2>1. ext'.admitted = ext.admitted /\ ext'.providerConfig = ext.providerConfig
    BY <1>4, Zenon DEF AnnotateOperation, TypeOK, ExtensionResources
  <2>2. QED
    BY <1>4, <2>1 DEF AnnotateOperation, AdmittedInv, actuatorVars
<1>5. CASE Redeploy
  BY <1>5 DEF Redeploy, AdmittedInv, IdleWorker
<1>6. CASE GardenletSync
  <2>1. ext'.admitted => ConfigOK(ext'.providerConfig)
    <3>1. CASE ExtensionWanted(shoot) /\ ext.deleting = "no"
               /\ ext' = [ext EXCEPT !.exists = TRUE,
                                     !.providerConfig = shoot.ext.providerConfig,
                                     !.admitted = shootAdmitted, !.op = "reconcile"]
      <4>1. ext'.admitted = shootAdmitted
            /\ ext'.providerConfig = shoot.ext.providerConfig
        BY <3>1, Zenon DEF TypeOK, ExtensionResources
      <4>2. QED
        BY <3>1, <4>1 DEF AdmittedInv
    <3>2. CASE \E d \in {"delete", "force"} : ext' = [ext EXCEPT !.deleting = d]
      <4>1. ext'.admitted = ext.admitted /\ ext'.providerConfig = ext.providerConfig
        BY <3>2, Zenon DEF TypeOK, ExtensionResources
      <4>2. QED
        BY <4>1 DEF AdmittedInv
    <3>3. CASE UNCHANGED ext
      BY <3>3 DEF AdmittedInv
    <3>4. QED
      BY <1>6, <3>1, <3>2, <3>3 DEF GardenletSync
  <2>2. QED
    BY <1>6, <2>1 DEF GardenletSync, AdmittedInv
<1>7. CASE Dispatch
  <2>1. ext'.admitted = ext.admitted /\ ext'.providerConfig = ext.providerConfig
    BY <1>7, Zenon DEF Dispatch, TypeOK, ExtensionResources
  <2>2. /\ worker'.admitted = ext.admitted /\ worker'.payload = ext.providerConfig
        /\ worker'.result = "none"
    BY <1>7 DEF Dispatch, Call, IdleWorker
  <2>3. QED
    BY <1>7, <2>1, <2>2 DEF Dispatch, AdmittedInv
<1>8. CASE Complete
  <2>1. ext'.admitted => ConfigOK(ext'.providerConfig)
    <3>1. CASE ext' = NoExtensionResource
      BY <3>1 DEF NoExtensionResource
    <3>2. CASE ext' = [ext EXCEPT !.lastOp = IF worker.result = "ok"
                                            THEN "succeeded" ELSE "failed"]
      <4>1. ext'.admitted = ext.admitted /\ ext'.providerConfig = ext.providerConfig
        BY <3>2, Zenon DEF TypeOK, ExtensionResources
      <4>2. QED
        BY <4>1 DEF AdmittedInv
    <3>3. QED
      BY <1>8, <3>1, <3>2 DEF Complete
  <2>2. QED
    BY <1>8, <2>1 DEF Complete, AdmittedInv, IdleWorker
<1>9. CASE ActuatorSteps /\ ReconcileGetCluster
  <2>1. CASE worker' = [worker EXCEPT !.pc = "delete"]
    BY <2>1, <1>9 DEF ActuatorSteps, ReconcileGetCluster, AdmittedInv, TypeOK, Workers
  <2>2. CASE worker' = [worker EXCEPT !.pc = "apply", !.hibernated = clusterHibernated]
    BY <2>2, <1>9 DEF ActuatorSteps, ReconcileGetCluster, AdmittedInv, TypeOK, Workers
  <2>3. CASE Return("error", {"reconcile"})
    BY <2>3, <1>9, ReturnKeeps DEF ActuatorSteps, ReconcileGetCluster, AdmittedInv
  <2>4. QED
    BY <1>9, <2>1, <2>2, <2>3 DEF ReconcileGetCluster
<1>10. CASE ActuatorSteps /\ ReconcileApply
  <2>1. CASE Return("configError", {"reconcile"}) /\ ~ConfigOK(worker.payload)
    BY <2>1, <1>10, ReturnKeeps DEF ActuatorSteps, ReconcileApply, AdmittedInv
  <2>2. CASE Return("ok", {"reconcile"}) \/ Return("error", {"reconcile"})
    BY <2>2, <1>10, ReturnKeeps DEF ActuatorSteps, ReconcileApply, AdmittedInv
  <2>3. QED
    BY <1>10, <2>1, <2>2 DEF ReconcileApply
<1>11. CASE ActuatorSteps /\ DeleteManagedResource
  <2>1. CASE Return("ok", {"delete"}) \/ Return("error", {"delete"})
    BY <2>1, <1>11, ReturnKeeps DEF ActuatorSteps, DeleteManagedResource, AdmittedInv
  <2>2. QED
    BY <1>11, <2>1 DEF DeleteManagedResource
<1>12. CASE UNCHANGED vars
  BY <1>12 DEF vars, actuatorVars, AdmittedInv
<1>13. QED
  BY <1>1, <1>2, <1>3, <1>4, <1>5, <1>6, <1>7, <1>8, <1>9, <1>10, <1>11, <1>12
     DEF Next, ActuatorSteps, ActuatorStep

(* An admitted config never fails reconciliation with a config error, for *)
(* every instance: the admitted flag travels from the Shoot through the   *)
(* Extension into the call only together with the config the webhook      *)
(* checked, and Reconcile fails with a config error only on a config that *)
(* does not decode or validate.                                            *)
THEOREM AdmittedNeverFails == Spec => []AdmittedConfigNeverFailsReconcile
<1>1. Init => AInv
  BY AdmittedInit
<1>2. AInv /\ [Next]_vars => AInv'
  BY AdmittedStep
<1>3. AInv => AdmittedConfigNeverFailsReconcile
  BY DEF AInv, AdmittedInv, AdmittedConfigNeverFailsReconcile
<1>4. QED
  BY <1>1, <1>2, <1>3, PTL DEF Spec

-----------------------------------------------------------------------------
(* Every step keeps a call in flight within what the inputs entitle it    *)
(* to: the gate changes only with a redeploy, which aborts the call, and  *)
(* the deletion mark of an Extension is never withdrawn.                   *)
LEMMA CallIntentStep == TypeOK /\ CallIntentInv /\ [Next]_vars => CallIntentInv'
<1> SUFFICES ASSUME TypeOK, CallIntentInv, [Next]_vars PROVE CallIntentInv'
  OBVIOUS
<1> USE DEF CallIntentInv
<1>1. CASE TenantUpdate \/ TenantDelete \/ StartWebhookServer
  BY <1>1 DEF TenantUpdate, TenantDelete, StartWebhookServer, actuatorVars
<1>2. CASE AnnotateOperation
  <2>1. ext'.deleting = ext.deleting
    BY <1>2, Zenon DEF AnnotateOperation, TypeOK, ExtensionResources
  <2>2. QED
    BY <1>2, <2>1 DEF AnnotateOperation, actuatorVars
<1>3. CASE Redeploy
  BY <1>3 DEF Redeploy, IdleWorker, DeleteTriggers
<1>4. CASE GardenletSync
  <2>1. ext.deleting # "no" => ext'.deleting # "no"
    <3>1. CASE ext.deleting = "no"
      BY <3>1
    <3>2. CASE \E d \in {"delete", "force"} : ext' = [ext EXCEPT !.deleting = d]
      BY <3>2, Zenon DEF TypeOK, ExtensionResources
    <3>3. CASE UNCHANGED ext
      BY <3>3
    <3>4. QED
      BY <1>4, <3>1, <3>2, <3>3 DEF GardenletSync
  <2>2. QED
    BY <1>4, <2>1 DEF GardenletSync
<1>5. CASE Dispatch
  <2>1. ext'.deleting = ext.deleting
    BY <1>5, Zenon DEF Dispatch, TypeOK, ExtensionResources
  <2>2. /\ worker'.trigger = TriggerFor(ext)
        /\ worker'.pc = "delete" <=> worker'.trigger \in DeleteTriggers
        /\ worker'.pc # "apply"
    BY <1>5 DEF Dispatch, Call, IdleWorker
  <2>3. TriggerFor(ext) \in DeleteTriggers => ext.deleting # "no"
    BY DEF TriggerFor, DeleteTriggers
  <2>4. QED
    BY <1>5, <2>1, <2>2, <2>3 DEF Dispatch
<1>6. CASE Complete
  BY <1>6 DEF Complete, IdleWorker, DeleteTriggers
<1>7. CASE ActuatorSteps /\ ReconcileGetCluster
  <2>1. CASE ~GateOn(gate) /\ worker' = [worker EXCEPT !.pc = "delete"]
    BY <1>7, <2>1 DEF ActuatorSteps, ReconcileGetCluster, TypeOK, Workers
  <2>2. CASE GateOn(gate)
             /\ worker' = [worker EXCEPT !.pc = "apply", !.hibernated = clusterHibernated]
    BY <1>7, <2>2 DEF ActuatorSteps, ReconcileGetCluster, TypeOK, Workers
  <2>3. CASE Return("error", {"reconcile"})
    BY <1>7, <2>3, ReturnTyped DEF ActuatorSteps, ReconcileGetCluster, Results, Triggers
  <2>4. QED
    BY <1>7, <2>1, <2>2, <2>3 DEF ReconcileGetCluster
<1>8. CASE ActuatorSteps /\ ReconcileApply
  <2>1. /\ "ok" \in Results /\ "error" \in Results /\ "configError" \in Results
        /\ {"reconcile"} \in SUBSET Triggers
    BY DEF Results, Triggers
  <2>2. worker'.pc = "done" /\ worker'.trigger = worker.trigger
    BY <1>8, <2>1, ReturnTyped DEF ReconcileApply
  <2>3. QED
    BY <1>8, <2>2 DEF ActuatorSteps, ReconcileApply
<1>9. CASE ActuatorSteps /\ DeleteManagedResource
  <2>1. /\ "ok" \in Results /\ "error" \in Results /\ {"delete"} \in SUBSET Triggers
    BY DEF Results, Triggers
  <2>2. worker'.pc = "done" /\ worker'.trigger = worker.trigger
    BY <1>9, <2>1, ReturnTyped DEF DeleteManagedResource
  <2>3. QED
    BY <1>9, <2>2 DEF ActuatorSteps, DeleteManagedResource
<1>10. CASE UNCHANGED vars
  BY <1>10 DEF vars, actuatorVars
<1>11. QED
  BY <1>1, <1>2, <1>3, <1>4, <1>5, <1>6, <1>7, <1>8, <1>9, <1>10
     DEF Next, ActuatorSteps, ActuatorStep

-----------------------------------------------------------------------------
(* The inductive invariant behind the refinement. *)
RInv == IInv /\ CallIntentInv

(* The image of the system's state in the abstract lifecycle. *)
LVars == Lifecycle!lifecycleVars

(* The rendered bundle is not empty, so a written managed resource maps  *)
(* to the config it was written from.                                     *)
LEMMA RenderedNonEmpty == RenderedObjects # {}
BY DEF RenderedObjects

(* Every step of the system is a step of the abstract lifecycle or leaves *)
(* its state alone.                                                        *)
LEMMA RefinementStep == RInv /\ [Next]_vars => [Lifecycle!Next]_LVars
<1> SUFFICES ASSUME RInv, [Next]_vars PROVE [Lifecycle!Next]_LVars
  OBVIOUS
<1> USE DEF RInv, IInv
<1>1. CASE TenantUpdate \/ TenantDelete \/ StartWebhookServer
  BY <1>1 DEF TenantUpdate, TenantDelete, StartWebhookServer, actuatorVars,
              LVars, Lifecycle!lifecycleVars
<1>2. CASE AnnotateOperation \/ Dispatch
  <2>1. ext'.exists = ext.exists /\ ext'.deleting = ext.deleting
    BY <1>2, Zenon DEF AnnotateOperation, Dispatch, TypeOK, ExtensionResources
  <2>2. QED
    BY <1>2, <2>1 DEF AnnotateOperation, Dispatch, actuatorVars,
                      LVars, Lifecycle!lifecycleVars
<1>3. CASE Redeploy
  <2>1. CASE GateOn(gate') = GateOn(gate)
    BY <1>3, <2>1 DEF Redeploy, LVars, Lifecycle!lifecycleVars
  <2>2. CASE GateOn(gate') # GateOn(gate)
    <3>1. Lifecycle!SwitchFeature
      BY <1>3, <2>2 DEF Redeploy, Lifecycle!SwitchFeature, GateOn
    <3>2. QED
      BY <3>1 DEF Lifecycle!Next
  <2>3. QED
    BY <2>1, <2>2
<1>4. CASE GardenletSync
  <2>0. UNCHANGED <<gate, mr, mrCfg>>
    BY <1>4 DEF GardenletSync
  <2>1. CASE ExtensionWanted(shoot) /\ ext.deleting = "no"
             /\ ext' = [ext EXCEPT !.exists = TRUE,
                                   !.providerConfig = shoot.ext.providerConfig,
                                   !.admitted = shootAdmitted, !.op = "reconcile"]
    <3>1. ext'.exists = TRUE /\ ext'.deleting = "no"
      BY <2>1, Zenon DEF TypeOK, ExtensionResources
    <3>2. CASE ext.exists
      BY <2>0, <2>1, <3>1, <3>2 DEF LVars, Lifecycle!lifecycleVars
    <3>3. CASE ~ext.exists
      <4>1. Lifecycle!Create
        BY <2>0, <2>1, <3>1, <3>3 DEF Lifecycle!Create
      <4>2. QED
        BY <4>1 DEF Lifecycle!Next
    <3>4. QED
      BY <3>2, <3>3
  <2>2. CASE ext.exists /\ ext.deleting = "no"
             /\ \E d \in {"delete", "force"} : ext' = [ext EXCEPT !.deleting = d]
    <3>1. ext'.exists = ext.exists /\ ext'.deleting # "no"
      BY <2>2, Zenon DEF TypeOK, ExtensionResources
    <3>2. Lifecycle!MarkDeletion
      BY <2>0, <2>2, <3>1 DEF Lifecycle!MarkDeletion
    <3>3. QED
      BY <3>2 DEF Lifecycle!Next
  <2>3. CASE UNCHANGED ext
    BY <2>0, <2>3 DEF LVars, Lifecycle!lifecycleVars
  <2>4. QED
    BY <1>4, <2>1, <2>2, <2>3 DEF GardenletSync
<1>5. CASE Complete
  <2>0. UNCHANGED <<gate, mr, mrCfg>>
    BY <1>5 DEF Complete
  <2>1. CASE worker.trigger \in DeleteTriggers /\ worker.result = "ok"
    <3>1. /\ ext.exists /\ ext.deleting # "no" /\ mr = {}
      BY <1>5, <2>1 DEF Complete, NoOrphanInv, CallIntentInv
    <3>2. ext' = NoExtensionResource
      BY <1>5, <2>1 DEF Complete
    <3>3. Lifecycle!Release
      BY <2>0, <3>1, <3>2 DEF Lifecycle!Release, NoExtensionResource
    <3>4. QED
      BY <3>3 DEF Lifecycle!Next
  <2>2. CASE ~(worker.trigger \in DeleteTriggers /\ worker.result = "ok")
    <3>1. ext' = [ext EXCEPT !.lastOp = IF worker.result = "ok"
                                        THEN "succeeded" ELSE "failed"]
      BY <1>5, <2>2 DEF Complete
    <3>2. ext'.exists = ext.exists /\ ext'.deleting = ext.deleting
      BY <3>1, Zenon DEF TypeOK, ExtensionResources
    <3>3. QED
      BY <2>0, <3>2 DEF LVars, Lifecycle!lifecycleVars
  <2>3. QED
    BY <2>1, <2>2
<1>6. CASE ActuatorSteps /\ ReconcileGetCluster
  BY <1>6 DEF ActuatorSteps, ReconcileGetCluster, LVars, Lifecycle!lifecycleVars
<1>7. CASE ActuatorSteps /\ ReconcileApply
  <2>0. UNCHANGED <<gate, ext>> /\ worker.pc = "apply"
    BY <1>7 DEF ActuatorSteps, ReconcileApply
  <2>1. CASE ~worker.hibernated /\ ConfigOK(worker.payload)
             /\ mr' = RenderedObjects /\ mrCfg' = worker.payload
    <3>1. worker.payload \in Payloads
      BY <2>1 DEF TypeOK, Workers, ConfigOK
    <3>2. ext.exists /\ GateOn(gate)
      BY <2>0 DEF NoOrphanInv, CallIntentInv
    <3>3. (IF mr' = {} THEN NilPayload ELSE mrCfg') = worker.payload
      BY <2>1, RenderedNonEmpty
    <3>4. Lifecycle!Apply(worker.payload)
      BY <2>0, <2>1, <3>1, <3>2, <3>3 DEF Lifecycle!Apply
    <3>5. QED
      BY <3>1, <3>4 DEF Lifecycle!Next
  <2>2. CASE UNCHANGED <<mr, mrCfg>>
    BY <2>0, <2>2 DEF LVars, Lifecycle!lifecycleVars
  <2>3. QED
    BY <1>7, <2>1, <2>2 DEF ActuatorSteps, ReconcileApply
<1>8. CASE ActuatorSteps /\ DeleteManagedResource
  <2>0. UNCHANGED <<gate, ext, mrCfg>> /\ worker.pc = "delete"
    BY <1>8 DEF ActuatorSteps, DeleteManagedResource
  <2>1. CASE mr' = {}
    <3>1. ext.deleting # "no" \/ ~GateOn(gate)
      BY <2>0 DEF CallIntentInv
    <3>2. Lifecycle!Remove
      BY <2>0, <2>1, <3>1 DEF Lifecycle!Remove
    <3>3. QED
      BY <3>2 DEF Lifecycle!Next
  <2>2. CASE mr' = mr
    BY <2>0, <2>2 DEF LVars, Lifecycle!lifecycleVars
  <2>3. QED
    BY <1>8, <2>1, <2>2 DEF ActuatorSteps, DeleteManagedResource
<1>9. CASE UNCHANGED vars
  BY <1>9 DEF vars, actuatorVars, LVars, Lifecycle!lifecycleVars
<1>10. QED
  BY <1>1, <1>2, <1>3, <1>4, <1>5, <1>6, <1>7, <1>8, <1>9
     DEF Next, ActuatorSteps, ActuatorStep

(* The system implements the abstract lifecycle, for every instance: its  *)
(* initial state is one of the lifecycle's, and under the invariant every *)
(* step of the tenant, the gardenlet, the controller and the actuator is  *)
(* a lifecycle step (create, mark, switch the gate, apply a valid config, *)
(* remove, release) or leaves its state alone.                             *)
THEOREM Refinement == Spec => LifecycleRefinement
<1>1. Init => Lifecycle!Init
  BY DEF Init, Lifecycle!Init, NoExtensionResource, GateOn
<1>2. Init => RInv
  BY InitTyped DEF Init, RInv, IInv, NoOrphanInv, CallIntentInv, IdleWorker,
                   NoExtensionResource, DeleteTriggers
<1>3. RInv /\ [Next]_vars => RInv'
  BY NoOrphanStep, CallIntentStep DEF RInv, IInv
<1>4. RInv /\ [Next]_vars => [Lifecycle!Next]_LVars
  BY RefinementStep
<1>5. QED
  BY <1>1, <1>2, <1>3, <1>4, PTL DEF Spec, LifecycleRefinement, Lifecycle!Spec, LVars
=============================================================================
