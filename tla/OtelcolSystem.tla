---------------------------- MODULE OtelcolSystem ----------------------------
(***************************************************************************)
(* The extension in its environment: one Shoot in the garden cluster, the *)
(* admission webhook guarding its updates, the gardenlet copying it into  *)
(* the seed (Cluster and Extension resources), the generic extension      *)
(* controller that serialises calls into the actuator and records their   *)
(* outcome, and the actuator writing the managed resource.                 *)
(*                                                                         *)
(* The gardenlet and the extension controller are Gardener code, not part *)
(* of this repository: they are modelled from the contract spec.md gives  *)
(* them (sections 2, 4.4, 5 and 6).                                        *)
(***************************************************************************)
EXTENDS Actuator, Admission, FiniteSets

CONSTANT MaxEdits   \* bound on tenant updates, deletions, restarts and migrations

ASSUME MaxEditsAssumption == MaxEdits \in Nat

VARIABLES
    shoot,          \* the Shoot as stored in the garden cluster
    shootAdmitted,  \* (history) its spec was stored through the webhook
    ext,            \* the Extension resource in the seed
    edits,          \* environment changes so far
    webhookServing  \* runWebhookServer has registered the shoot validator

vars == <<actuatorVars, shoot, shootAdmitted, ext, edits, webhookServing>>

(* An Extension resource: its deletion state, provider config, pending    *)
(* operation annotation and last operation.  A removed resource has       *)
(* exists = FALSE and default fields.                                      *)
DeletionStates == {"no", "delete", "force"}
Operations == {"none", "reconcile", "restore", "migrate"}
LastOps == {"succeeded", "processing", "failed"}

NoExtensionResource ==
    [exists |-> FALSE, deleting |-> "no", providerConfig |-> NilPayload,
     admitted |-> FALSE, op |-> "none", lastOp |-> "succeeded"]

ExtensionResources ==
    [exists : BOOLEAN, deleting : DeletionStates,
     providerConfig : Payloads \cup {NilPayload}, admitted : BOOLEAN,
     op : Operations, lastOp : LastOps]

(* The shoot wants the extension deployed. *)
ExtensionWanted(s) == ExtensionEnabled(s) /\ ~s.deleting

-----------------------------------------------------------------------------
(***************************************************************************)
(* Tenant                                                                  *)
(***************************************************************************)

(* An update of the Shoot.  Once the webhook serves, it is stored only if *)
(* the validator accepts the new object (a rejected update changes        *)
(* nothing and is not a step); before that it is stored unvalidated.      *)
TenantUpdate ==
    /\ edits < MaxEdits
    /\ \E e \in ExtensionEntries(Payloads), h \in BOOLEAN :
          LET new == [ext |-> e, hibernated |-> h, deleting |-> shoot.deleting]
          IN  /\ new # shoot
              /\ webhookServing => AdmissionVerdict(new) = "ok"
              /\ shoot' = new
    /\ shootAdmitted' = webhookServing
    /\ edits' = edits + 1
    /\ UNCHANGED <<actuatorVars, ext, webhookServing>>

(* Deleting the Shoot sets its deletionTimestamp; no update is admitted.  *)
TenantDelete ==
    /\ edits < MaxEdits
    /\ ~shoot.deleting
    /\ shoot' = [shoot EXCEPT !.deleting = TRUE]
    /\ edits' = edits + 1
    /\ UNCHANGED <<actuatorVars, shootAdmitted, ext, webhookServing>>

(***************************************************************************)
(* Admission webhook server                                                *)
(***************************************************************************)

(* runWebhookServer builds the manager, creates the shoot validator        *)
(* webhook (NewShootValidatorWebhook), registers it and starts serving;    *)
(* from then on every update of a Shoot labelled for otelcol goes through  *)
(* the validator.  A failed setup returns an error and the process is      *)
(* restarted, so the only change of state is the start of serving.         *)
StartWebhookServer ==
    /\ ~webhookServing
    /\ webhookServing' = TRUE
    /\ UNCHANGED <<actuatorVars, shoot, shootAdmitted, ext, edits>>

(***************************************************************************)
(* Gardenlet                                                               *)
(***************************************************************************)

(* A reconciliation of the Shoot by the gardenlet: the Cluster resource   *)
(* takes the hibernation setting; the Extension is created or updated     *)
(* with the provider config and annotated for reconciliation when the     *)
(* shoot wants the extension, and marked for deletion (forced or not, for *)
(* a deleted shoot) when it does not.  A resource being deleted is left   *)
(* to finish first.                                                       *)
GardenletSync ==
    /\ clusterHibernated' = shoot.hibernated
    /\ \/ /\ ExtensionWanted(shoot)
          /\ ext.deleting = "no"
          /\ ext' = [ext EXCEPT !.exists = TRUE,
                                !.providerConfig = shoot.ext.providerConfig,
                                !.admitted = shootAdmitted, !.op = "reconcile"]
       \/ /\ ~ExtensionWanted(shoot)
          /\ ext.exists
          /\ ext.deleting = "no"
          /\ \E d \in IF shoot.deleting THEN {"delete", "force"} ELSE {"delete"} :
                ext' = [ext EXCEPT !.deleting = d]
       \/ /\ ext.deleting # "no" \/ (~ExtensionWanted(shoot) /\ ~ext.exists)
          /\ UNCHANGED ext
    /\ UNCHANGED <<gate, mr, mrCfg, worker, faults, shoot, shootAdmitted, edits,
                   webhookServing>>

(* A control-plane migration or restoration annotates the Extension. *)
AnnotateOperation ==
    /\ edits < MaxEdits
    /\ ext.exists /\ ext.deleting = "no"
    /\ \E op \in {"restore", "migrate"} : ext' = [ext EXCEPT !.op = op]
    /\ edits' = edits + 1
    /\ UNCHANGED <<actuatorVars, shoot, shootAdmitted, webhookServing>>

(* The extension is redeployed and New receives another gardenlet        *)
(* feature-gate map, in which OpenTelemetryCollector may be missing,     *)
(* false or true: the call in flight is lost with the process, the        *)
(* Extension keeps its "processing" last operation and is picked up again. *)
Redeploy ==
    /\ edits < MaxEdits
    /\ \E feats \in FeatureGateMaps : gate' = GateOf(feats)
    /\ worker' = IdleWorker
    /\ edits' = edits + 1
    /\ UNCHANGED <<clusterHibernated, mr, mrCfg, faults, shoot, shootAdmitted, ext,
                   webhookServing>>

(***************************************************************************)
(* Extension controller                                                    *)
(***************************************************************************)

(* The trigger the controller chooses for the Extension. *)
TriggerFor(e) ==
    CASE e.deleting = "force"                 -> "force_delete"
      [] e.deleting = "delete"                -> "delete"
      [] e.op \in {"restore", "migrate"}      -> e.op
      [] OTHER                                -> "reconcile"

(* The controller takes the Extension when it is being deleted, carries   *)
(* an operation annotation or its last operation did not succeed, removes *)
(* the annotation, marks it processing and calls the actuator.            *)
Dispatch ==
    /\ ext.exists
    /\ ext.deleting # "no" \/ ext.op # "none" \/ ext.lastOp # "succeeded"
    /\ Call(TriggerFor(ext), ext.providerConfig, ext.admitted)
    /\ ext' = [ext EXCEPT !.op = "none", !.lastOp = "processing"]
    /\ UNCHANGED <<gate, clusterHibernated, mr, mrCfg, faults,
                   shoot, shootAdmitted, edits, webhookServing>>

(* The controller records the result: a successful deletion removes the   *)
(* finalizer and with it the Extension; any other outcome is recorded as  *)
(* the last operation, and a failure is retried.                          *)
Complete ==
    /\ worker.pc = "done"
    /\ ext' = IF worker.trigger \in DeleteTriggers /\ worker.result = "ok"
              THEN NoExtensionResource
              ELSE [ext EXCEPT !.lastOp = IF worker.result = "ok"
                                          THEN "succeeded" ELSE "failed"]
    /\ worker' = IdleWorker
    /\ UNCHANGED <<gate, clusterHibernated, mr, mrCfg, faults,
                   shoot, shootAdmitted, edits, webhookServing>>

ActuatorSteps ==
    /\ ActuatorStep
    /\ UNCHANGED <<shoot, shootAdmitted, ext, edits, webhookServing>>

-----------------------------------------------------------------------------
(* The webhook server has not started: the Shoot may hold any provider    *)
(* config, stored unvalidated; the seed holds nothing yet.                 *)
Init ==
    /\ shoot \in {s \in Shoots(Payloads) : ~s.deleting}
    /\ shootAdmitted = FALSE
    /\ ext = NoExtensionResource
    /\ \E feats \in FeatureGateMaps : gate = GateOf(feats)
    /\ clusterHibernated = shoot.hibernated
    /\ mr = {}
    /\ mrCfg = NilPayload
    /\ worker = IdleWorker
    /\ faults = 0
    /\ edits = 0
    /\ webhookServing = FALSE

Next ==
    \/ TenantUpdate \/ TenantDelete \/ AnnotateOperation \/ Redeploy
    \/ StartWebhookServer
    \/ GardenletSync
    \/ Dispatch \/ Complete
    \/ ActuatorSteps

(* The gardenlet reconciles shoots periodically, the controller works its *)
(* queue and retries failures with backoff, and every API call returns.   *)
Fairness ==
    /\ WF_vars(GardenletSync)
    /\ WF_vars(Dispatch)
    /\ WF_vars(Complete)
    /\ WF_vars(ActuatorSteps)

Spec == Init /\ [][Next]_vars /\ Fairness

-----------------------------------------------------------------------------
TypeOK ==
    /\ gate \in GateValues
    /\ clusterHibernated \in BOOLEAN
    /\ mr \in {{}, RenderedObjects}
    /\ mrCfg \in Payloads \cup {NilPayload}
    /\ worker \in Workers
    /\ faults \in 0..MaxFaults
    /\ shoot \in Shoots(Payloads)
    /\ shootAdmitted \in BOOLEAN
    /\ ext \in ExtensionResources
    /\ edits \in 0..MaxEdits
    /\ webhookServing \in BOOLEAN

(* No orphaned managed resource: once the Extension is gone (its          *)
(* finalizer removed after Delete or ForceDelete returned nil), the        *)
(* managed resource is gone from the seed.  It rests on DeleteForSeed's   *)
(* error reaching the controller and on no call being in flight for a     *)
(* removed Extension.                                                      *)
NoOrphanManagedResource ==
    ~ext.exists => mr = {}

(* The strengthening of NoOrphanManagedResource that every step keeps:    *)
(* Delete and ForceDelete run Delete and nothing else, so a call with a    *)
(* delete trigger that returned nil has left the seed without the managed *)
(* resource until the controller removes the finalizer; and no call is in *)
(* flight for a removed Extension.                                         *)
NoOrphanInv ==
    /\ ~ext.exists => mr = {} /\ worker.pc = "idle"
    /\ worker.trigger \in DeleteTriggers => worker.pc \in {"delete", "done"}
    /\ (worker.pc = "done" /\ worker.trigger \in DeleteTriggers
          /\ worker.result = "ok") => mr = {}

(* The managed resource is wired consistently: it holds one object of    *)
(* each rendered kind, all in the shoot's namespace with the common        *)
(* labels; the RoleBinding grants the Role to the Target Allocator's own   *)
(* service account, and the Target Allocator runs as that account and      *)
(* discovers targets in its own namespace only.                            *)
BundleWired ==
    mr # {} =>
      LET obj(k) == CHOOSE o \in mr : o.kind = k
          sa == obj("ServiceAccount")
          role == obj("Role")
          rb == obj("RoleBinding")
          ta == obj("TargetAllocator")
      IN  /\ {o.kind : o \in mr} = {"ServiceAccount", "Role", "RoleBinding", "TargetAllocator"}
          /\ Cardinality(mr) = 4
          /\ \A o \in mr : o.namespace = ShootNamespace /\ o.labels = CommonLabels
          /\ rb.roleRef = [kind |-> role.kind, name |-> role.name]
          /\ rb.subjects = <<[kind |-> sa.kind, name |-> sa.name, namespace |-> sa.namespace]>>
          /\ ta.serviceAccount = sa.name
          /\ ta.prometheusCR.allowNamespaces = <<ta.namespace>>

(* A call in flight does only what the inputs entitle it to: it reaches  *)
(* CreateForSeed only while the feature gate is on, DeleteForSeed only     *)
(* while the Extension is being deleted or the gate is off, and a Delete  *)
(* or ForceDelete runs only for an Extension marked for deletion.  It     *)
(* rests on the gate being fixed for the life of the process (a redeploy   *)
(* aborts the call) and on the deletion mark never being withdrawn.        *)
CallIntentInv ==
    /\ worker.pc = "apply" => GateOn(gate)
    /\ worker.pc = "delete" => ext.deleting # "no" \/ ~GateOn(gate)
    /\ worker.trigger \in DeleteTriggers => ext.deleting # "no"

(* What the admission webhook vouched for reaches the actuator intact:    *)
(* the stored Shoot, once admitted, carries a config that decodes and     *)
(* validates whenever it wants the extension; so do the Extension and the *)
(* call that carry the admitted flag; and only an invalid config fails a  *)
(* reconcile with a config error.                                          *)
AdmittedInv ==
    /\ shootAdmitted /\ ExtensionWanted(shoot) => ConfigOK(shoot.ext.providerConfig)
    /\ ext.admitted => ConfigOK(ext.providerConfig)
    /\ worker.admitted => ConfigOK(worker.payload)
    /\ worker.result = "configError" => ~ConfigOK(worker.payload)

(* Only a valid configuration is ever applied: whenever the managed       *)
(* resource exists, the call that last wrote it carried a provider config *)
(* that decodes and validates, even when the Shoot predates the webhook.  *)
OnlyValidConfigApplied ==
    mr # {} => ConfigOK(mrCfg)

(* The admission webhook and the actuator agree: a Reconcile call on a    *)
(* provider config that the webhook admitted never fails with a           *)
(* configuration error (nil, undecodable or invalid provider config).     *)
AdmittedConfigNeverFailsReconcile ==
    (worker.pc = "done" /\ worker.result = "configError") => ~worker.admitted

(* A nil return means the seed is where the call left it promised: a     *)
(* Delete or ForceDelete, or a Reconcile with the feature gate off, that  *)
(* returned nil has removed the managed resource, and a Reconcile of an   *)
(* awake shoot with the gate on that returned nil has written the full    *)
(* bundle from the call's own provider config.  Errors of CreateForSeed   *)
(* and DeleteForSeed must surface, or the controller records success for  *)
(* a seed that never changed.                                             *)
SuccessMeansConverged ==
    worker.pc = "done" /\ worker.result = "ok" =>
        /\ worker.trigger \in DeleteTriggers \/ ~GateOn(gate) => mr = {}
        /\ worker.trigger \notin DeleteTriggers /\ GateOn(gate) /\ ~worker.hibernated
             => mr = RenderedObjects /\ mrCfg = worker.payload

(* The refinement mapping to the abstract lifecycle: the Extension       *)
(* exists and is being deleted as the resource says, the feature gate is  *)
(* on when the entry is present and true, and the bundle is the config of *)
(* the last write while the managed resource exists.                       *)
Lifecycle == INSTANCE ManagedResourceLifecycle
    WITH Configs <- Payloads,
         ValidConfigs <- {p \in Payloads : ConfigOK(p)},
         Absent <- NilPayload,
         exists <- ext.exists,
         deleting <- ext.deleting # "no",
         featureOn <- GateOn(gate),
         bundle <- IF mr = {} THEN NilPayload ELSE mrCfg

(* The system implements the lifecycle spec.md promises: every step of    *)
(* the tenant, the gardenlet, the controller and the actuator is a step   *)
(* of ManagedResourceLifecycle or leaves its state alone.  Retries of a   *)
(* config error, a stale write after the deletion mark, a delete failing  *)
(* half-way and a redeploy in the middle of a call all fit it.             *)
LifecycleRefinement == Lifecycle!Spec

(* Spec 4.4: every trigger increments the operation counter labelled with *)
(* its own kind.                                                           *)
EveryTriggerCounted ==
    worker.pc = "done" => worker.trigger \in worker.counted

(* Spec 8, hibernation short-circuit: a Reconcile of a hibernated target  *)
(* cluster performs neither apply nor remove.  Checked for the remove      *)
(* half: while the Cluster is hibernated and the Extension is not marked  *)
(* for deletion, no step of a Reconcile, Restore or Migrate call removes   *)
(* the managed resource.  Reconcile checks the feature gate first          *)
(* (actuator.go:222, as spec 4.4 orders it) and, with the gate off,        *)
(* deletes without reading the Cluster.                                    *)
HibernatedReconcileKeepsBundle ==
    [][/\ worker.trigger \notin DeleteTriggers \cup {"none"}
       /\ clusterHibernated /\ ext.deleting = "no"
       => (mr # {} => mr' # {})]_vars

(* What the managed resource should converge to once the inputs are      *)
(* stable: gone when the feature gate is off or the shoot does not want   *)
(* the extension, present when everything allows it.                      *)
ShouldBeAbsent  == ~GateOn(gate) \/ ~ExtensionWanted(shoot)
ShouldBePresent ==
    /\ GateOn(gate) /\ ExtensionWanted(shoot) /\ ~shoot.hibernated
    /\ ConfigOK(shoot.ext.providerConfig)

(* Level-triggered convergence (spec 4.4, 5): once the Shoot and the      *)
(* feature gate stop changing and API calls stop failing, the managed     *)
(* resource ends up as the inputs require and stays so.                   *)
Convergence ==
    /\ <>[](ShouldBeAbsent => mr = {})
    /\ <>[](ShouldBePresent => mr = RenderedObjects)

(* A deleted Shoot's Extension is eventually removed: deletion is not     *)
(* blocked forever by a failing or repeated Delete.                       *)
DeletionCompletes ==
    shoot.deleting ~> ~ext.exists
=============================================================================
