------------------------------ MODULE Actuator ------------------------------
(***************************************************************************)
(* The extension actuator, modelled from pkg/actuator/actuator.go.         *)
(*                                                                         *)
(* The controller hands the actuator one trigger at a time for the         *)
(* Extension resource of one shoot (at most one call in flight per key).   *)
(* A call is a sequence of steps, each one atomic access to the API        *)
(* server:                                                                 *)
(*   Reconcile: feature-gate check and GetCluster, then the hibernation    *)
(*              check, decode, Validate and CreateForSeed;                 *)
(*   Delete:    DeleteForSeed;                                             *)
(*   ForceDelete calls Delete, Restore and Migrate call Reconcile.         *)
(* Between two steps the rest of the system (gardenlet, tenant, a restart  *)
(* of the controller) may change the Cluster resource or abort the call.   *)
(* Each method increments a metrics counter labelled with its own kind     *)
(* when it returns (a deferred Inc); the model keeps the set of kinds one  *)
(* call has incremented.                                                   *)
(***************************************************************************)
EXTENDS Validation, Rendering

CONSTANTS
    Payloads,   \* provider-config payloads the resources can carry
    MaxFaults,  \* bound on failed API calls (GetCluster, CreateForSeed, DeleteForSeed)
    ShootNamespace  \* the shoot's namespace in the seed (ex.Namespace, the cluster name)

ASSUME PayloadsAssumption ==
    /\ NilPayload \notin Payloads
    /\ \A p \in Payloads : p.kind \in {"config", "garbage"}
ASSUME MaxFaultsAssumption == MaxFaults \in Nat

VARIABLES
    gate,               \* gardenletFeatureGates[OpenTelemetryCollector]
    clusterHibernated,  \* hibernation of the shoot in the Cluster resource
    mr,                 \* objects of the ManagedResource "external-otelcol" in the seed
    mrCfg,              \* (history) provider config of the call that last applied mr
    worker,             \* the call in flight
    faults              \* failed API calls so far

actuatorVars == <<gate, clusterHibernated, mr, mrCfg, worker, faults>>

(* The gardenlet feature gates New receives through WithGardenletFeatures *)
(* (an empty map when the option is not given): the otelcol gate and one  *)
(* unrelated gate, each absent, false or true.                             *)
FeatureGateMaps ==
    UNION {[features -> BOOLEAN] :
             features \in SUBSET {"OpenTelemetryCollector", "OtherFeature"}}

(* The lookup Reconcile starts with: a missing entry, or the entry's value. *)
GateOf(feats) ==
    IF "OpenTelemetryCollector" \in DOMAIN feats
    THEN IF feats["OpenTelemetryCollector"] THEN "true" ELSE "false"
    ELSE "missing"

GateValues == {GateOf(feats) : feats \in FeatureGateMaps}

(* The triggers of extension.Actuator, named as the metrics label. *)
Triggers == {"reconcile", "delete", "force_delete", "restore", "migrate"}
DeleteTriggers == {"delete", "force_delete"}

(* The steps of a call; "done" holds the result until the controller      *)
(* takes it.                                                               *)
Steps == {"idle", "reconcile", "apply", "delete", "done"}
Results == {"none", "ok", "error", "configError"}

(* The objects AddAllAndSerialize bundles into the managed resource.      *)
(* They depend on the namespace alone, never on the provider config.       *)
RenderedObjects ==
    {TargetAllocatorServiceAccount(ShootNamespace), TargetAllocatorRole(ShootNamespace),
     TargetAllocatorRoleBinding(ShootNamespace), TargetAllocator(ShootNamespace)}

IdleWorker ==
    [pc |-> "idle", trigger |-> "none", payload |-> NilPayload,
     admitted |-> FALSE, hibernated |-> FALSE, result |-> "none",
     counted |-> {}]

Workers ==
    [pc : Steps, trigger : Triggers \cup {"none"},
     payload : Payloads \cup {NilPayload}, admitted : BOOLEAN,
     hibernated : BOOLEAN, result : Results, counted : SUBSET Triggers]

(* The otelcol feature gate is on: present in the map and true. *)
GateOn(g) == g = "true"

(* The kind a wrapping method (Restore, Migrate, ForceDelete) counts when  *)
(* its inner call returns.                                                 *)
WrapperCount(trigger) ==
    IF trigger \in {"restore", "migrate", "force_delete"} THEN {trigger} ELSE {}

(* A method returns to the controller with result r; the deferred         *)
(* counters of the returning methods are incremented.                      *)
Return(r, kinds) ==
    worker' = [worker EXCEPT !.pc = "done", !.result = r,
                             !.counted = @ \cup kinds \cup WrapperCount(worker.trigger)]

-----------------------------------------------------------------------------
(* Variant: ForceDelete calls Reconcile, as Restore and Migrate do. *)
CallForceDeleteReconciles(trigger, payload, admitted) ==
    /\ worker.pc = "idle"
    /\ worker' = [IdleWorker EXCEPT
                    !.pc = IF trigger = "delete" THEN "delete" ELSE "reconcile",
                    !.trigger = trigger, !.payload = payload, !.admitted = admitted]

(***************************************************************************)
(* The controller calls a method of the actuator for the Extension whose  *)
(* provider config is payload; admitted records whether the admission     *)
(* webhook passed it.  Reconcile, Restore and Migrate enter Reconcile;    *)
(* Delete and ForceDelete enter Delete.                                   *)
(***************************************************************************)
Call(trigger, payload, admitted) ==
    /\ worker.pc = "idle"
    /\ worker' = [IdleWorker EXCEPT
                    !.pc = IF trigger \in DeleteTriggers THEN "delete" ELSE "reconcile",
                    !.trigger = trigger, !.payload = payload, !.admitted = admitted]

(* Variant: only a missing feature gate counts as off (!ok && !feature). *)
ReconcileGetClusterGateMissingOnly ==
    /\ worker.pc = "reconcile"
    /\ \/ /\ gate = "missing"
          /\ worker' = [worker EXCEPT !.pc = "delete"]
          /\ UNCHANGED faults
       \/ /\ gate # "missing"
          /\ worker' = [worker EXCEPT !.pc = "apply", !.hibernated = clusterHibernated]
          /\ UNCHANGED faults
       \/ /\ gate # "missing"
          /\ faults < MaxFaults
          /\ faults' = faults + 1
          /\ Return("error", {"reconcile"})
    /\ UNCHANGED <<gate, clusterHibernated, mr, mrCfg>>

(* Reconcile, first step: a missing or disabled feature gate turns the    *)
(* call into Delete (before the reconcile counter is deferred); otherwise *)
(* the Cluster resource is read, which may fail.                          *)
ReconcileGetCluster ==
    /\ worker.pc = "reconcile"
    /\ \/ /\ ~GateOn(gate)
          /\ worker' = [worker EXCEPT !.pc = "delete"]
          /\ UNCHANGED faults
       \/ /\ GateOn(gate)
          /\ worker' = [worker EXCEPT !.pc = "apply", !.hibernated = clusterHibernated]
          /\ UNCHANGED faults
       \/ /\ GateOn(gate)
          /\ faults < MaxFaults
          /\ faults' = faults + 1
          /\ Return("error", {"reconcile"})
    /\ UNCHANGED <<gate, clusterHibernated, mr, mrCfg>>

(* Variant: the target allocator is left out of AddAllAndSerialize. *)
ReconcileApplyMissingObject ==
    /\ worker.pc = "apply"
    /\ \/ /\ worker.hibernated
          /\ Return("ok", {"reconcile"})
          /\ UNCHANGED <<mr, mrCfg>>
       \/ /\ ~worker.hibernated
          /\ ~ConfigOK(worker.payload)
          /\ Return("configError", {"reconcile"})
          /\ UNCHANGED <<mr, mrCfg>>
       \/ /\ ~worker.hibernated
          /\ ConfigOK(worker.payload)
          /\ mr' = RenderedObjects \ {TargetAllocator(ShootNamespace)}
          /\ mrCfg' = worker.payload
          /\ Return("ok", {"reconcile"})
    /\ UNCHANGED <<gate, clusterHibernated, faults>>

(* Variant: an invalid provider config tears the running bundle down. *)
ReconcileApplyTearDownOnConfigError ==
    /\ worker.pc = "apply"
    /\ \/ /\ worker.hibernated
          /\ Return("ok", {"reconcile"})
          /\ UNCHANGED <<mr, mrCfg, faults>>
       \/ /\ ~worker.hibernated
          /\ ~ConfigOK(worker.payload)
          /\ mr' = {}
          /\ Return("configError", {"reconcile"})
          /\ UNCHANGED <<mrCfg, faults>>
       \/ /\ ~worker.hibernated
          /\ ConfigOK(worker.payload)
          /\ mr' = RenderedObjects
          /\ mrCfg' = worker.payload
          /\ Return("ok", {"reconcile"})
          /\ UNCHANGED faults
       \/ /\ ~worker.hibernated
          /\ ConfigOK(worker.payload)
          /\ faults < MaxFaults
          /\ faults' = faults + 1
          /\ Return("error", {"reconcile"})
          /\ UNCHANGED <<mr, mrCfg>>
    /\ UNCHANGED <<gate, clusterHibernated>>

(* Variant: the error of CreateForSeed is dropped and Reconcile returns   *)
(* nil.                                                                   *)
ReconcileApplyDroppingError ==
    /\ worker.pc = "apply"
    /\ \/ /\ worker.hibernated
          /\ Return("ok", {"reconcile"})
          /\ UNCHANGED <<mr, mrCfg, faults>>
       \/ /\ ~worker.hibernated
          /\ ~ConfigOK(worker.payload)
          /\ Return("configError", {"reconcile"})
          /\ UNCHANGED <<mr, mrCfg, faults>>
       \/ /\ ~worker.hibernated
          /\ ConfigOK(worker.payload)
          /\ mr' = RenderedObjects
          /\ mrCfg' = worker.payload
          /\ Return("ok", {"reconcile"})
          /\ UNCHANGED faults
       \/ /\ ~worker.hibernated
          /\ ConfigOK(worker.payload)
          /\ faults < MaxFaults
          /\ faults' = faults + 1
          /\ Return("ok", {"reconcile"})
          /\ UNCHANGED <<mr, mrCfg>>
    /\ UNCHANGED <<gate, clusterHibernated>>

(* Reconcile, second step: nothing to do for a hibernated shoot; a nil,   *)
(* undecodable or invalid provider config fails the call and leaves the   *)
(* managed resource as it is; otherwise the rendered objects are         *)
(* serialised and CreateForSeed writes them; either call may fail, and   *)
(* then nothing is written.                                               *)
ReconcileApply ==
    /\ worker.pc = "apply"
    /\ \/ /\ worker.hibernated
          /\ Return("ok", {"reconcile"})
          /\ UNCHANGED <<mr, mrCfg, faults>>
       \/ /\ ~worker.hibernated
          /\ ~ConfigOK(worker.payload)
          /\ Return("configError", {"reconcile"})
          /\ UNCHANGED <<mr, mrCfg, faults>>
       \/ /\ ~worker.hibernated
          /\ ConfigOK(worker.payload)
          /\ mr' = RenderedObjects
          /\ mrCfg' = worker.payload
          /\ Return("ok", {"reconcile"})
          /\ UNCHANGED faults
       \/ /\ ~worker.hibernated
          /\ ConfigOK(worker.payload)
          /\ faults < MaxFaults
          /\ faults' = faults + 1
          /\ Return("error", {"reconcile"})
          /\ UNCHANGED <<mr, mrCfg>>
    /\ UNCHANGED <<gate, clusterHibernated>>

(* Variant: the error of DeleteForSeed is dropped and Delete returns nil. *)
DeleteManagedResourceDroppingError ==
    /\ worker.pc = "delete"
    /\ \/ /\ mr' = {}
          /\ UNCHANGED faults
       \/ /\ faults < MaxFaults
          /\ faults' = faults + 1
          /\ mr' \in {mr, {}}
    /\ Return("ok", {"delete"})
    /\ UNCHANGED <<gate, clusterHibernated, mrCfg>>

(* Delete: DeleteForSeed removes the managed resource and then its secret; *)
(* an absent object is not an error.  It fails either before anything is  *)
(* removed or after the managed resource is gone.                          *)
DeleteManagedResource ==
    /\ worker.pc = "delete"
    /\ \/ /\ mr' = {}
          /\ Return("ok", {"delete"})
          /\ UNCHANGED faults
       \/ /\ faults < MaxFaults
          /\ faults' = faults + 1
          /\ mr' \in {mr, {}}
          /\ Return("error", {"delete"})
    /\ UNCHANGED <<gate, clusterHibernated, mrCfg>>

ActuatorStep == ReconcileGetCluster \/ ReconcileApply \/ DeleteManagedResource
=============================================================================
