----------------------- MODULE OtelcolInvariantProofs -----------------------
(***************************************************************************)
(* Proofs that the invariants system_safety checks hold for every         *)
(* instance: the wiring of the bundle Reconcile writes, the intent of a   *)
(* call in flight, the admitted flag, the strengthening that rules out an *)
(* orphaned managed resource, and what a nil return promises about the   *)
(* seed.  The step lemmas come from                                       *)
(* OtelcolSystemProofs and OtelcolRefinementProofs; this module adds the  *)
(* facts about the rendered objects that BundleWired rests on.            *)
(***************************************************************************)
EXTENDS OtelcolRefinementProofs, FiniteSetTheorems

(* The four objects getTargetAllocatorServiceAccount, getTargetAllocator- *)
(* Role, getTargetAllocatorRoleBinding and getTargetAllocator render.      *)
SA   == TargetAllocatorServiceAccount(ShootNamespace)
Role == TargetAllocatorRole(ShootNamespace)
RB   == TargetAllocatorRoleBinding(ShootNamespace)
TA   == TargetAllocator(ShootNamespace)

(* The rendered objects carry four different kinds. *)
LEMMA RenderedKindsDistinct ==
    /\ SA.kind = "ServiceAccount" /\ Role.kind = "Role"
    /\ RB.kind = "RoleBinding"    /\ TA.kind = "TargetAllocator"
BY DEF SA, Role, RB, TA, TargetAllocatorServiceAccount, TargetAllocatorRole,
       TargetAllocatorRoleBinding, TargetAllocator

(* In the rendered bundle, each kind picks out the object of that kind. *)
LEMMA RenderedObjectOfKind ==
    /\ (CHOOSE o \in RenderedObjects : o.kind = "ServiceAccount") = SA
    /\ (CHOOSE o \in RenderedObjects : o.kind = "Role") = Role
    /\ (CHOOSE o \in RenderedObjects : o.kind = "RoleBinding") = RB
    /\ (CHOOSE o \in RenderedObjects : o.kind = "TargetAllocator") = TA
<1>1. RenderedObjects = {SA, Role, RB, TA}
  BY DEF RenderedObjects, SA, Role, RB, TA
<1>2. \A o \in RenderedObjects :
        /\ o.kind = "ServiceAccount" <=> o = SA
        /\ o.kind = "Role" <=> o = Role
        /\ o.kind = "RoleBinding" <=> o = RB
        /\ o.kind = "TargetAllocator" <=> o = TA
  BY <1>1, RenderedKindsDistinct
<1>3. QED
  BY <1>1, <1>2

(* The rendered bundle has exactly four objects. *)
LEMMA RenderedCardinality == IsFiniteSet(RenderedObjects) /\ Cardinality(RenderedObjects) = 4
<1>1. RenderedObjects = (((({} \cup {SA}) \cup {Role}) \cup {RB}) \cup {TA})
  BY DEF RenderedObjects, SA, Role, RB, TA
<1>2. SA # Role /\ SA # RB /\ SA # TA /\ Role # RB /\ Role # TA /\ RB # TA
  BY RenderedKindsDistinct
<1>3. IsFiniteSet({} \cup {SA}) /\ Cardinality({} \cup {SA}) = 1
  BY FS_EmptySet, FS_AddElement
<1>4. IsFiniteSet(({} \cup {SA}) \cup {Role}) /\ Cardinality(({} \cup {SA}) \cup {Role}) = 2
  BY <1>2, <1>3, FS_AddElement
<1>5. IsFiniteSet((({} \cup {SA}) \cup {Role}) \cup {RB})
      /\ Cardinality((({} \cup {SA}) \cup {Role}) \cup {RB}) = 3
  BY <1>2, <1>4, FS_AddElement
<1>6. IsFiniteSet(((({} \cup {SA}) \cup {Role}) \cup {RB}) \cup {TA})
      /\ Cardinality(((({} \cup {SA}) \cup {Role}) \cup {RB}) \cup {TA}) = 4
  BY <1>2, <1>5, FS_AddElement
<1>7. QED
  BY <1>1, <1>6

(* The bundle Reconcile renders is wired consistently: whatever the       *)
(* namespace, the RoleBinding names the Role and the Target Allocator's   *)
(* own service account, the Target Allocator runs as that account and     *)
(* watches its own namespace, and all four objects share the namespace    *)
(* and the labels of getLabels.                                            *)
LEMMA RenderedWired == mr = RenderedObjects => BundleWired
<1> SUFFICES ASSUME mr = RenderedObjects PROVE BundleWired
  OBVIOUS
<1>1. {o.kind : o \in RenderedObjects}
        = {"ServiceAccount", "Role", "RoleBinding", "TargetAllocator"}
  BY RenderedKindsDistinct DEF RenderedObjects, SA, Role, RB, TA
<1>2. \A o \in RenderedObjects : o.namespace = ShootNamespace /\ o.labels = CommonLabels
  <2>1. /\ SA.namespace = ShootNamespace   /\ SA.labels = CommonLabels
        /\ Role.namespace = ShootNamespace /\ Role.labels = CommonLabels
        /\ RB.namespace = ShootNamespace   /\ RB.labels = CommonLabels
        /\ TA.namespace = ShootNamespace   /\ TA.labels = CommonLabels
    BY DEF SA, Role, RB, TA, TargetAllocatorServiceAccount, TargetAllocatorRole,
           TargetAllocatorRoleBinding, TargetAllocator
  <2>2. RenderedObjects = {SA, Role, RB, TA}
    BY DEF RenderedObjects, SA, Role, RB, TA
  <2>3. QED
    BY <2>1, <2>2, Zenon
<1>3. /\ RB.roleRef = [kind |-> Role.kind, name |-> Role.name]
      /\ RB.subjects = <<[kind |-> SA.kind, name |-> SA.name, namespace |-> SA.namespace]>>
      /\ TA.serviceAccount = SA.name
      /\ TA.prometheusCR.allowNamespaces = <<TA.namespace>>
  BY DEF SA, Role, RB, TA, TargetAllocatorServiceAccount, TargetAllocatorRole,
         TargetAllocatorRoleBinding, TargetAllocator
<1>4. RenderedObjects # {}
  BY RenderedNonEmpty
<1>5. QED
  BY <1>1, <1>2, <1>3, <1>4, RenderedObjectOfKind, RenderedCardinality DEF BundleWired

-----------------------------------------------------------------------------
(* The managed resource is wired consistently in every reachable state,   *)
(* for every instance: CreateForSeed only ever writes the full rendered    *)
(* bundle (TypeOK), and that bundle is wired (RenderedWired).              *)
THEOREM BundleWiredInvariant == Spec => []BundleWired
<1>1. TypeOK => BundleWired
  BY RenderedWired DEF TypeOK, BundleWired
<1>2. QED
  BY <1>1, TypeCorrect, PTL

(* The strengthening of NoOrphanManagedResource holds in every reachable  *)
(* state: a removed Extension has no call in flight, a Delete or          *)
(* ForceDelete call is in its delete step or done, and one that returned  *)
(* nil has left the managed resource deleted.                             *)
THEOREM NoOrphanInvariant == Spec => []NoOrphanInv
<1>1. Init => IInv
  BY InitTyped DEF Init, IInv, NoOrphanInv, IdleWorker, NoExtensionResource, DeleteTriggers
<1>2. QED
  BY <1>1, NoOrphanStep, PTL DEF Spec, IInv

(* A call in flight only does what its inputs entitle it to, in every     *)
(* reachable state: Reconcile reaches CreateForSeed only with the gate on, *)
(* DeleteForSeed runs only on a deleted Extension or with the gate off,   *)
(* and Delete or ForceDelete runs only for an Extension marked deleted.   *)
THEOREM CallIntent == Spec => []CallIntentInv
<1>1. Init => TypeOK /\ CallIntentInv
  BY InitTyped DEF Init, CallIntentInv, IdleWorker, DeleteTriggers
<1>2. TypeOK /\ CallIntentInv /\ [Next]_vars => (TypeOK /\ CallIntentInv)'
  BY TypeStep, CallIntentStep
<1>3. QED
  BY <1>1, <1>2, PTL DEF Spec

(* The admitted flag is consistent in every reachable state: an admitted  *)
(* Shoot that wants the extension, an admitted Extension and an admitted  *)
(* call all carry a config that validates, and a call that returned a     *)
(* config error carries one that does not.                                 *)
THEOREM AdmittedInvariant == Spec => []AdmittedInv
<1>1. AInv => AdmittedInv
  BY DEF AInv
<1>2. QED
  BY <1>1, AdmittedInit, AdmittedStep, PTL DEF Spec

-----------------------------------------------------------------------------
(* The system keeps the abstract lifecycle's guarantee under the          *)
(* refinement mapping: it implements ManagedResourceLifecycle (Refinement) *)
(* and every lifecycle keeps LifecycleSafe.  Read back through the        *)
(* mapping: a removed Extension is not marked for deletion and has no     *)
(* managed resource written from a config, and the managed resource was  *)
(* written from a config that decodes and validates.                      *)
THEOREM LifecycleGuarantees == Spec => []Lifecycle!LifecycleSafe
BY Refinement, Lifecycle!LifecycleSafeInvariant DEF LifecycleRefinement

(* No orphaned managed resource, obtained from the abstract lifecycle     *)
(* rather than from NoOrphanInv: the mapped bundle is Absent once the     *)
(* Extension is gone, and since the managed resource is only written from *)
(* a valid, hence non-nil, config, Absent means DeleteForSeed removed it. *)
THEOREM NoOrphanFromLifecycle == Spec => []NoOrphanManagedResource
<1>1. Lifecycle!LifecycleSafe /\ OnlyValidConfigApplied => NoOrphanManagedResource
  BY DEF Lifecycle!LifecycleSafe, OnlyValidConfigApplied, NoOrphanManagedResource, ConfigOK
<1>2. QED
  BY <1>1, LifecycleGuarantees, ValidConfigOnly, PTL
-----------------------------------------------------------------------------
(* A returning method keeps what the call was made with: its trigger, its *)
(* payload and the hibernation flag read from the Cluster.                 *)
LEMMA ReturnKeepsCall ==
    ASSUME TypeOK, NEW r, NEW k, Return(r, k)
    PROVE  /\ worker'.pc = "done" /\ worker'.result = r
           /\ worker'.trigger = worker.trigger
           /\ worker'.payload = worker.payload
           /\ worker'.hibernated = worker.hibernated
BY DEF TypeOK, Return, Workers

(* A Reconcile reaches DeleteForSeed only through the feature-gate check, *)
(* so only with the gate off; the gate cannot change under a call, since  *)
(* a redeploy restarts the worker.                                         *)
GateDecided ==
    worker.pc = "delete" /\ worker.trigger \notin DeleteTriggers => ~GateOn(gate)

(* The inductive invariant behind SuccessMeansConverged.  A hibernated    *)
(* Reconcile returns nil without touching the seed, so it needs the gate  *)
(* on (CallIntentInv); a Delete step that returns nil removes the         *)
(* resource, so the call must not be one that promised to write it        *)
(* (GateDecided).                                                         *)
SInv == TypeOK /\ NoOrphanInv /\ CallIntentInv /\ GateDecided /\ SuccessMeansConverged

LEMMA SuccessInit == Init => SInv
BY InitTyped DEF Init, SInv, NoOrphanInv, CallIntentInv, GateDecided,
                 SuccessMeansConverged, IdleWorker, NoExtensionResource, DeleteTriggers

LEMMA SuccessStep == SInv /\ [Next]_vars => SInv'
<1> SUFFICES ASSUME SInv, [Next]_vars PROVE SInv'
  OBVIOUS
<1>0. TypeOK' /\ NoOrphanInv' /\ CallIntentInv'
  BY TypeStep, NoOrphanStep, CallIntentStep DEF SInv, IInv
<1> USE DEF SInv, GateDecided, SuccessMeansConverged
<1>1. CASE TenantUpdate \/ TenantDelete \/ AnnotateOperation \/ StartWebhookServer
  BY <1>0, <1>1 DEF TenantUpdate, TenantDelete, AnnotateOperation, StartWebhookServer,
                    actuatorVars
<1>2. CASE GardenletSync
  BY <1>0, <1>2 DEF GardenletSync
<1>3. CASE Redeploy \/ Complete
  BY <1>0, <1>3 DEF Redeploy, Complete, IdleWorker
<1>4. CASE Dispatch
  <2>1. /\ worker'.pc \in {"delete", "reconcile"}
        /\ worker'.pc = "delete" => worker'.trigger \in DeleteTriggers
    BY <1>4 DEF Dispatch, Call, IdleWorker
  <2>2. QED
    BY <1>0, <2>1
<1>5. CASE ActuatorSteps /\ ReconcileGetCluster
  <2>1. UNCHANGED <<gate, mr, mrCfg>> /\ worker'.trigger = worker.trigger
    BY <1>5 DEF ActuatorSteps, ReconcileGetCluster, Return, TypeOK, Workers
  <2>2. worker'.pc = "delete" => ~GateOn(gate)
    BY <1>5 DEF ActuatorSteps, ReconcileGetCluster, Return, TypeOK, Workers
  <2>3. worker'.pc = "done" => worker'.result = "error"
    BY <1>5 DEF ActuatorSteps, ReconcileGetCluster, Return, TypeOK, Workers
  <2>4. QED
    BY <1>0, <2>1, <2>2, <2>3
<1>6. CASE ActuatorSteps /\ ReconcileApply
  <2>1. worker.pc = "apply" /\ worker.trigger \notin DeleteTriggers /\ GateOn(gate)
    BY <1>6 DEF ActuatorSteps, ReconcileApply, NoOrphanInv, CallIntentInv, DeleteTriggers
  <2>2. UNCHANGED gate
    BY <1>6 DEF ActuatorSteps, ReconcileApply
  <2>3. /\ worker'.pc = "done" /\ worker'.trigger = worker.trigger
        /\ worker'.payload = worker.payload /\ worker'.hibernated = worker.hibernated
    BY <1>6, ReturnKeepsCall DEF ActuatorSteps, ReconcileApply
  <2>4. worker'.result = "ok" /\ ~worker.hibernated
          => mr' = RenderedObjects /\ mrCfg' = worker.payload
    BY <1>6, ReturnKeepsCall DEF ActuatorSteps, ReconcileApply
  <2>5. QED
    BY <1>0, <2>1, <2>2, <2>3, <2>4
<1>7. CASE ActuatorSteps /\ DeleteManagedResource
  <2>1. worker.pc = "delete" /\ UNCHANGED gate
    BY <1>7 DEF ActuatorSteps, DeleteManagedResource
  <2>2. /\ worker'.pc = "done" /\ worker'.trigger = worker.trigger
        /\ (worker'.result = "ok" => mr' = {})
    BY <1>7, ReturnKeepsCall DEF ActuatorSteps, DeleteManagedResource
  <2>3. QED
    BY <1>0, <2>1, <2>2
<1>8. CASE UNCHANGED vars
  BY <1>0, <1>8 DEF vars, actuatorVars
<1>9. QED
  BY <1>1, <1>2, <1>3, <1>4, <1>5, <1>6, <1>7, <1>8 DEF Next, ActuatorSteps, ActuatorStep

(* A nil return is never a lie about the seed, in every reachable state:  *)
(* a Delete, ForceDelete or gate-off Reconcile that returned nil has      *)
(* removed the managed resource, and an awake Reconcile with the gate on  *)
(* that returned nil has written the bundle from its own provider config. *)
THEOREM SuccessConverged == Spec => []SuccessMeansConverged
<1>1. SInv => SuccessMeansConverged
  BY DEF SInv
<1>2. QED
  BY <1>1, SuccessInit, SuccessStep, PTL DEF Spec

=============================================================================
