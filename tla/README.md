# TLA+ verification of gardener-extension-otelcol

This directory holds TLA+ models of the OpenTelemetry collector extension for
Gardener: its configuration validator, its admission webhook and its actuator.
The models are placed in the environment that drives them: the tenant, the
gardenlet and the generic extension controller. TLC model-checks them on small
instances. TLAPS proves every safety invariant of the passing system-level
runs, and the refinement, for every instance.

## The system

- **Validator** (`pkg/apis/config/validation/validation.go`). `Validate` checks a
  decoded `CollectorConfig`:
  - at least one exporter is enabled;
  - five endpoint URLs parse;
  - two buffer sizes are not negative;
  - four secret references have a name and a data key.

  It accumulates every error. Both the webhook and the actuator call it.
- **Admission webhook** (`src/unnamed/part_004`, package `validator`). It
  validates every update of a Shoot that carries the otelcol label. It accepts
  the update in these cases:
  - the Shoot is being deleted;
  - the Shoot has no otelcol entry;
  - the entry is disabled.

  Otherwise the provider config must be present, must decode and must pass
  `Validate`.
- **Webhook server** (`src/unnamed/part_000`). `runWebhookServer` builds the
  manager, registers the validator and starts serving. Updates made before
  that are not validated.
- **Actuator** (`pkg/actuator/actuator.go`):
  - `Reconcile` turns a missing or false `OpenTelemetryCollector` feature gate
    into `Delete`. Otherwise it reads the Cluster, skips a hibernated shoot,
    decodes and validates the provider config, and writes the managed
    resource `external-otelcol` with `CreateForSeed`.
  - `Delete` calls `DeleteForSeed`, ignoring NotFound.
  - `ForceDelete` calls `Delete`. `Restore` and `Migrate` call `Reconcile`.
  - Every method increments a metrics counter, labelled with its own kind, when
    it returns.
- **Environment** (Gardener, not in this repository, modelled from `spec.md`):
  - the gardenlet copies the Shoot into the seed's Cluster and Extension
    resources;
  - the extension controller calls the actuator one call at a time per
    Extension;
  - the controller records the last operation and retries failures;
  - it removes the finalizer, and with it the Extension, after a delete
    returns nil.

## Modules

| Module | Models | State and actions |
|---|---|---|
| `Validation` | `validation.go`, the config types | `Validate` as a sequence of field errors. `TableErrors` models each of its loops. `URLParseFails` gives `url.Parse`'s outcome on representative strings. The payloads are `Encode`, `GarbagePayload` and `NilPayload`, plus `ConfigOK`. |
| `Admission` | `part_004` | `AdmissionVerdict(shoot)` follows the exact order of the validator's early returns. |
| `Actuator` | `actuator.go` | Variables: `gate`, `clusterHibernated`, `mr` (the objects of the managed resource), `mrCfg` (history: the config of the write), `worker` (the call in flight: step, trigger, payload, result, counted kinds) and `faults`. The actions are one per API access: `ReconcileGetCluster` (gate check and `GetCluster`), `ReconcileApply` (hibernation, decode, validate, `CreateForSeed`) and `DeleteManagedResource`. `Call` enters a method. Every API call may fail, up to `MaxFaults` failures; a failing delete may happen after the managed resource is gone. |
| `Rendering` | `actuator.go` 41-87, 345-483 | The four objects of the bundle (the Target Allocator's ServiceAccount, Role, RoleBinding and `TargetAllocator`) as records of the fields that tie them together: kind, name, namespace, labels, role reference, subjects, service account and allowed namespaces. |
| `ManagedResourceLifecycle` | spec §4.4, §4.5, §5 | The abstract specification: what the extension promises about one shoot's managed resource. It also states and proves its safety guarantee `LifecycleSafe`. Variables: `exists`, `deleting`, `featureOn` and `bundle`. Actions: `Create`, `MarkDeletion`, `SwitchFeature`, `Apply(c)` (valid configs only, gate on), `Remove` (only on deletion or with the gate off) and `Release` (only once the bundle is gone). |
| `OtelcolSystem` | the composition | Adds `shoot`, `shootAdmitted` (history), `ext` (the Extension resource), `edits` and `webhookServing`. Actions: `TenantUpdate`, `TenantDelete`, `StartWebhookServer`, `GardenletSync`, `AnnotateOperation` (migrate/restore), `Redeploy` (new feature gate, call in flight lost), `Dispatch`, `Complete` and `ActuatorSteps`. |
| `MC_Validation` | harness | Edits one config field at a time, starting from the zero config. |
| `MC_OtelcolSystem` | harness | Three payloads: a valid one, a decodable one with no exporter enabled, and an undecodable one. |
| `OtelcolSystemProofs` | proofs | `TypeCorrect` and `NoOrphan`. |
| `OtelcolRefinementProofs` | proofs | `AdmittedNeverFails` and `Refinement`, with the helper `ValidConfigOnly`. |
| `OtelcolInvariantProofs` | proofs | One theorem per invariant of `system_safety` not yet stated: `BundleWiredInvariant`, `NoOrphanInvariant`, `CallIntent`, `AdmittedInvariant` and `SuccessConverged`. It also holds the lifecycle's guarantee read back through the refinement: `LifecycleGuarantees` and `NoOrphanFromLifecycle`. |

Each action models a whole step of the code:
- `ReconcileApply` includes every early return in order.
- The deferred counter increment is part of the `Return` of every step.

Each module holds a few `Variant` operators next to the definition they change.
Each variant is a plausible bug in that code, used to confirm that the
properties detect it.

## Runs

| Run | Config | Expect | Shows |
|---|---|---|---|
| `validation_accumulation` | `MC_Validation.cfg` | pass | `ValidateReportsEveryDefect`: the errors of `Validate` name every violated rule exactly once, over about 140k configs (endpoints `""`, a good URL and `%zz`; buffers -1 and 0; nil, complete and incomplete references). |
| `validation_url_rule` | `MC_ValidationURL.cfg` | violation | `SpecURLRule`: the endpoint `"not a url"` from spec §8 passes `Validate`, because Go's `url.Parse` accepts it as a relative reference. |
| `system_safety` | `MC_OtelcolSystem.cfg` | pass | See the list after this table. It covers about 2.3M states. |
| `system_liveness` | `MC_OtelcolLiveness.cfg` | pass | `Convergence`: once the inputs stop changing, the managed resource is absent when the gate is off or the shoot does not want the extension, and present when everything allows it. `DeletionCompletes`: a deleted shoot's Extension is eventually removed. |
| `system_refinement` | `MC_OtelcolRefinement.cfg` | pass | `LifecycleRefinement`: every behaviour of the system is a behaviour of `ManagedResourceLifecycle` under the refinement mapping. The run uses `MaxEdits = 2` because checking a refinement costs more. |
| `hibernation_short_circuit` | `MC_OtelcolHibernation.cfg` | violation | `HibernatedReconcileKeepsBundle`: spec §8's hibernation short-circuit, for the remove half. While the Cluster is hibernated and the Extension is not marked for deletion, no step of a Reconcile, Restore or Migrate call removes the managed resource. TLC finds an 11-state trace: the bundle is written, the gardenlet syncs the hibernation, the extension is redeployed with the gate missing, and the next `Reconcile` deletes the bundle without reading the Cluster. |
| `metrics_counter` | `MC_OtelcolMetrics.cfg` | violation | `EveryTriggerCounted`: with the gate off, a `Reconcile` call counts only `delete`. |

The `system_safety` run checks these properties:
- `NoOrphanManagedResource`: no managed resource remains after its Extension is
  removed.
- `NoOrphanInv`: its inductive strengthening.
- `AdmittedConfigNeverFailsReconcile`: a config the webhook admitted never fails
  reconciliation with a config error.
- `AdmittedInv`: its inductive strengthening. An admitted Shoot, Extension or
  call payload validates, and a call that returned a config error had a payload
  that does not.
- `CallIntentInv`: a call only writes while the gate is on. It only deletes
  while the Extension is being deleted or the gate is off. A call triggered by a
  delete belongs to an Extension marked for deletion.
- `BundleWired`: a written bundle holds exactly the four objects, all in the
  shoot's namespace with the common labels. The RoleBinding refers to the Role
  and to the Target Allocator's service account. The Target Allocator runs as
  that account and watches only its own namespace.
- `SuccessMeansConverged`: a nil return is never a lie about the seed. A
  `Delete`, a `ForceDelete` or a gate-off `Reconcile` that returned nil has
  removed the managed resource. An awake `Reconcile` with the gate on that
  returned nil has written the full bundle from its own provider config. It
  fails as soon as an error of `CreateForSeed` or `DeleteForSeed` is dropped.

That only valid configs are ever applied, even for Shoots stored before the
webhook served, is part of `LifecycleRefinement`: the abstract `Apply` takes a
valid config only.

**The decoders.** The model gives the webhook and the actuator one `DecodeInto`
outcome per payload. In the code, the webhook builds a strict universal decoder
(`part_004:141`). The actuator uses whatever decoder the caller of `New`
injects (`WithDecoder`), and that caller is not in this repository. Every
system property therefore assumes that the two decoders agree. No property can
detect a disagreement between them, so the hazard stays listed without one.

**Refinement mapping.** `OtelcolSystem` instantiates `ManagedResourceLifecycle`
with these mappings:
- `exists` is `ext.exists`;
- `deleting` is `ext.deleting # "no"`;
- `featureOn` is `GateOn(gate)`;
- `bundle` is `mrCfg` while `mr` is non-empty, and `NilPayload` otherwise;
- the valid configs are the payloads with `ConfigOK`.

Every retry, fault, stale write and lost call maps to a stutter or to one
abstract step. In particular, a config error leaves the bundle alone, because
the abstract `Remove` is only allowed on deletion or with the gate off.

**Bounds.**
- `MaxFaults = 1` allows one failed API call in every position of every call.
  That includes a delete that fails after removing the managed resource.
- `MaxEdits = 3` allows three environment changes in the safety run. Among them
  are an update, a deletion, a migrate/restore annotation and a redeploy with
  another feature gate, in any order. This covers these interleavings:
  - a delete racing a redeploy;
  - a hibernation flip between `GetCluster` and `CreateForSeed`;
  - a disabled entry that is then re-enabled.
- The liveness run uses `MaxEdits = 2`. Liveness checking costs more, and every
  liveness scenario needs at most two changes: a gate flip and a deletion.

**Fairness.** Weak fairness applies to `GardenletSync`, `Dispatch`, `Complete`
and the actuator's steps. The gardenlet resyncs periodically. The controller
works its queue and requeues failures with backoff. Every API call returns,
because the client has timeouts. The tenant, the webhook start and redeploys get
no fairness. Faults and edits are bounded, so eventually they stop, which is the
"inputs stable" premise of convergence.

## Findings

1. `validation.go:62` relies on `url.Parse`, which rejects almost nothing. Spec
   §8's scenario `endpoint = "not a url"` produces no error.
2. `actuator.go:222-235` returns through `Delete` before it defers the
   `reconcile` counter. The counter therefore misses gate-off reconciles, against
   spec §4.4 ("every trigger increments").
3. `actuator.go:222` checks the feature gate before it reads the Cluster, in
   the order spec §4.4 gives. With the gate off, a `Reconcile` of a hibernated
   shoot therefore deletes its managed resource. Spec §8 says a hibernated
   cluster sees "neither apply nor remove". The spec contradicts itself for
   this case, and the code follows §4.4.

`src/pkg/apis/config/types.go` in this snapshot has no `DebugExporter`, `Token`
or TLS reference fields, but `validation.go` reads them. The model follows
`validation.go` and the API reference in `part_001`.

**Rendering does not use the configuration.** Spec §4.4 step 5 says the bundle
is rendered "from the validated configuration". In this snapshot `Reconcile`
validates the config and then renders objects that depend only on the
namespace: no `OpenTelemetryCollector` is rendered and the config is discarded.
The model follows the code. `mrCfg` records the config of the write only as
history. The refinement mapping and `SuccessMeansConverged` read it.

## Proofs

`OtelcolSystemProofs` proves two theorems with TLAPS, for every set of payloads
and every `MaxFaults` and `MaxEdits` in `Nat`. The proofs rest on the
assumptions `PayloadsAssumption`, `MaxFaultsAssumption` and
`MaxEditsAssumption`.

- **`TypeCorrect`**: `Spec => []TypeOK`. Its lemmas are `InitTyped` and
  `TypeStep`, with one case per action. They use `ReturnTyped` (a returning
  method leaves a well-typed worker) and `TriggerForTyped`.
- **`NoOrphan`**: `Spec => []NoOrphanManagedResource`. The property alone is not
  inductive, because a `Complete` step removes the Extension, and nothing in
  `~ext.exists => mr = {}` says the managed resource was already gone. The
  strengthening `NoOrphanInv` adds three facts:
  - a removed Extension has no call in flight;
  - a call with a delete trigger is only ever in its delete step or done;
  - a delete trigger that returned nil has left `mr` empty.

  TLC checks `NoOrphanInv` in `system_safety`. The proof shows
  `Init => TypeOK /\ NoOrphanInv`, that every action preserves it, and that it
  implies the property.

`OtelcolRefinementProofs` proves two theorems, from the same assumptions.
Before them comes the helper `ValidConfigOnly`: `Spec => []OnlyValidConfigApplied`,
which says a written managed resource came from a config with `ConfigOK`. It
follows in one step from the `ConfigOK` guard on the write and is used only by
`NoOrphanFromLifecycle`, so no run checks it.
- **`AdmittedNeverFails`**: `Spec => []AdmittedConfigNeverFailsReconcile`. It
  rests on `AInv == TypeOK /\ AdmittedInv`. Admission is a history bit that
  travels with the payload: Shoot, then Extension, then call. The property
  alone is not inductive, because it says nothing about the payload of a call
  in flight. The lemma `VerdictImpliesConfigOK` shows that an accepted verdict
  for a Shoot that wants the extension implies `ConfigOK`.
- **`Refinement`**: `Spec => LifecycleRefinement`. It rests on
  `RInv == NoOrphanInv /\ CallIntentInv`. `CallIntentInv` is needed because a
  write or delete that lands later must still be allowed by the abstract
  `Apply` or `Remove`. `CallIntentStep` shows that it is inductive. The lemma
  `RefinementStep` maps each system step to `[Lifecycle!Next]_LVars`, with one
  case per action. The initial states map by definition.

`OtelcolInvariantProofs` states every other invariant of `system_safety` for
every instance:
- **`BundleWiredInvariant`**: `Spec => []BundleWired`. `TypeOK` already
  confines `mr` to `{}` or the rendered bundle. The rest is about the renderers,
  for every namespace:
  - `RenderedKindsDistinct`: the four objects have four kinds.
  - `RenderedObjectOfKind`: the `CHOOSE` by kind picks the right object.
  - `RenderedCardinality`: the bundle has four elements, by `FS_AddElement`
    applied four times.
  - `RenderedWired`: the references line up.
- **`NoOrphanInvariant`**, **`CallIntent`** and **`AdmittedInvariant`**: the
  strengthenings `NoOrphanInv`, `CallIntentInv` and `AdmittedInv` hold in every
  reachable state. Each follows from its step lemma (`NoOrphanStep`,
  `CallIntentStep`, `AdmittedStep`) and the initial states.
- **`LifecycleGuarantees`**: `Spec => []Lifecycle!LifecycleSafe`. It combines
  `Refinement` with `LifecycleSafeInvariant`, which `ManagedResourceLifecycle`
  proves for the abstract lifecycle: the bundle is absent once the Extension is
  gone, and it is always absent or valid.
- **`NoOrphanFromLifecycle`**: `NoOrphanManagedResource` derived a second way,
  from the abstract guarantee. Through the mapping, a gone Extension has the
  bundle `NilPayload`. With `ValidConfigOnly`, a written managed resource has a
  non-nil config, so `mr` is empty. This shows that the refinement mapping
  carries the abstract promise over to the seed.
- **`SuccessConverged`**: `Spec => []SuccessMeansConverged`. The property is
  not inductive as it stands. A `Delete` step that returns nil empties `mr`,
  so it would break the second half for a `Reconcile` caller with the gate on.
  The strengthening `SInv` therefore adds `NoOrphanInv`, `CallIntentInv` and
  `GateDecided`: a `Reconcile` reaches `DeleteForSeed` only with the gate off.
  The gate cannot change under a call, because a redeploy restarts the worker.
  `CallIntentInv` covers a hibernated `Reconcile`, which returns nil without
  touching the seed. It then needs the gate on, or the gate-off half would
  demand an empty `mr`. TLC checked `SInv` on the `system_safety` instance
  before the proof. The lemma `ReturnKeepsCall` says that a returning method
  keeps the call's trigger, payload and hibernation flag. `SuccessStep` has one
  case per action.

Only TLC checks these:
- liveness (`Convergence`, `DeletionCompletes`), which needs fairness and
  `ENABLED`, beyond the prover;
- the validator's accumulation property (`ValidateReportsEveryDefect`). Each
  loop of `Validate` appends in table order, and `TableErrors` models that
  with `SelectSeq`. tlapm 1.4.5 treats `SelectSeq` as an uninterpreted
  operator: it cannot even evaluate it on a three-element literal. Writing
  the loop as a recursive function instead would need the inductive-definition
  theorems of `NaturalsInduction`, which take an operator parameter that the
  installed provers cannot instantiate.

## Not modelled

- CLI flags, manager, TLS and leader-election setup (`part_000`): configuration
  I/O.
- The image vector (`part_002`).
- The generated API documentation (`part_001`).
- Tests, the Makefile and the dev deploy script.
- Fixed literals of the rendered objects that nothing refers to: image, resources
  and security context.
- `getAnnotations` (`actuator.go:366`): it is defined but never called.
- Concurrent calls for one Extension: spec §5 makes the controller serialise
  them, and the model assumes it.

## Plan

- A two-seed model of control-plane migration. Spec §4.4 makes `Migrate` an
  intentional alias of `Reconcile` and says nothing about the source seed, so
  there is not yet a property to state.
- Liveness under a larger `MaxEdits`.
