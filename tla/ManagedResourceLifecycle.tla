---------------------- MODULE ManagedResourceLifecycle ----------------------
(***************************************************************************)
(* What the extension promises about the managed resource of one shoot,   *)
(* with the calls, steps, retries and failures that implement it left     *)
(* out (spec.md 4.4, 4.5 and 5):                                           *)
(*   - the bundle exists only while its Extension resource does;          *)
(*   - it is only ever written from a configuration that validates, and   *)
(*     only while the feature gate is on;                                  *)
(*   - it is removed only when the Extension is being deleted or the      *)
(*     feature gate is off, never because a configuration is invalid;     *)
(*   - the Extension is released (its finalizer removed) only after it    *)
(*     was marked for deletion and the bundle is gone.                    *)
(* A write may come after the deletion mark: a call that started before   *)
(* it may still finish.                                                    *)
(***************************************************************************)
EXTENDS TLAPS

CONSTANTS
    Configs,        \* the provider configs the Extension may carry
    ValidConfigs,   \* those that decode and validate
    Absent          \* the value of bundle when no managed resource exists

VARIABLES
    exists,     \* the Extension resource exists
    deleting,   \* it is marked for deletion
    featureOn,  \* the feature gate is on
    bundle      \* Absent, or the config the managed resource was written from

lifecycleVars == <<exists, deleting, featureOn, bundle>>

Init ==
    /\ exists = FALSE
    /\ deleting = FALSE
    /\ featureOn \in BOOLEAN
    /\ bundle = Absent

(* The Extension resource is created for the shoot. *)
Create ==
    /\ ~exists
    /\ exists' = TRUE
    /\ UNCHANGED <<deleting, featureOn, bundle>>

(* The Extension is marked for deletion. *)
MarkDeletion ==
    /\ exists /\ ~deleting
    /\ deleting' = TRUE
    /\ UNCHANGED <<exists, featureOn, bundle>>

(* The feature gate is switched. *)
SwitchFeature ==
    /\ featureOn' = ~featureOn
    /\ UNCHANGED <<exists, deleting, bundle>>

(* The managed resource is written from a valid configuration. *)
Apply(c) ==
    /\ exists /\ featureOn
    /\ c \in ValidConfigs
    /\ bundle' = c
    /\ UNCHANGED <<exists, deleting, featureOn>>

(* The managed resource is removed: a teardown, never a config error. *)
Remove ==
    /\ deleting \/ ~featureOn
    /\ bundle' = Absent
    /\ UNCHANGED <<exists, deleting, featureOn>>

(* The finalizer is removed and the Extension with it. *)
Release ==
    /\ exists /\ deleting
    /\ bundle = Absent
    /\ exists' = FALSE
    /\ deleting' = FALSE
    /\ UNCHANGED <<featureOn, bundle>>

Next ==
    \/ Create \/ MarkDeletion \/ SwitchFeature
    \/ \E c \in Configs : Apply(c)
    \/ Remove \/ Release

Spec == Init /\ [][Next]_lifecycleVars

-----------------------------------------------------------------------------
(* What the lifecycle guarantees in every state: a managed resource        *)
(* exists only while its Extension does, and it was written from a valid  *)
(* configuration; an Extension that is gone is not marked for deletion.   *)
LifecycleSafe ==
    /\ ~exists => bundle = Absent /\ ~deleting
    /\ bundle \in ValidConfigs \cup {Absent}

(* Every lifecycle keeps LifecycleSafe: Apply writes only a valid config  *)
(* and only while the Extension exists, and Release lets the Extension go *)
(* only once Remove has cleared the bundle.                                *)
THEOREM LifecycleSafeInvariant == Spec => []LifecycleSafe
<1>1. Init => LifecycleSafe
  BY DEF Init, LifecycleSafe
<1>2. LifecycleSafe /\ [Next]_lifecycleVars => LifecycleSafe'
  BY DEF LifecycleSafe, Next, Create, MarkDeletion, SwitchFeature, Apply, Remove,
         Release, lifecycleVars
<1>3. QED
  BY <1>1, <1>2, PTL DEF Spec
=============================================================================
