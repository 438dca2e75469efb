----------------------------- MODULE Rendering -----------------------------
(***************************************************************************)
(* The objects Reconcile bundles into the managed resource, modelled from  *)
(* the name constants, getLabels and the getTargetAllocator* helpers of    *)
(* pkg/actuator/actuator.go.  Each object is a record of the fields that  *)
(* tie the objects together (kind, name, namespace, labels, references);  *)
(* image, resources and security settings are fixed literals that no      *)
(* other object refers to and are left out.  Label keys are abstracted to *)
(* short names.                                                            *)
(***************************************************************************)
EXTENDS Sequences

(* The resource names of actuator.go, derived from baseResourceName. *)
ResourceNames ==
    LET base == "external-otelcol" IN
    [managedResource               |-> base,
     otelCollector                 |-> base,
     otelCollectorServiceAccount   |-> base \o "-collector",
     targetAllocator               |-> base,
     targetAllocatorService        |-> base \o "-targetallocator",
     targetAllocatorServiceAccount |-> base \o "-targetallocator",
     targetAllocatorRole           |-> base \o "-targetallocator"]

(* getLabels: the role and observability labels and the network-policy   *)
(* labels that allow traffic to DNS, the runtime API server, private and *)
(* public networks, the Target Allocator service on port 80 and all      *)
(* scrape targets.                                                        *)
CommonLabels ==
    [role                          |-> "observability",
     gardenRole                    |-> "observability",
     observabilityApplication      |-> ResourceNames.otelCollector,
     toDNS                         |-> "allowed",
     toRuntimeAPIServer            |-> "allowed",
     toPrivateNetworks             |-> "allowed",
     toPublicNetworks              |-> "allowed",
     toTargetAllocatorServicePort80 |-> "allowed",
     toAllScrapeTargets            |-> "allowed"]

(* getTargetAllocatorServiceAccount: no automounted token. *)
TargetAllocatorServiceAccount(namespace) ==
    [kind |-> "ServiceAccount", name |-> ResourceNames.targetAllocatorServiceAccount,
     namespace |-> namespace, labels |-> CommonLabels, automountToken |-> FALSE]

(* getTargetAllocatorRole: read access (get, list, watch) to the core,    *)
(* discovery and Prometheus-operator resources the Target Allocator       *)
(* discovers scrape targets from.                                          *)
ReadVerbs == {"get", "list", "watch"}
TargetAllocatorRole(namespace) ==
    [kind |-> "Role", name |-> ResourceNames.targetAllocatorRole,
     namespace |-> namespace, labels |-> CommonLabels,
     rules |-> {[apiGroup |-> "", verbs |-> ReadVerbs,
                 resources |-> {"pods", "services", "endpoints", "secrets", "namespaces"}],
                [apiGroup |-> "discovery.k8s.io", verbs |-> ReadVerbs,
                 resources |-> {"endpointslices"}],
                [apiGroup |-> "monitoring.coreos.com", verbs |-> ReadVerbs,
                 resources |-> {"servicemonitors", "podmonitors", "scrapeconfigs", "probes"}]}]

(* Variant: the binding names the collector's service account instead of *)
(* the Target Allocator's.                                                 *)
TargetAllocatorRoleBindingCollectorAccount(namespace) ==
    [kind |-> "RoleBinding", name |-> ResourceNames.targetAllocatorRole,
     namespace |-> namespace, labels |-> CommonLabels,
     roleRef |-> [kind |-> "Role", name |-> ResourceNames.targetAllocatorRole],
     subjects |-> <<[kind |-> "ServiceAccount",
                     name |-> ResourceNames.otelCollectorServiceAccount,
                     namespace |-> namespace]>>]

(* getTargetAllocatorRoleBinding: binds the Role to the Target            *)
(* Allocator's service account in the same namespace.                      *)
TargetAllocatorRoleBinding(namespace) ==
    [kind |-> "RoleBinding", name |-> ResourceNames.targetAllocatorRole,
     namespace |-> namespace, labels |-> CommonLabels,
     roleRef |-> [kind |-> "Role", name |-> ResourceNames.targetAllocatorRole],
     subjects |-> <<[kind |-> "ServiceAccount",
                     name |-> ResourceNames.targetAllocatorServiceAccount,
                     namespace |-> namespace]>>]

(* getTargetAllocator: one replica, running as its service account, with *)
(* the Prometheus CR discovery enabled for its own namespace only and     *)
(* service monitors selected by prometheus=shoot.                          *)
TargetAllocator(namespace) ==
    [kind |-> "TargetAllocator", name |-> ResourceNames.targetAllocator,
     namespace |-> namespace, labels |-> CommonLabels,
     replicas |-> 1,
     serviceAccount |-> ResourceNames.targetAllocatorServiceAccount,
     prometheusCR |-> [enabled |-> TRUE, allowNamespaces |-> <<namespace>>,
                       serviceMonitorSelector |-> [prometheus |-> "shoot"]]]
=============================================================================
