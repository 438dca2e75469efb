-------------------------- MODULE MC_OtelcolSystem --------------------------
(***************************************************************************)
(* Model-checking harness for OtelcolSystem: three payloads (a valid      *)
(* config, a config with no exporter enabled, and bytes that do not       *)
(* decode), one failure of an API call, and a few environment changes.    *)
(***************************************************************************)
EXTENDS OtelcolSystem

(* The debug exporter enabled, nothing else set. *)
ValidPayload      == Encode([ZeroConfig EXCEPT !.debug = "true"])
(* An empty exporters block: Validate reports "no exporter enabled". *)
NoExporterPayload == Encode(ZeroConfig)

MCPayloads == {ValidPayload, NoExporterPayload, GarbagePayload}
=============================================================================
