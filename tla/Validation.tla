----------------------------- MODULE Validation -----------------------------
(***************************************************************************)
(* The configuration of the extension (the decoded provider config) and    *)
(* the validator that both the admission webhook and the actuator call,    *)
(* modelled from pkg/apis/config/validation/validation.go.                 *)
(*                                                                         *)
(* A CollectorConfig is abstracted to the fields Validate reads: the two   *)
(* exporters' *bool enabled flags, the five endpoint strings, the two      *)
(* buffer sizes and the four secret references.  Everything Validate does  *)
(* not read (encoding, compression, retry policy, timeouts) is left out.   *)
(* A string is a member of a small set of representative values, and       *)
(* url.Parse is modelled by what it does on each of them.                  *)
(***************************************************************************)
EXTENDS Integers, Sequences

(* A Go *bool: nil, pointer to false, pointer to true. *)
Tri == {"unset", "false", "true"}

(* DebugExporterConfig.IsEnabled / OTLPHTTPExporterConfig.IsEnabled: an   *)
(* unset flag counts as disabled (the method is not part of the sources). *)
IsEnabled(flag) == flag = "true"

(* The field paths Validate reports, in the order its tables list them. *)
URLFieldPaths ==
    << "spec.exporters.otlphttp.endpoint",
       "spec.exporters.otlphttp.traces_endpoint",
       "spec.exporters.otlphttp.metrics_endpoint",
       "spec.exporters.otlphttp.logs_endpoint",
       "spec.exporters.otlphttp.profiles_endpoint" >>
BufferFieldPaths ==
    << "spec.exporters.otlphttp.read_buffer_size",
       "spec.exporters.otlphttp.write_buffer_size" >>
RefFieldPaths ==
    << "spec.exporters.otlphttp.token",
       "spec.exporters.otlphttp.tls.ca",
       "spec.exporters.otlphttp.tls.cert",
       "spec.exporters.otlphttp.tls.key" >>
ExportersPath == "spec.exporters"

SetOf(seq) == {seq[i] : i \in DOMAIN seq}

(* Representative endpoint strings.  "" is the unset field.              *)
GoodURL == "https://otel.example.com:4318"
EndpointValues ==
    {"", GoodURL, "not a url", "http://[::1", "%zz"}

(* url.Parse: Go's net/url rejects an unterminated IPv6 host literal       *)
(* ("missing ']' in host") and a malformed percent-escape ("invalid URL    *)
(* escape"); it accepts "not a url" as a relative reference (no scheme,    *)
(* no colon in the first segment, no control character).                  *)
URLParseFails(v) == v \in {"http://[::1", "%zz"}

(* A *config.ResourceReference: nil, or a reference whose name and        *)
(* dataKey are each empty or not.                                          *)
NilRef == [set |-> FALSE]
RefValues ==
    {NilRef} \cup [set : {TRUE}, name : BOOLEAN, dataKey : BOOLEAN]

(* The CollectorConfig, over given sets of field values. *)
ConfigSpace(Endpoints, Buffers, Refs) ==
    [ debug     : Tri,
      otlphttp  : Tri,
      endpoints : [SetOf(URLFieldPaths) -> Endpoints],
      buffers   : [SetOf(BufferFieldPaths) -> Buffers],
      refs      : [SetOf(RefFieldPaths) -> Refs] ]

(* The zero value of config.CollectorConfig: what decoding "{}" yields. *)
ZeroConfig ==
    [ debug     |-> "unset",
      otlphttp  |-> "unset",
      endpoints |-> [p \in SetOf(URLFieldPaths) |-> ""],
      buffers   |-> [p \in SetOf(BufferFieldPaths) |-> 0],
      refs      |-> [p \in SetOf(RefFieldPaths) |-> NilRef] ]

(* field.Required / field.Invalid of a path. *)
FieldError(path, type) == [field |-> path, type |-> type]

(* The errors of one table of fields: a field.Invalid for every path of    *)
(* the table that is in bad (the paths whose value the check rejects), in  *)
(* table order.                                                            *)
TableErrors(paths, bad) ==
    LET kept == SelectSeq(paths, LAMBDA p : p \in bad)
    IN  [i \in 1..Len(kept) |-> FieldError(kept[i], "Invalid")]

ExporterErrors(cfg) ==
    IF IsEnabled(cfg.debug) \/ IsEnabled(cfg.otlphttp)
    THEN << >>
    ELSE << FieldError(ExportersPath, "Required") >>

BadEndpoint(cfg, p) == cfg.endpoints[p] # "" /\ URLParseFails(cfg.endpoints[p])
BadBuffer(cfg, p)   == cfg.buffers[p] < 0
BadRef(cfg, p)      == cfg.refs[p].set /\ ~(cfg.refs[p].name /\ cfg.refs[p].dataKey)

(* Variant: Validate returns as soon as one check fails. *)
ValidateFirstError(cfg) ==
    LET all == ExporterErrors(cfg)
                 \o TableErrors(URLFieldPaths,    {p \in SetOf(URLFieldPaths) : BadEndpoint(cfg, p)})
                 \o TableErrors(BufferFieldPaths, {p \in SetOf(BufferFieldPaths) : BadBuffer(cfg, p)})
                 \o TableErrors(RefFieldPaths,    {p \in SetOf(RefFieldPaths) : BadRef(cfg, p)})
    IN  IF all = << >> THEN << >> ELSE << Head(all) >>

(* Validate: every check runs and every failure is appended to allErrs;   *)
(* the aggregate is nil exactly when the list is empty.                    *)
Validate(cfg) ==
    ExporterErrors(cfg)
      \o TableErrors(URLFieldPaths,    {p \in SetOf(URLFieldPaths) : BadEndpoint(cfg, p)})
      \o TableErrors(BufferFieldPaths, {p \in SetOf(BufferFieldPaths) : BadBuffer(cfg, p)})
      \o TableErrors(RefFieldPaths,    {p \in SetOf(RefFieldPaths) : BadRef(cfg, p)})

ValidationOK(cfg) == Validate(cfg) = << >>

-----------------------------------------------------------------------------
(***************************************************************************)
(* The provider config as the resources carry it: an opaque payload, nil  *)
(* when absent.  runtime.DecodeInto succeeds on the encoding of a         *)
(* CollectorConfig and fails on anything else.                            *)
(***************************************************************************)
NilPayload     == [kind |-> "nil"]
GarbagePayload == [kind |-> "garbage"]
Encode(cfg)    == [kind |-> "config", cfg |-> cfg]
Decodes(p)     == p.kind = "config"

(* The whole check both callers make once a provider config is present:   *)
(* it decodes and the decoded config validates.                           *)
ConfigOK(p) == p # NilPayload /\ Decodes(p) /\ ValidationOK(p.cfg)
=============================================================================
