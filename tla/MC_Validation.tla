---------------------------- MODULE MC_Validation ----------------------------
(***************************************************************************)
(* Model-checking harness for the validator: the state is the config a    *)
(* tenant has written, each step edits one of its settings, and the      *)
(* invariants compare Validate with the rules of the spec.                *)
(***************************************************************************)
EXTENDS Validation, FiniteSets

CONSTANTS EndpointSample, BufferSample, RefSample

VARIABLE cfg

Configs == ConfigSpace(EndpointSample, BufferSample, RefSample)

Init == cfg = ZeroConfig

(* The tenant edits one setting of the provider config. *)
SetExporter == \E f \in {"debug", "otlphttp"}, v \in Tri :
                   cfg' = [cfg EXCEPT ![f] = v]
SetEndpoint == \E p \in SetOf(URLFieldPaths), v \in EndpointSample :
                   cfg' = [cfg EXCEPT !.endpoints[p] = v]
SetBuffer   == \E p \in SetOf(BufferFieldPaths), v \in BufferSample :
                   cfg' = [cfg EXCEPT !.buffers[p] = v]
SetRef      == \E p \in SetOf(RefFieldPaths), v \in RefSample :
                   cfg' = [cfg EXCEPT !.refs[p] = v]

Next == SetExporter \/ SetEndpoint \/ SetBuffer \/ SetRef

Spec == Init /\ [][Next]_cfg

(* Sample values for the cfg files. *)
EndpointsParsing == {"", GoodURL, "%zz"}
EndpointsSpec    == {"", GoodURL, "not a url"}
Buffers          == {-1, 0}
RefsTwo          == {NilRef, [set |-> TRUE, name |-> TRUE, dataKey |-> FALSE]}

-----------------------------------------------------------------------------
(* The rules of spec section 4.2, stated per rule rather than per loop:   *)
(* the set of paths a config violates.                                     *)
SpecDefects(c) ==
       (IF \E e \in {c.debug, c.otlphttp} : e = "true" THEN {} ELSE {ExportersPath})
  \cup {p \in SetOf(URLFieldPaths) : c.endpoints[p] # "" /\ URLParseFails(c.endpoints[p])}
  \cup {p \in SetOf(BufferFieldPaths) : c.buffers[p] < 0}
  \cup {p \in SetOf(RefFieldPaths) : c.refs[p] # NilRef /\ ~(c.refs[p].name /\ c.refs[p].dataKey)}

(* Validation accumulation (spec 8): Validate never stops at the first    *)
(* failure: the error list names every violated rule, each exactly once,  *)
(* and nothing else, so a config with several defects reports them all.   *)
ValidateReportsEveryDefect ==
    LET errs == Validate(cfg)
    IN  /\ {errs[i].field : i \in DOMAIN errs} = SpecDefects(cfg)
        /\ Len(errs) = Cardinality(SpecDefects(cfg))

(* The URL rule as spec 4.2 and 8 state it: a non-empty endpoint that is  *)
(* not an absolute URL ("not a url" in spec 8) is reported on its path.   *)
(* Validate delegates to url.Parse, which accepts relative references.    *)
SpecURLRule ==
    \A p \in SetOf(URLFieldPaths) :
        (cfg.endpoints[p] \notin {"", GoodURL}) =>
            \E i \in DOMAIN Validate(cfg) : Validate(cfg)[i].field = p
=============================================================================
