------------------------------ MODULE Admission ------------------------------
(***************************************************************************)
(* The admission webhook that validates Shoot resources in the garden      *)
(* cluster, modelled from pkg/admission/validator (shootValidator).        *)
(*                                                                         *)
(* A Shoot is abstracted to what the validator and the rest of the model   *)
(* read: the otelcol entry of spec.extensions (absent, or present with its *)
(* *bool disabled flag and its provider config), whether hibernation is    *)
(* enabled, and whether it carries a deletionTimestamp.                    *)
(***************************************************************************)
EXTENDS Validation

(* The otelcol entry of spec.extensions: slices.IndexFunc found no entry   *)
(* with Type = "otelcol", or the entry it found.                           *)
NoExtension == [present |-> FALSE]
ExtensionEntries(payloads) ==
    {NoExtension}
      \cup [present : {TRUE}, disabled : Tri,
            providerConfig : payloads \cup {NilPayload}]

Shoots(payloads) ==
    [ext : ExtensionEntries(payloads), hibernated : BOOLEAN, deleting : BOOLEAN]

(* The entry is present and not disabled (ext.Disabled != nil &&          *)
(* *ext.Disabled is the only way to turn it off).                          *)
ExtensionEnabled(shoot) ==
    shoot.ext.present /\ shoot.ext.disabled # "true"

(* Variant: a disabled flag that is set at all (ext.Disabled != nil)      *)
(* skips validation, whatever its value.                                   *)
AdmissionVerdictDisabledSet(shoot) ==
    CASE shoot.deleting                             -> "ok"
      [] ~shoot.ext.present                         -> "ok"
      [] shoot.ext.disabled # "unset"               -> "ok"
      [] shoot.ext.providerConfig = NilPayload      -> "errNoProviderConfig"
      [] ~Decodes(shoot.ext.providerConfig)         -> "errDecode"
      [] ~ValidationOK(shoot.ext.providerConfig.cfg) -> "errInvalid"
      [] OTHER                                      -> "ok"

(* shootValidator.Validate and validateExtension: the verdict on an update *)
(* of the Shoot, "ok" when admitted.  A Shoot being deleted and a Shoot    *)
(* without the extension are admitted (IgnoreExtensionNotFound), so is a  *)
(* disabled entry; otherwise the provider config must be present, decode  *)
(* and validate.                                                           *)
AdmissionVerdict(shoot) ==
    CASE shoot.deleting                             -> "ok"
      [] ~shoot.ext.present                         -> "ok"
      [] shoot.ext.disabled = "true"                -> "ok"
      [] shoot.ext.providerConfig = NilPayload      -> "errNoProviderConfig"
      [] ~Decodes(shoot.ext.providerConfig)         -> "errDecode"
      [] ~ValidationOK(shoot.ext.providerConfig.cfg) -> "errInvalid"
      [] OTHER                                      -> "ok"
=============================================================================
