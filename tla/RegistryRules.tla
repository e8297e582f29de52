---------------------------- MODULE RegistryRules ----------------------------
(***************************************************************************)
(* The workflow registry as data: what a registry file and an environment  *)
(* overlay say, how defaults and overlays are resolved, and the load-time  *)
(* rules R1-R15 that admit a file as a whole or refuse it as a whole       *)
(* (registry/schema.py, registry/loader.py).                               *)
(*                                                                         *)
(* A document is [yaml, typed, apiVersion, defaults, workflows]: whether   *)
(* it is a readable YAML mapping without duplicate keys, whether it has    *)
(* the schema's fields and types, and the sequence of its entries.  The    *)
(* string formats the rules test with patterns are sets: a secret          *)
(* reference is indirect or it is not, a path is relative or it is not.    *)
(***************************************************************************)
EXTENDS Integers, Sequences, FiniteSets

CONSTANTS Unset,                  \* a field the file leaves out (Python's None)
          IndirectRefs,           \* secret references of the form env:/keyring:
          RelativePaths,          \* trigger paths without a host
          Hashes,                 \* well-formed definition hashes
          ServerMaxArgumentBytes  \* the deployment's ceiling

LimitKeys == {"max_concurrent", "quorum_count", "max_argument_bytes",
              "execution_ttl_seconds"}

EntriesOf(d) == {d.workflows[i] : i \in DOMAIN d.workflows}
Repeated(d, field) == \E i, j \in DOMAIN d.workflows :
                        i < j /\ d.workflows[i][field] = d.workflows[j][field]

(***************************** resolution **********************************)
OrElse(v, default) == IF v = Unset THEN default ELSE v

Resolve(entry, defaults) ==
  [entry EXCEPT !.approval = OrElse(@, defaults.approval),
                !.limits.execution_ttl_seconds = OrElse(@, defaults.execution_ttl_seconds)]

\* what is stored and hashed: the document with its entries resolved
ResolveDocument(d) ==
  [d EXCEPT !.workflows = [i \in DOMAIN @ |-> Resolve(@[i], d.defaults)]]

HasEntry(d, w) == \E e \in EntriesOf(d) : e.id = w
EntryIn(d, w)  == CHOOSE e \in EntriesOf(d) : e.id = w

\* the overlay's fields replace the base's, unchecked
ResolveOverlay(base, overlay) ==
  IF overlay = Unset THEN base
  ELSE [base EXCEPT
          !.n8n_workflow_id = OrElse(overlay.n8n_workflow_id, @),
          !.definition_hash = OrElse(overlay.definition_hash, @),
          !.trigger.path = OrElse(overlay.trigger_path, @),
          !.trigger.secret_ref = OrElse(overlay.trigger_secret_ref, @),
          !.approval = OrElse(overlay.approval_override, @),
          !.limits = [k \in LimitKeys |-> IF k \in DOMAIN overlay.limits_override
                                          THEN overlay.limits_override[k] ELSE @[k]]]

(***************************** rules R1-R12, R15 ***************************)
R1(d) == d.apiVersion = "n8n-operator/v1"
R2(d) == ~Repeated(d, "id")
R3(d) == ~Repeated(d, "n8n_workflow_id")
R4(e) == e.input_schema = "closed"
R6(e) == e.trigger.auth = "none" \/ e.trigger.secret_ref \in IndirectRefs
R7(e) == e.definition_hash \in Hashes
R8(e) == e.trigger.path \in RelativePaths
R9(e) == e.redact = "parses"
R11(e) == LET b == e.limits.max_argument_bytes
          IN  b = Unset \/ b \in 1..ServerMaxArgumentBytes
R12(e) == e.trigger.correlation = "none" \/ e.trigger.type = "webhook"

\* judged on the effective policy, after defaults
R5(e)  == e.approval = "none" => e.side_effects = "read_only"
R10(e) == e.risk = "high" => e.approval = "required"
R15(e) == e.approval = "none" => e.limits.quorum_count <= 1

\* (mutant: R5, R10 and R15 judged on the entries as written, before defaults)
CheckRules_Raw(d) ==
  /\ R1(d) /\ R2(d) /\ R3(d)
  /\ \A e \in EntriesOf(d) : /\ R4(e) /\ R6(e) /\ R7(e) /\ R8(e) /\ R9(e) /\ R11(e) /\ R12(e)
                            /\ R5(e) /\ R10(e) /\ R15(e)

CheckRules(d) ==
  /\ R1(d) /\ R2(d) /\ R3(d)
  /\ \A e \in EntriesOf(d) :
       /\ R4(e) /\ R6(e) /\ R7(e) /\ R8(e) /\ R9(e) /\ R11(e) /\ R12(e)
  /\ \A e \in EntriesOf(ResolveDocument(d)) : R5(e) /\ R10(e) /\ R15(e)

ReadsAsYaml(d) == d.yaml
Parses(d) == d.typed

\* no partial success
Loads(d) == ReadsAsYaml(d) /\ Parses(d) /\ CheckRules(d)

(***************************** overlay rules R13-R14 ***********************)
Direction == [max_concurrent |-> "lower", quorum_count |-> "raise",
              max_argument_bytes |-> "lower", execution_ttl_seconds |-> "lower"]

R13(overlays, base) ==
  /\ \A o \in overlays : HasEntry(base, o.workflow_id) /\ DOMAIN o.limits_override \subseteq LimitKeys
  /\ \A o, p \in overlays : o.workflow_id = p.workflow_id => o = p

Strengthens(key, value, baseValue) ==
  \/ baseValue = Unset
  \/ Direction[key] = "lower" /\ value <= baseValue
  \/ Direction[key] = "raise" /\ value >= baseValue

R14(o, base) == \A k \in DOMAIN o.limits_override \cap LimitKeys :
                   Strengthens(k, o.limits_override[k], EntryIn(base, o.workflow_id).limits[k])

\* the overlay's approval is "required" or absent by its type; judged against
\* the base registry that is active when the file is loaded
OverlayLoads(overlays, base) ==
  /\ \A o \in overlays : o.approval_override \in {"required", Unset}
  /\ R13(overlays, base)
  /\ \A o \in overlays : R14(o, base)
=============================================================================
