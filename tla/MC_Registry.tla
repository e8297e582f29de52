----------------------------- MODULE MC_Registry -----------------------------
EXTENDS Registry, TLC

Base == [id |-> "crm.sync", n8n_workflow_id |-> "w1", definition_hash |-> "hA", enabled |-> TRUE,
         trigger |-> [type |-> "webhook", path |-> "/a", auth |-> "header",
                      secret_ref |-> "env:BASE", correlation |-> "none"],
         input_schema |-> "closed", approval |-> Unset, side_effects |-> "external_write",
         risk |-> "medium", redact |-> "parses",
         limits |-> [max_concurrent |-> 1, quorum_count |-> 1, max_argument_bytes |-> Unset,
                     execution_ttl_seconds |-> Unset]]
File == [yaml |-> TRUE, typed |-> TRUE, apiVersion |-> "n8n-operator/v1", workflows |-> <<Base>>,
         defaults |-> [approval |-> "required", execution_ttl_seconds |-> 2]]
With(entry) == [File EXCEPT !.workflows = <<entry>>]

GoodFiles ==
  {File,                                                   \* approval by default
   With([Base EXCEPT !.definition_hash = "hB", !.trigger.path = "/b"]),    \* a new definition
   With([Base EXCEPT !.n8n_workflow_id = "w2"]),           \* moved to a copy of the workflow
   With([Base EXCEPT !.trigger.path = "/b"]),              \* a path n8n does not serve
   With([Base EXCEPT !.approval = "none", !.side_effects = "read_only"]),
   With([Base EXCEPT !.enabled = FALSE])}

BadFiles ==
  {[File EXCEPT !.yaml = FALSE], [File EXCEPT !.typed = FALSE],
   [File EXCEPT !.apiVersion = "n8n-operator/v0"],                               \* R1
   [File EXCEPT !.workflows = <<Base, [Base EXCEPT !.n8n_workflow_id = "w2"]>>], \* R2
   [File EXCEPT !.workflows = <<Base, [Base EXCEPT !.id = "crm.other"]>>],       \* R3
   With([Base EXCEPT !.input_schema = "open"]),                                  \* R4
   [File EXCEPT !.defaults.approval = "none"],                                   \* R5
   With([Base EXCEPT !.trigger.secret_ref = "hunter2"]),                         \* R6
   With([Base EXCEPT !.definition_hash = "sha1:0"]),                             \* R7
   With([Base EXCEPT !.trigger.path = "//host/a"]),                              \* R8
   With([Base EXCEPT !.redact = "broken"]),                                      \* R9
   With([Base EXCEPT !.risk = "high", !.approval = "none",
                     !.side_effects = "read_only"]),                             \* R10
   With([Base EXCEPT !.limits.max_argument_bytes = 9]),                          \* R11
   With([Base EXCEPT !.approval = "none", !.side_effects = "read_only",
                     !.limits.quorum_count = 2])}                                \* R15

NoOverride == [workflow_id |-> "crm.sync", n8n_workflow_id |-> Unset, definition_hash |-> Unset,
               trigger_path |-> Unset, trigger_secret_ref |-> Unset, approval_override |-> Unset,
               limits_override |-> [k \in {} |-> 0]]
MCOverlayFiles ==
  {{},
   {[NoOverride EXCEPT !.trigger_secret_ref = "env:STAGING"]},
   {[NoOverride EXCEPT !.n8n_workflow_id = "w2", !.definition_hash = "hB", !.trigger_path = "/b"]},
   {[NoOverride EXCEPT !.trigger_path = "/a"]},
   {[NoOverride EXCEPT !.approval_override = "required"]},
   {[NoOverride EXCEPT !.approval_override = "none"]},                           \* by type
   {[NoOverride EXCEPT !.workflow_id = "crm.unknown"]},                          \* R13
   {[NoOverride EXCEPT !.limits_override = [max_concurrent |-> 2]]}}             \* R14

MCFiles == GoodFiles \union BadFiles
MCDefinitions == {[hash |-> "hA", path |-> "/a", bound |-> TRUE],
                  [hash |-> "hB", path |-> "/b", bound |-> TRUE],
                  [hash |-> "hC", path |-> "/a", bound |-> FALSE]}
AdminSymmetry == Permutations(Admins)
=============================================================================
