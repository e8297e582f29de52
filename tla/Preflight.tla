------------------------------ MODULE Preflight ------------------------------
(***************************************************************************)
(* The checks made against an n8n instance before an operation is offered  *)
(* and again before it is executed (n8n/preflight.py).                     *)
(*                                                                         *)
(* A definition is [hash, path, bound]: its canonical hash, the path and   *)
(* method of its first webhook node (any value that is not an entry's path *)
(* if it has none), whether every node that names a credential type has    *)
(* one bound.  What is live under a workflow id is Missing or              *)
(* [def, active].                                                          *)
(***************************************************************************)
CONSTANTS Missing,       \* no such workflow on the instance
          Definitions    \* definitions a workflow may have

\* canonicalization keeps nodes, their parameters and credential bindings and
\* drops only layout and pinned data: equal hashes mean the same webhook and
\* the same bindings
ASSUME CanonicalForm == \A d, e \in Definitions :
                           d.hash = e.hash => d.path = e.path /\ d.bound = e.bound

Skipped == "skipped"
Verdict(ok) == IF ok THEN "pass" ELSE "fail"

\* the instance answers, is down, or answers the health check and then fails
\* to return the workflow
InstanceStates == {"up", "down", "failing"}

Fetched(live, state) == state = "up" /\ live # Missing

TriggerCompatible(entry, def)  == Verdict(def.path = entry.trigger.path)
DefinitionUnchanged(entry, def) == Verdict(def.hash = entry.definition_hash)
CredentialBindings(def)        == Verdict(def.bound)

\* no supported API versions are configured by any caller
CompatibleVersion == "unverifiable"
Correlation(entry) == IF entry.trigger.correlation = "none" THEN "warn" ELSE "pass"
Unattended(entry)  == IF entry.approval = "none" /\ entry.side_effects = "read_only"
                      THEN "warn" ELSE "pass"

Checks(entry, live, state) ==
  LET fetched == Fetched(live, state) IN
  [instance_reachable    |-> Verdict(state # "down"),
   compatible_version    |-> IF state = "down" THEN Skipped ELSE CompatibleVersion,
   workflow_exists       |-> IF state = "down" THEN Skipped ELSE Verdict(fetched),
   workflow_active       |-> IF fetched THEN Verdict(live.active) ELSE Skipped,
   trigger_compatibility |-> IF fetched THEN TriggerCompatible(entry, live.def) ELSE Skipped,
   definition_unchanged  |-> IF fetched THEN DefinitionUnchanged(entry, live.def) ELSE Skipped,
   credential_bindings   |-> IF fetched THEN CredentialBindings(live.def) ELSE Skipped,
   credential_validity   |-> "unverifiable",
   correlation           |-> Correlation(entry),
   unattended_execution  |-> Unattended(entry)]

\* only "fail" blocks
Ready(checks) == \A c \in DOMAIN checks : checks[c] # "fail"
=============================================================================
