------------------------------ MODULE Registry ------------------------------
(***************************************************************************)
(* From registry file to webhook call.  Administrators load registry files *)
(* (service.reload_registry) and the overlay of one environment            *)
(* (service.reload_overlay); n8n users edit and switch the workflows of    *)
(* that environment's instance; callers prepare, approve, execute and      *)
(* dispatch operations of one governed workflow, each reading whatever is  *)
(* active when its transaction reads it.                                   *)
(*                                                                         *)
(* A transaction reads committed rows only; its read and its commit are    *)
(* separate steps wherever n8n is called, or another writer can come, in   *)
(* between.  Idempotency, quorum, expiry and the handle have modules of    *)
(* their own and are left out here.                                        *)
(***************************************************************************)
EXTENDS RegistryRules, Preflight

CONSTANTS Files,          \* what the registry file may hold when it is loaded
          OverlayFiles,   \* what the overlay file may hold: sets of overlay entries
          Workflow,       \* the registry id callers prepare
          N8nWorkflows,   \* workflow ids of the environment's n8n instance
          Admins, Ops,
          EnableV2,
          MaxLoads,       \* snapshots inserted
          MaxEdits        \* changes of the instance and of the overlay

\* the fields of a workflow entry that this module reads
EntryFields == {"enabled", "n8n_workflow_id", "definition_hash", "trigger", "approval",
                "side_effects", "risk"}

ASSUME RegistryAssumption ==
  \A f \in Files : Parses(f) =>
    /\ "workflows" \in DOMAIN f
    /\ \A e \in EntriesOf(f) : EntryFields \subseteq DOMAIN e

VARIABLES snapshots,      \* committed registry_snapshots rows: [document, loaded_at]
          reloading,      \* per administrator, the open reload transaction
          overlay,        \* the workflow_environment_overlays row of Workflow
          instance,       \* the environment's n8n instance
          operations,
          loads, edits    \* clock of loaded_at; budget of outside changes

vars == <<snapshots, reloading, overlay, instance, operations, loads, edits>>

None == "none"
Idle == [pc |-> "idle"]
Fresh == [state |-> "NEW", approved |-> FALSE]

(***************************** what is active ******************************)
\* get_latest: the committed snapshot loaded most recently
Latest(rows) == CHOOSE r \in rows : \A q \in rows : q.loaded_at <= r.loaded_at
ActiveDocument == Latest(snapshots).document
ByContent(document) == {r \in snapshots : r.document = document}

Bodies == {ResolveDocument(d) : d \in {f \in Files : Loads(f)}}

Init ==
  /\ snapshots \in {{[document |-> d, loaded_at |-> 1]} : d \in Bodies}
  /\ reloading = [a \in Admins |-> Idle]
  /\ overlay = Unset
  /\ instance \in [N8nWorkflows ->
                     {[def |-> d, active |-> TRUE] : d \in {e \in Definitions : e.bound}}]
  /\ operations = [o \in Ops |-> Fresh]
  /\ loads = 1
  /\ edits = 0

(***************************** registry reload *****************************)
\* load_registry judges the whole file before the database is touched; a
\* document that is stored already is reused
ReloadBegin(a, file) ==
  /\ reloading[a] = Idle
  /\ Loads(file)
  /\ ByContent(ResolveDocument(file)) = {}
  /\ loads < MaxLoads
  /\ reloading' = [reloading EXCEPT ![a] = [pc |-> "loaded", document |-> ResolveDocument(file)]]
  /\ UNCHANGED <<snapshots, overlay, instance, operations, loads, edits>>

\* the row is flushed, its loaded_at taken; content_hash is unique, so the
\* insert waits for an open one and fails on a committed one
ReloadInsert(a) ==
  LET document == reloading[a].document IN
  /\ reloading[a].pc = "loaded"
  /\ \A b \in Admins : reloading[b].pc = "inserted" => reloading[b].document # document
  /\ IF ByContent(document) = {} /\ loads < MaxLoads
     THEN /\ loads' = loads + 1
          /\ reloading' = [reloading EXCEPT ![a] =
               [pc |-> "inserted", document |-> document, loaded_at |-> loads + 1]]
     ELSE /\ reloading' = [reloading EXCEPT ![a] = Idle]
          /\ UNCHANGED loads
  /\ UNCHANGED <<snapshots, overlay, instance, operations, edits>>

\* snapshot, bindings and audit entry become visible together
ReloadCommit(a) ==
  /\ reloading[a].pc = "inserted"
  /\ snapshots' = snapshots \union
       {[document |-> reloading[a].document, loaded_at |-> reloading[a].loaded_at]}
  /\ reloading' = [reloading EXCEPT ![a] = Idle]
  /\ UNCHANGED <<overlay, instance, operations, loads, edits>>

(***************************** overlay reload ******************************)
\* a workflow the file does not name loses its row
OverlayRow(file) ==
  IF \E o \in file : o.workflow_id = Workflow
  THEN CHOOSE o \in file : o.workflow_id = Workflow
  ELSE Unset

\* judged against the base that is active now, then replaces every row of the
\* environment
ReloadOverlay(file) ==
  /\ edits < MaxEdits
  /\ OverlayLoads(file, ActiveDocument)
  /\ overlay' = OverlayRow(file)
  /\ edits' = edits + 1
  /\ UNCHANGED <<snapshots, reloading, instance, operations, loads>>

(***************************** the n8n instance ****************************)
\* what the instance has under an id, if anything
Live(w) == IF w \in N8nWorkflows THEN instance[w] ELSE Missing

EditWorkflow(w, def) ==
  /\ edits < MaxEdits
  /\ instance[w] # Missing
  /\ instance' = [instance EXCEPT ![w].def = def]
  /\ edits' = edits + 1
  /\ UNCHANGED <<snapshots, reloading, overlay, operations, loads>>

SwitchWorkflow(w) ==
  /\ edits < MaxEdits
  /\ instance[w] # Missing
  /\ instance' = [instance EXCEPT ![w].active = ~@]
  /\ edits' = edits + 1
  /\ UNCHANGED <<snapshots, reloading, overlay, operations, loads>>

DeleteWorkflow(w) ==
  /\ edits < MaxEdits
  /\ instance[w] # Missing
  /\ instance' = [instance EXCEPT ![w] = Missing]
  /\ edits' = edits + 1
  /\ UNCHANGED <<snapshots, reloading, overlay, operations, loads>>

(***************************** prepare *************************************)
Set(o, op) ==
  /\ operations' = [operations EXCEPT ![o] = op]
  /\ UNCHANGED <<snapshots, reloading, overlay, instance, loads, edits>>

\* _apply_environment: the overlay exists in v2 only
Merged(base) == IF EnableV2 THEN ResolveOverlay(base, overlay) ELSE base

\* the transaction reads the active snapshot and the overlay ...
PrepareRead(o) ==
  LET document == ActiveDocument
      base == EntryIn(document, Workflow) IN
  /\ operations[o].state = "NEW"
  /\ HasEntry(document, Workflow)
  /\ base.enabled
  /\ Set(o, [state |-> "PREPARING", approved |-> FALSE, snapshot |-> document,
             contract |-> Merged(base), definition_hash |-> Merged(base).definition_hash])

\* ... asks n8n, and commits the operation in the state the answer decides
Offered(contract, checks) ==
  IF ~Ready(checks) THEN "BLOCKED"
  ELSE IF contract.approval = "none" THEN "APPROVED" ELSE "PENDING_APPROVAL"

PrepareCommit(o, up) ==
  LET op == operations[o]
      checks == Checks(op.contract, Live(op.contract.n8n_workflow_id), up) IN
  /\ op.state = "PREPARING"
  /\ Set(o, [op EXCEPT !.state = Offered(op.contract, checks)])

Approve(o) ==
  /\ operations[o].state = "PENDING_APPROVAL"
  /\ Set(o, [operations[o] EXCEPT !.state = "APPROVED", !.approved = TRUE])

(***************************** execute and dispatch ************************)
\* step 7: the entry of the snapshot that is active now, without its overlay,
\* must have the hash the operation recorded
Drifted(op) == \/ ~HasEntry(ActiveDocument, Workflow)
               \/ EntryIn(ActiveDocument, Workflow).definition_hash # op.definition_hash

ExecuteRead(o) ==
  LET op == operations[o] IN
  /\ op.state = "APPROVED"
  /\ ~Drifted(op)
  /\ Set(o, [state |-> "CHECKING", approved |-> op.approved, snapshot |-> op.snapshot,
             contract |-> op.contract, definition_hash |-> op.definition_hash,
             current |-> EntryIn(ActiveDocument, Workflow)])

\* steps 8-10: the live workflow is fetched and hashed again; a refusal
\* rolls back and leaves the operation as it was
ExecuteCommit(o, up) ==
  LET op == operations[o]
      live == Live(op.current.n8n_workflow_id) IN
  /\ op.state = "CHECKING"
  /\ IF Ready(Checks(op.current, live, up))
     THEN Set(o, [state |-> "EXECUTING", approved |-> op.approved, snapshot |-> op.snapshot,
                  contract |-> op.contract, definition_hash |-> op.definition_hash,
                  verified |-> live.def])
     ELSE Set(o, [state |-> "APPROVED", approved |-> op.approved, snapshot |-> op.snapshot,
                  contract |-> op.contract, definition_hash |-> op.definition_hash])

\* (mutant: dispatch reads the entry of the snapshot that is active now)
FrozenEntry_Active(op) == EntryIn(ActiveDocument, Workflow)

\* _entry_for_operation: the entry of the snapshot the operation recorded
FrozenEntry(op) == EntryIn(op.snapshot, Workflow)

\* the webhook of the frozen entry is called
Dispatch(o) ==
  LET op == operations[o] IN
  /\ op.state = "EXECUTING"
  /\ Set(o, [state |-> "DISPATCHED", approved |-> op.approved, snapshot |-> op.snapshot,
             contract |-> op.contract, definition_hash |-> op.definition_hash,
             verified |-> op.verified, trigger |-> FrozenEntry(op).trigger])

Next ==
  \/ \E a \in Admins : \/ \E file \in Files : ReloadBegin(a, file)
                       \/ ReloadInsert(a)
                       \/ ReloadCommit(a)
  \/ \E file \in OverlayFiles : ReloadOverlay(file)
  \/ \E w \in N8nWorkflows : \/ \E def \in Definitions : EditWorkflow(w, def)
                             \/ SwitchWorkflow(w)
                             \/ DeleteWorkflow(w)
  \/ \E o \in Ops : \/ PrepareRead(o) \/ Approve(o) \/ ExecuteRead(o) \/ Dispatch(o)
                    \/ \E up \in InstanceStates : PrepareCommit(o, up) \/ ExecuteCommit(o, up)

Spec == Init /\ [][Next]_vars

-----------------------------------------------------------------------------
(***************************** properties **********************************)
Prepared == {o \in Ops : operations[o].state \notin {"NEW", "PREPARING", "BLOCKED"}}
Started  == {o \in Ops : operations[o].state \in {"EXECUTING", "DISPATCHED"}}

\* What runs with no human decision only reads, and is not high-risk: however
\* defaults, registry versions and overlays combine, an operation that left
\* prepare approved and was never decided has such a contract (rules R5 and
\* R10 on the resolved entry, loader.py; the overlay's approval, schema.py).
UnattendedIsReadOnly ==
  \A o \in Prepared :
    operations[o].state # "PENDING_APPROVAL" /\ ~operations[o].approved =>
      /\ operations[o].contract.side_effects = "read_only"
      /\ operations[o].contract.risk # "high"

\* The webhook that is called is the one of the definition the caller's
\* operation was prepared for and n8n was found to hold at execute time,
\* although the call uses the snapshot recorded at prepare time and the check
\* the snapshot active at execute time, whatever was reloaded or edited in
\* between.  Operations whose contract an overlay changed are excepted: see
\* DispatchFollowsContract (service.execute_operation, dispatch_operation).
DispatchHitsVerifiedDefinition ==
  \A o \in Started :
    LET op == operations[o] IN
    op.contract = EntryIn(op.snapshot, Workflow) =>
      /\ op.verified.hash = op.definition_hash
      /\ op.state = "DISPATCHED" => op.trigger.path = op.verified.path

\* An operation is dispatched as the contract frozen at prepare time says: the
\* trigger its environment's overlay set is the trigger that is called.  The
\* code breaks this: dispatch_operation reads the base entry of the snapshot,
\* the overlay's trigger is not recorded anywhere (service.py:3083).
DispatchFollowsContract ==
  \A o \in Ops : operations[o].state = "DISPATCHED" =>
    operations[o].trigger = operations[o].contract.trigger
=============================================================================
