---------------------------- MODULE Registry_proofs ----------------------------
(***************************************************************************)
(* For every set of registry and overlay files that have the schema's      *)
(* fields, and every instance: what runs with no human decision only reads *)
(* and is not high-risk, and the webhook that is called is the one of the  *)
(* definition that n8n was found to hold at execute time.                  *)
(*                                                                         *)
(* Both follow an operation from prepare to dispatch while the registry,   *)
(* the overlay and the instance change under it.  IInv therefore says what *)
(* each step has established of the operation's own record, in terms that  *)
(* later changes cannot touch: its contract is an admitted entry with an   *)
(* admitted overlay, some definition has its hash and serves its trigger,  *)
(* and the one found at execute time has the same hash.                    *)
(***************************************************************************)
EXTENDS Registry, TLAPS

\* What the program can hold: resolved entries of files that were admitted, overlays
\* that were admitted by their type, and a resolved entry under an overlay.
Entries == UNION {EntriesOf(d) : d \in Bodies}

Overlays == {o \in UNION OverlayFiles : o.approval_override \in {"required", Unset}} \union {Unset}

Contracts == {ResolveOverlay(b, o) : b \in Entries, o \in Overlays}

ContractHashes == {c.definition_hash : c \in Contracts}
Triggers == {e.trigger : e \in Entries}

Waiting == {"PREPARING", "BLOCKED", "PENDING_APPROVAL", "APPROVED"}

PreparedOps ==
  [state : Waiting, approved : BOOLEAN, snapshot : Bodies, contract : Contracts,
   definition_hash : ContractHashes]

CheckingOps ==
  [state : {"CHECKING"}, approved : BOOLEAN, snapshot : Bodies, contract : Contracts,
   definition_hash : ContractHashes, current : Entries]

ExecutingOps ==
  [state : {"EXECUTING"}, approved : BOOLEAN, snapshot : Bodies, contract : Contracts,
   definition_hash : ContractHashes, verified : Definitions]

DispatchedOps ==
  [state : {"DISPATCHED"}, approved : BOOLEAN, snapshot : Bodies, contract : Contracts,
   definition_hash : ContractHashes, verified : Definitions, trigger : Triggers]

Records == PreparedOps \union CheckingOps \union ExecutingOps \union DispatchedOps

Snapshots == [document : Bodies, loaded_at : Nat]

Reloads ==
  {Idle} \union [pc : {"loaded"}, document : Bodies]
         \union [pc : {"inserted"}, document : Bodies, loaded_at : Nat]

TypeInv ==
  /\ snapshots \subseteq Snapshots
  /\ reloading \in [Admins -> Reloads]
  /\ overlay \in Overlays
  /\ instance \in [N8nWorkflows -> [def : Definitions, active : BOOLEAN] \union {Missing}]
  /\ operations \in [Ops -> Records \union {Fresh}]
  /\ loads \in Nat

\* One snapshot is active.
OneIsLatest == \E r \in snapshots : \A q \in snapshots : q.loaded_at <= r.loaded_at

\* n8n was found to hold a definition with the contract's hash, which serves its trigger.
Served(op) == \E d \in Definitions : /\ d.hash = op.definition_hash
                                     /\ d.path = op.contract.trigger.path

\* Nobody decided, and nobody had to.
NobodyDecided(op) == op.state # "PENDING_APPROVAL" /\ ~op.approved

OpInv(op) ==
  /\ op.definition_hash = op.contract.definition_hash
  /\ op.state \notin {"PREPARING", "BLOCKED"} => Served(op)
  /\ op.state \notin {"PREPARING", "BLOCKED"} /\ NobodyDecided(op) => op.contract.approval = "none"
  /\ op.state = "CHECKING" => op.current.definition_hash = op.definition_hash
  /\ op.state \in {"EXECUTING", "DISPATCHED"} => op.verified.hash = op.definition_hash
  /\ op.state = "DISPATCHED" => op.trigger = EntryIn(op.snapshot, Workflow).trigger
  /\ HasEntry(op.snapshot, Workflow)

OpsInv == \A o \in Ops : operations[o] # Fresh => OpInv(operations[o])

IInv == TypeInv /\ OneIsLatest /\ OpsInv

-----------------------------------------------------------------------------
(* Entries, overlays and contracts.                                        *)

\* The entries of an admitted document are the file's, resolved: they have its fields.
LEMMA EntriesHaveFields ==
  ASSUME NEW e \in Entries
  PROVE  EntryFields \subseteq DOMAIN e
<1>1. PICK f \in Files : Loads(f) /\ e \in EntriesOf(ResolveDocument(f))
  BY DEF Entries, Bodies
<1>2. "workflows" \in DOMAIN f /\ \A x \in EntriesOf(f) : EntryFields \subseteq DOMAIN x
  BY <1>1, RegistryAssumption DEF Loads
<1>3. ResolveDocument(f).workflows =
        [i \in DOMAIN f.workflows |-> Resolve(f.workflows[i], f.defaults)]
  BY <1>2 DEF ResolveDocument
<1>4. PICK i \in DOMAIN f.workflows : e = Resolve(f.workflows[i], f.defaults)
  BY <1>1, <1>3 DEF EntriesOf
<1>5. f.workflows[i] \in EntriesOf(f)
  BY DEF EntriesOf
<1>6. DOMAIN Resolve(f.workflows[i], f.defaults) = DOMAIN f.workflows[i]
  BY DEF Resolve
<1>. QED
  BY <1>2, <1>4, <1>5, <1>6

\* Rules R5 and R10 hold of what was admitted.
LEMMA EntriesAreRuled ==
  ASSUME NEW e \in Entries
  PROVE  R5(e) /\ R10(e)
BY DEF Entries, Bodies, Loads, CheckRules

\* An overlay replaces nothing but what it may.
LEMMA OverlayFields ==
  ASSUME NEW b \in Entries, NEW o \in Overlays
  PROVE  LET c == ResolveOverlay(b, o) IN
         /\ c.side_effects = b.side_effects /\ c.risk = b.risk
         /\ c.approval \in {b.approval, "required"}
<1>1. EntryFields \subseteq DOMAIN b
  BY EntriesHaveFields
<1>2. CASE o = Unset
  BY <1>2 DEF ResolveOverlay
<1>3. CASE o # Unset
  <2>1. o.approval_override \in {"required", Unset}
    BY <1>3 DEF Overlays
  <2>2. LET c == ResolveOverlay(b, o) IN
         /\ c.side_effects = b.side_effects /\ c.risk = b.risk
         /\ c.approval = OrElse(o.approval_override, b.approval)
    BY <1>1, <1>3 DEF ResolveOverlay, EntryFields
  <2>. QED
    BY <2>1, <2>2 DEF OrElse
<1>. QED
  BY <1>2, <1>3

\* A contract that needs no approval only reads, and is not high-risk.
LEMMA UnattendedContract ==
  ASSUME NEW c \in Contracts, c.approval = "none"
  PROVE  c.side_effects = "read_only" /\ c.risk # "high"
<1>1. PICK b \in Entries, o \in Overlays : c = ResolveOverlay(b, o)
  BY DEF Contracts
<1>2. b.approval = "none" /\ c.side_effects = b.side_effects /\ c.risk = b.risk
  BY <1>1, OverlayFields
<1>. QED
  BY <1>2, EntriesAreRuled DEF R5, R10

\* An entry found by its id is one of the document's.
LEMMA EntryFound ==
  ASSUME NEW d \in Bodies, HasEntry(d, Workflow)
  PROVE  EntryIn(d, Workflow) \in Entries
<1>1. EntryIn(d, Workflow) \in EntriesOf(d)
  BY DEF EntryIn, HasEntry
<1>. QED
  BY <1>1 DEF Entries

\* What a transaction merges is a contract.
LEMMA MergedIsContract ==
  ASSUME TypeInv, NEW b \in Entries
  PROVE  Merged(b) \in Contracts
<1>1. Unset \in Overlays /\ overlay \in Overlays
  BY DEF Overlays, TypeInv
<1>2. ResolveOverlay(b, Unset) = b
  BY DEF ResolveOverlay
<1>3. \A o \in Overlays : ResolveOverlay(b, o) \in Contracts
  BY DEF Contracts
<1>. QED
  BY <1>1, <1>2, <1>3 DEF Merged

\* The active document is an admitted one.
LEMMA ActiveIsAdmitted ==
  ASSUME IInv
  PROVE  ActiveDocument \in Bodies
<1>1. PICK r \in snapshots : \A q \in snapshots : q.loaded_at <= r.loaded_at
  BY DEF IInv, OneIsLatest
<1>2. Latest(snapshots) \in snapshots
  BY <1>1 DEF Latest
<1>. QED
  BY <1>2 DEF IInv, TypeInv, Snapshots, ActiveDocument

\* Checks that block nothing found a definition with the entry's hash that serves its
\* trigger.
LEMMA ReadyChecks ==
  ASSUME NEW entry, NEW live, NEW up \in InstanceStates, Ready(Checks(entry, live, up))
  PROVE  /\ live # Missing
         /\ live.def.hash = entry.definition_hash
         /\ live.def.path = entry.trigger.path
<1>. DEFINE c == Checks(entry, live, up)
            f == Fetched(live, up)
<1>1. /\ c.instance_reachable # "fail" /\ c.workflow_exists # "fail"
      /\ c.trigger_compatibility # "fail" /\ c.definition_unchanged # "fail"
  BY DEF Ready, Checks
<1>2. up # "down"
  BY <1>1 DEF Checks, Verdict
<1>3. f
  BY <1>1, <1>2 DEF Checks, Verdict
<1>4. TriggerCompatible(entry, live.def) # "fail" /\ DefinitionUnchanged(entry, live.def) # "fail"
  BY <1>1, <1>3 DEF Checks
<1>. QED
  BY <1>3, <1>4 DEF Fetched, TriggerCompatible, DefinitionUnchanged, Verdict

\* What is live has a definition.
LEMMA LiveIsDefined ==
  ASSUME TypeInv, NEW w, Live(w) # Missing
  PROVE  Live(w).def \in Definitions
BY DEF TypeInv, Live

-----------------------------------------------------------------------------
(* Registry, overlay and instance change; operations stay.                  *)

\* Operations that stay as they are keep what is said of them: it is about themselves.
LEMMA OperationsStay ==
  ASSUME OpsInv, UNCHANGED operations
  PROVE  OpsInv'
BY DEF OpsInv

LEMMA SnapshotsStay ==
  ASSUME OneIsLatest, UNCHANGED snapshots
  PROVE  OneIsLatest'
BY DEF OneIsLatest

LEMMA InitHolds == Init => IInv
<1>. SUFFICES ASSUME Init PROVE IInv
  OBVIOUS
<1>1. PICK d \in Bodies : snapshots = {[document |-> d, loaded_at |-> 1]}
  BY DEF Init
<1>2. snapshots \subseteq Snapshots
  BY <1>1 DEF Snapshots
<1>3. OneIsLatest
  BY <1>1 DEF OneIsLatest
<1>4. reloading \in [Admins -> Reloads] /\ overlay \in Overlays /\ loads \in Nat
  BY DEF Init, Reloads, Overlays
<1>5. instance \in [N8nWorkflows -> [def : Definitions, active : BOOLEAN] \union {Missing}]
  <2>. DEFINE served == {[def |-> x, active |-> TRUE] : x \in {y \in Definitions : y.bound}}
  <2>1. instance \in [N8nWorkflows -> served]
    BY DEF Init
  <2>2. \A x \in served : x \in [def : Definitions, active : BOOLEAN]
    <3>1. ASSUME NEW x \in served PROVE x \in [def : Definitions, active : BOOLEAN]
      <4>1. PICK def \in Definitions : x = [def |-> def, active |-> TRUE]
        OBVIOUS
      <4>. QED
        BY <4>1
    <3>. QED
      BY <3>1
  <2>. HIDE DEF served
  <2>. QED
    BY <2>1, <2>2
<1>6. operations \in [Ops -> Records \union {Fresh}] /\ OpsInv
  BY DEF Init, OpsInv
<1>. QED
  BY <1>2, <1>3, <1>4, <1>5, <1>6 DEF IInv, TypeInv

LEMMA ReloadBeginPreserves ==
  ASSUME IInv, NEW a \in Admins, NEW file \in Files, ReloadBegin(a, file)
  PROVE  IInv'
<1>1. ResolveDocument(file) \in Bodies
  BY DEF ReloadBegin, Bodies
<1>2. reloading' \in [Admins -> Reloads]
  BY <1>1 DEF ReloadBegin, IInv, TypeInv, Reloads
<1>. QED
  BY <1>2, OperationsStay, SnapshotsStay DEF IInv, TypeInv, ReloadBegin

\* What an administrator has loaded is admitted.
LEMMA ReloadTypes ==
  ASSUME IInv, NEW a \in Admins, reloading[a].pc \in {"loaded", "inserted"}
  PROVE  /\ reloading[a].document \in Bodies
         /\ reloading[a].pc = "inserted" => reloading[a].loaded_at \in Nat
<1>1. reloading[a] \in Reloads
  BY DEF IInv, TypeInv
<1>. QED
  BY <1>1 DEF Reloads, Idle

LEMMA ReloadInsertPreserves ==
  ASSUME IInv, NEW a \in Admins, ReloadInsert(a)
  PROVE  IInv'
<1>1. reloading[a].document \in Bodies /\ loads \in Nat
  BY ReloadTypes DEF ReloadInsert, IInv, TypeInv
<1>2. [pc |-> "inserted", document |-> reloading[a].document, loaded_at |-> loads + 1] \in Reloads
  BY <1>1 DEF Reloads
<1>3. reloading' \in [Admins -> Reloads] /\ loads' \in Nat
  BY <1>1, <1>2 DEF ReloadInsert, IInv, TypeInv, Reloads
<1>. QED
  BY <1>3, OperationsStay, SnapshotsStay DEF IInv, TypeInv, ReloadInsert

\* The row that becomes visible is loaded before or after the one that was active.
LEMMA ReloadCommitPreserves ==
  ASSUME IInv, NEW a \in Admins, ReloadCommit(a)
  PROVE  IInv'
<1>. DEFINE row == [document |-> reloading[a].document, loaded_at |-> reloading[a].loaded_at]
<1>1. row \in Snapshots /\ row.loaded_at \in Nat
  BY ReloadTypes DEF ReloadCommit, Snapshots
<1>2. snapshots' = snapshots \union {row}
  BY DEF ReloadCommit
<1>. HIDE DEF row
<1>3. snapshots' \subseteq Snapshots
  BY <1>1, <1>2 DEF IInv, TypeInv
<1>4. OneIsLatest'
  <2>1. PICK r \in snapshots : \A q \in snapshots : q.loaded_at <= r.loaded_at
    BY DEF IInv, OneIsLatest
  <2>2. \A q \in snapshots : q.loaded_at \in Nat
    BY DEF IInv, TypeInv, Snapshots
  <2>3. CASE row.loaded_at <= r.loaded_at
    BY <1>2, <2>1, <2>3 DEF OneIsLatest
  <2>4. CASE ~(row.loaded_at <= r.loaded_at)
    <3>1. \A q \in snapshots : q.loaded_at <= row.loaded_at
      BY <1>1, <2>1, <2>2, <2>4
    <3>. QED
      BY <1>1, <1>2, <3>1 DEF OneIsLatest
  <2>. QED
    BY <2>3, <2>4
<1>5. reloading' \in [Admins -> Reloads]
  BY DEF ReloadCommit, IInv, TypeInv, Reloads
<1>. QED
  BY <1>3, <1>4, <1>5, OperationsStay DEF IInv, TypeInv, ReloadCommit

LEMMA ReloadOverlayPreserves ==
  ASSUME IInv, NEW file \in OverlayFiles, ReloadOverlay(file)
  PROVE  IInv'
<1>1. \A o \in file : o \in Overlays
  BY DEF ReloadOverlay, OverlayLoads, Overlays
<1>2. OverlayRow(file) \in file \/ OverlayRow(file) = Unset
  BY DEF OverlayRow
<1>3. overlay' \in Overlays
  BY <1>1, <1>2 DEF ReloadOverlay, Overlays
<1>. QED
  BY <1>3, OperationsStay, SnapshotsStay DEF IInv, TypeInv, ReloadOverlay

LEMMA InstancePreserves ==
  ASSUME IInv, NEW w \in N8nWorkflows,
         \/ \E def \in Definitions : EditWorkflow(w, def)
         \/ SwitchWorkflow(w) \/ DeleteWorkflow(w)
  PROVE  IInv'
<1>. DEFINE running == [def : Definitions, active : BOOLEAN]
<1>1. instance \in [N8nWorkflows -> running \union {Missing}] /\ instance[w] \in running
  BY DEF IInv, TypeInv, EditWorkflow, SwitchWorkflow, DeleteWorkflow
<1>2. PICK x \in running \union {Missing} : instance' = [instance EXCEPT ![w] = x]
  <2>1. ASSUME NEW def \in Definitions, EditWorkflow(w, def)
        PROVE  /\ [instance[w] EXCEPT !.def = def] \in running
               /\ instance' = [instance EXCEPT ![w] = [instance[w] EXCEPT !.def = def]]
    BY <1>1, <2>1 DEF EditWorkflow
  <2>2. ASSUME SwitchWorkflow(w)
        PROVE  /\ [instance[w] EXCEPT !.active = ~@] \in running
               /\ instance' = [instance EXCEPT ![w] = [instance[w] EXCEPT !.active = ~@]]
    BY <1>1, <2>2 DEF SwitchWorkflow
  <2>3. ASSUME DeleteWorkflow(w)
        PROVE  instance' = [instance EXCEPT ![w] = Missing]
    BY <2>3 DEF DeleteWorkflow
  <2>. HIDE DEF running
  <2>. QED
    BY <2>1, <2>2, <2>3
<1>3. instance' \in [N8nWorkflows -> running \union {Missing}]
  <2>. HIDE DEF running
  <2>. QED
    BY <1>1, <1>2
<1>. QED
  BY <1>3, OperationsStay, SnapshotsStay
  DEF IInv, TypeInv, EditWorkflow, SwitchWorkflow, DeleteWorkflow

-----------------------------------------------------------------------------
(* An operation moves; everything else stays.                               *)

LEMMA SetPreserves ==
  ASSUME IInv, NEW o \in Ops, NEW op \in Records \union {Fresh}, op # Fresh => OpInv(op), Set(o, op)
  PROVE  IInv'
<1>1. operations' \in [Ops -> Records \union {Fresh}]
  BY DEF Set, IInv, TypeInv
<1>2. \A x \in Ops : operations'[x] = (IF x = o THEN op ELSE operations[x])
  BY DEF Set, IInv, TypeInv
<1>3. OpsInv'
  BY <1>2 DEF OpsInv, IInv
<1>. QED
  BY <1>1, <1>3, SnapshotsStay DEF IInv, TypeInv, Set

\* An operation that is not new has a record, and what is said of it holds.
LEMMA OpRecord ==
  ASSUME IInv, NEW o \in Ops, operations[o].state # "NEW"
  PROVE  operations[o] \in Records /\ OpInv(operations[o])
<1>1. operations[o] # Fresh
  BY DEF Fresh
<1>. QED
  BY <1>1 DEF IInv, TypeInv, OpsInv

LEMMA PrepareReadPreserves ==
  ASSUME IInv, NEW o \in Ops, PrepareRead(o)
  PROVE  IInv'
<1>. DEFINE d == ActiveDocument
            c == Merged(EntryIn(d, Workflow))
            op == [state |-> "PREPARING", approved |-> FALSE, snapshot |-> d,
                   contract |-> c, definition_hash |-> c.definition_hash]
<1>1. d \in Bodies /\ HasEntry(d, Workflow)
  BY ActiveIsAdmitted DEF PrepareRead
<1>2. c \in Contracts
  BY <1>1, EntryFound, MergedIsContract DEF IInv
<1>3. Set(o, op)
  BY DEF PrepareRead
<1>. HIDE DEF d, c
<1>4. op \in PreparedOps
  BY <1>1, <1>2 DEF PreparedOps, Waiting, ContractHashes
<1>5. OpInv(op)
  BY <1>1 DEF OpInv
<1>. QED
  BY <1>3, <1>4, <1>5, SetPreserves DEF Records

\* The checks that let an operation be offered have found its definition.
LEMMA PrepareCommitPreserves ==
  ASSUME IInv, NEW o \in Ops, NEW up \in InstanceStates, PrepareCommit(o, up)
  PROVE  IInv'
<1>. DEFINE op == operations[o]
            live == Live(op.contract.n8n_workflow_id)
            checks == Checks(op.contract, live, up)
            next == [op EXCEPT !.state = Offered(op.contract, checks)]
<1>1. op \in Records /\ OpInv(op) /\ op.state = "PREPARING"
  BY OpRecord DEF PrepareCommit
<1>2. op \in PreparedOps
  BY <1>1 DEF Records, CheckingOps, ExecutingOps, DispatchedOps
<1>3. Set(o, next)
  BY DEF PrepareCommit
<1>4. Offered(op.contract, checks) # "BLOCKED" => Served(op)
  <2>. SUFFICES ASSUME Ready(checks) PROVE Served(op)
    BY DEF Offered
  <2>1. live # Missing /\ live.def.hash = op.contract.definition_hash
        /\ live.def.path = op.contract.trigger.path
    BY ReadyChecks
  <2>2. live.def \in Definitions
    BY <2>1, LiveIsDefined DEF IInv
  <2>. QED
    BY <1>1, <2>1, <2>2 DEF Served, OpInv
<1>5. Offered(op.contract, checks) \in {"BLOCKED", "PENDING_APPROVAL"} \/
        (Offered(op.contract, checks) = "APPROVED" /\ op.contract.approval = "none")
  BY DEF Offered
<1>. HIDE DEF op, live, checks
<1>6. next \in PreparedOps /\ next.state = Offered(op.contract, checks)
      /\ next.contract = op.contract /\ next.definition_hash = op.definition_hash
      /\ next.snapshot = op.snapshot /\ next.approved = op.approved
  BY <1>2, <1>5 DEF PreparedOps, Waiting
<1>. HIDE DEF next
<1>7. OpInv(next)
  BY <1>1, <1>4, <1>5, <1>6 DEF OpInv, Served, NobodyDecided
<1>. QED
  BY <1>3, <1>6, <1>7, SetPreserves DEF Records

LEMMA ApprovePreserves ==
  ASSUME IInv, NEW o \in Ops, Approve(o)
  PROVE  IInv'
<1>. DEFINE op == operations[o]
            next == [op EXCEPT !.state = "APPROVED", !.approved = TRUE]
<1>1. op \in Records /\ OpInv(op) /\ op.state = "PENDING_APPROVAL"
  BY OpRecord DEF Approve
<1>2. op \in PreparedOps
  BY <1>1 DEF Records, CheckingOps, ExecutingOps, DispatchedOps
<1>3. Set(o, next)
  BY DEF Approve
<1>. HIDE DEF op
<1>4. next \in PreparedOps /\ next.state = "APPROVED" /\ next.approved = TRUE
      /\ next.contract = op.contract /\ next.definition_hash = op.definition_hash
      /\ next.snapshot = op.snapshot
  BY <1>2 DEF PreparedOps, Waiting
<1>. HIDE DEF next
<1>5. OpInv(next)
  BY <1>1, <1>4 DEF OpInv, Served, NobodyDecided
<1>. QED
  BY <1>3, <1>4, <1>5, SetPreserves DEF Records

LEMMA ExecuteReadPreserves ==
  ASSUME IInv, NEW o \in Ops, ExecuteRead(o)
  PROVE  IInv'
<1>. DEFINE op == operations[o]
            entry == EntryIn(ActiveDocument, Workflow)
            next == [state |-> "CHECKING", approved |-> op.approved, snapshot |-> op.snapshot,
                     contract |-> op.contract, definition_hash |-> op.definition_hash,
                     current |-> entry]
<1>1. op \in Records /\ OpInv(op) /\ op.state = "APPROVED"
  BY OpRecord DEF ExecuteRead
<1>2. op \in PreparedOps
  BY <1>1 DEF Records, CheckingOps, ExecutingOps, DispatchedOps
<1>3. entry \in Entries /\ entry.definition_hash = op.definition_hash
  BY ActiveIsAdmitted, EntryFound DEF ExecuteRead, Drifted
<1>4. Set(o, next)
  BY DEF ExecuteRead
<1>. HIDE DEF op, entry
<1>5. next \in CheckingOps
  BY <1>2, <1>3 DEF PreparedOps, CheckingOps
<1>6. OpInv(next)
  BY <1>1, <1>3 DEF OpInv, Served, NobodyDecided
<1>. QED
  BY <1>4, <1>5, <1>6, SetPreserves DEF Records

\* The checks found the definition that is executed.
LEMMA ExecuteCommitPreserves ==
  ASSUME IInv, NEW o \in Ops, NEW up \in InstanceStates, ExecuteCommit(o, up)
  PROVE  IInv'
<1>. DEFINE op == operations[o]
            live == Live(op.current.n8n_workflow_id)
            back == [state |-> "APPROVED", approved |-> op.approved, snapshot |-> op.snapshot,
                     contract |-> op.contract, definition_hash |-> op.definition_hash]
            next == [state |-> "EXECUTING", approved |-> op.approved, snapshot |-> op.snapshot,
                     contract |-> op.contract, definition_hash |-> op.definition_hash,
                     verified |-> live.def]
<1>1. op \in Records /\ OpInv(op) /\ op.state = "CHECKING"
  BY OpRecord DEF ExecuteCommit
<1>2. op \in CheckingOps
  BY <1>1 DEF Records, PreparedOps, Waiting, ExecutingOps, DispatchedOps
<1>3. CASE Ready(Checks(op.current, live, up))
  <2>1. live # Missing /\ live.def.hash = op.current.definition_hash
    BY <1>3, ReadyChecks
  <2>2. live.def \in Definitions /\ live.def.hash = op.definition_hash
    BY <1>1, <2>1, LiveIsDefined DEF IInv, OpInv
  <2>3. Set(o, next)
    BY <1>3 DEF ExecuteCommit
  <2>. HIDE DEF op, live
  <2>4. next \in ExecutingOps
    BY <1>2, <2>2 DEF CheckingOps, ExecutingOps
  <2>5. OpInv(next)
    BY <1>1, <2>2 DEF OpInv, Served, NobodyDecided
  <2>. QED
    BY <2>3, <2>4, <2>5, SetPreserves DEF Records
<1>4. CASE ~Ready(Checks(op.current, live, up))
  <2>1. Set(o, back)
    BY <1>4 DEF ExecuteCommit
  <2>. HIDE DEF op
  <2>2. back \in PreparedOps
    BY <1>2 DEF CheckingOps, PreparedOps, Waiting
  <2>3. OpInv(back)
    BY <1>1 DEF OpInv, Served, NobodyDecided
  <2>. QED
    BY <2>1, <2>2, <2>3, SetPreserves DEF Records
<1>. QED
  BY <1>3, <1>4

LEMMA DispatchPreserves ==
  ASSUME IInv, NEW o \in Ops, Dispatch(o)
  PROVE  IInv'
<1>. DEFINE op == operations[o]
            next == [state |-> "DISPATCHED", approved |-> op.approved, snapshot |-> op.snapshot,
                     contract |-> op.contract, definition_hash |-> op.definition_hash,
                     verified |-> op.verified, trigger |-> FrozenEntry(op).trigger]
<1>1. op \in Records /\ OpInv(op) /\ op.state = "EXECUTING"
  BY OpRecord DEF Dispatch
<1>2. op \in ExecutingOps
  BY <1>1 DEF Records, PreparedOps, Waiting, CheckingOps, DispatchedOps
<1>3. FrozenEntry(op) \in Entries
  BY <1>1, <1>2, EntryFound DEF FrozenEntry, OpInv, ExecutingOps
<1>4. Set(o, next)
  BY DEF Dispatch
<1>. HIDE DEF op
<1>5. next \in DispatchedOps
  BY <1>2, <1>3 DEF ExecutingOps, DispatchedOps, Triggers
<1>6. OpInv(next)
  BY <1>1 DEF OpInv, Served, NobodyDecided, FrozenEntry
<1>. QED
  BY <1>4, <1>5, <1>6, SetPreserves DEF Records

LEMMA StutterPreserves == IInv /\ UNCHANGED vars => IInv'
BY OperationsStay, SnapshotsStay DEF IInv, TypeInv, vars

-----------------------------------------------------------------------------
(* The theorems.                                                           *)

\* IInv, which includes the types of all variables, holds throughout.
THEOREM Invariance == Spec => []IInv
<1>1. Init => IInv
  BY InitHolds
<1>2. IInv /\ [Next]_vars => IInv'
  <2>. SUFFICES ASSUME IInv, [Next]_vars PROVE IInv'
    OBVIOUS
  <2>1. ASSUME NEW a \in Admins,
               (\E file \in Files : ReloadBegin(a, file)) \/ ReloadInsert(a) \/ ReloadCommit(a)
        PROVE  IInv'
    BY <2>1, ReloadBeginPreserves, ReloadInsertPreserves, ReloadCommitPreserves
  <2>2. ASSUME NEW file \in OverlayFiles, ReloadOverlay(file)
        PROVE  IInv'
    BY <2>2, ReloadOverlayPreserves
  <2>3. ASSUME NEW w \in N8nWorkflows,
               \/ \E def \in Definitions : EditWorkflow(w, def)
               \/ SwitchWorkflow(w) \/ DeleteWorkflow(w)
        PROVE  IInv'
    BY <2>3, InstancePreserves
  <2>4. ASSUME NEW o \in Ops, PrepareRead(o) \/ Approve(o) \/ ExecuteRead(o) \/ Dispatch(o)
        PROVE  IInv'
    BY <2>4, PrepareReadPreserves, ApprovePreserves, ExecuteReadPreserves, DispatchPreserves
  <2>5. ASSUME NEW o \in Ops, NEW up \in InstanceStates, PrepareCommit(o, up) \/ ExecuteCommit(o, up)
        PROVE  IInv'
    BY <2>5, PrepareCommitPreserves, ExecuteCommitPreserves
  <2>6. CASE UNCHANGED vars
    BY <2>6, StutterPreserves
  <2>. QED
    BY <2>1, <2>2, <2>3, <2>4, <2>5, <2>6 DEF Next
<1>. QED
  BY <1>1, <1>2, PTL DEF Spec

\* What runs with no human decision only reads, and is not high-risk, however
\* defaults, registry versions and overlays combine (rules R5 and R10 of loader.py on
\* the resolved entry; the overlay's approval, schema.py).
THEOREM UnattendedOnlyReads == Spec => []UnattendedIsReadOnly
<1>1. IInv => UnattendedIsReadOnly
  <2>. SUFFICES ASSUME IInv, NEW o \in Prepared,
                       operations[o].state # "PENDING_APPROVAL", ~operations[o].approved
                PROVE  /\ operations[o].contract.side_effects = "read_only"
                       /\ operations[o].contract.risk # "high"
    BY DEF UnattendedIsReadOnly
  <2>1. operations[o] \in Records /\ OpInv(operations[o])
    BY OpRecord DEF Prepared
  <2>2. operations[o].contract \in Contracts
    BY <2>1 DEF Records, PreparedOps, CheckingOps, ExecutingOps, DispatchedOps
  <2>3. operations[o].contract.approval = "none"
    BY <2>1 DEF OpInv, NobodyDecided, Prepared
  <2>. QED
    BY <2>2, <2>3, UnattendedContract
<1>. QED
  BY <1>1, Invariance, PTL

\* The webhook that is called is the one of the definition the operation was prepared
\* for and n8n was found to hold at execute time, unless an overlay changed its
\* contract (service.execute_operation, dispatch_operation).
THEOREM DispatchHitsTheVerified == Spec => []DispatchHitsVerifiedDefinition
<1>1. IInv => DispatchHitsVerifiedDefinition
  <2>. SUFFICES ASSUME IInv, NEW o \in Started,
                       operations[o].contract = EntryIn(operations[o].snapshot, Workflow)
                PROVE  /\ operations[o].verified.hash = operations[o].definition_hash
                       /\ operations[o].state = "DISPATCHED" =>
                            operations[o].trigger.path = operations[o].verified.path
    BY DEF DispatchHitsVerifiedDefinition
  <2>. DEFINE op == operations[o]
  <2>1. op \in Records /\ OpInv(op) /\ op.state \in {"EXECUTING", "DISPATCHED"}
    BY OpRecord DEF Started
  <2>2. op.verified \in Definitions
    BY <2>1 DEF Records, PreparedOps, Waiting, CheckingOps, ExecutingOps, DispatchedOps
  <2>3. op.verified.hash = op.definition_hash /\ Served(op)
    BY <2>1 DEF OpInv
  <2>4. PICK d \in Definitions : d.hash = op.definition_hash /\ d.path = op.contract.trigger.path
    BY <2>3 DEF Served
  <2>5. op.verified.path = op.contract.trigger.path
    BY <2>2, <2>3, <2>4, CanonicalForm
  <2>6. op.state = "DISPATCHED" => op.trigger = op.contract.trigger
    BY <2>1 DEF OpInv
  <2>. QED
    BY <2>3, <2>5, <2>6
<1>. QED
  BY <1>1, Invariance, PTL
=============================================================================
