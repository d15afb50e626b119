# TLA+ models of the vtn-coordinator sources

This directory holds TLA+ models of the code under `src/` and the TLC
configurations that check them. `PROJECT.json` lists:

- the components, and whether each is modelled;
- every run and the properties it checks;
- a mutant for each checked property;
- the map from each TLA+ definition to the source lines it translates;
- the findings, and the hazards of the code.

## 1. The system

The repository is a slice of the UNC/VTN coordinator. It holds four
implementation files, and they share no state with each other.

| Part | Source | State | Operations that change it |
|---|---|---|---|
| **KeyTree**: the driver-side configuration cache | `coordinator/modules/vtncacheutil/keytree.cc` | `configHashArr[]` (per key type: key → ConfigNode*), `node_tree_` (root node with child lists), `cfg_node_list_` (commit vector) | constructor, `append_audit_node` (one node / a vector), `append_commit_node`, `clear_audit_cache`, `clear_commit_cache`, destructor |
| **Kt_Switch**: UPPL physical switch table | `modules/uppl/itc_kt_switch.cc` | rows of the switch table in the candidate / running / state / import DBs: key (controller, switch id), `oper_status`, `alarms_status`, valid flags | `DeleteKeyInstance`, `HandleDriverAlarms`, `HandleOperStatus`, `SetOperStatus`, `UpdateSwitchValidFlag`, reads (`ReadInternal`, `ReadBulk`, `PerformRead`) |
| **DhcpRelayServerMoMgr**: UPLL validation of DHCP relay servers | `modules/upll/dhcprelay_server_momgr.cc` | none of its own; it decides on requests and sets config status fields | `ValidateMessage`, `ValidateDhcpRelayKey`, `IsValidKey`, `UpdateConfigStatus` |
| **TcLibModule**: transaction participant library | `modules/tclib/include/tclib_module.hh` (declaration only) | `oper_state_`, `session_id_`, `config_id_`, `controllerid_`, `audit_in_progress_`, key maps | the `Validate*Sequence` checks, commit/audit start/end handlers |

The spec (`spec.md`) also names the lock manager, the operation dispatcher, the
commit/audit coordinator and the participant registry. Their code is not in
this repository.

How the parts interact. A commit or an audit is run by the coordinator. It
takes the TC lock, then drives each participant (UPLL, UPPL, the drivers)
through its phases:

- the participants track the phase in TcLibModule's `oper_state_`;
- a driver gathers what the controller reports into a KeyTree audit cache, or
  the configuration to push into a commit cache;
- UPPL keeps the switch rows that drivers report, with their alarms and oper
  status;
- UPLL validates logical configuration such as DHCP relay servers.

The hard behaviours in this code:

- **KeyTree.** These happen under sequences of calls that unit tests rarely
  write:
  - parents reported after their children;
  - duplicates;
  - a failure in the middle of a vector;
  - clears followed by reuse.
- **Kt_Switch**:
  - alarm-status bit arithmetic on a `uint64` with 16-bit masks;
  - an unknown alarm type, which falls through to "clear all";
  - the old/new oper status of a notification;
  - a `while(true)` loop over bulk DB reads;
  - deletion of a switch with its ports and links, where a child failure must
    not be lost;
  - a repetition budget that is shared between a parent and its children;
  - the valid flags kept as text, where a flag is a digit or a raw byte and a
    raw 0 ends the string.
- **DhcpRelayServerMoMgr**: the boundary addresses `0` and `0xffffffff`, and
  the operation/datatype matrix.
- **Transactions** (spec only): lock exclusion, the commit phase order, abort
  and compensation, and driver failure.

## 2. What is modelled

### KeyTree (`KeyTree.tla`, `MC_KeyTree.tla`)

State:

| Variable | Models |
|---|---|
| `configHashArr` | the search maps, a function from key type to a set of nodes |
| `node_tree` | the child lists under `node_tree_`, kept as the sequence of (parent, child) attachments in the order `add_child_to_list` made them |
| `cfg_node_list` | `cfg_node_list_` |
| `ret` | the last return code |
| `last_failed` | the node an append rejected |

A ConfigNode is abstracted to (type, key, parent key). Its payload decides
nothing in `keytree.cc`.

| Action / operator | Code |
|---|---|
| `Init` | constructor: `configHashArr[0]` = {"ROOT" → `node_tree_`} |
| `AppendAuditNode` | `append_audit_node(ConfigNode*)`: NULL → `CACHEMGR_APPEND_NODE_FAIL`; duplicate → drop, `TREE_OK`; orphan → `ERR_ADD_CHILD_TO_TREE_FAILED` |
| `AppendAuditNodes` | `append_audit_node(vector)`: a fold that skips NULL and stops at the first orphan |
| `AppendCommitNode` | `append_commit_node`: push back and index, with no checks |
| `ClearAuditCache`, `ClearCommitCache` | the two clears. Both empty every search map (the ROOT one included) and `cfg_node_list_`, and neither touches `node_tree_` |
| `add_node_to_tree`, `get_node_from_hash`, `add_child_to_hash`, `is_already_present`, `get_parenttype`, `key_tree_table` | the helpers, as operators |
| `get_nodelist_keytree` | pre-order traversal from the root (`ConfigNode::get_node_list` is not in `src/`, so `SubTree` is spec-modelled) |

A KeyTree is used either as an audit cache or as a commit cache (spec
section 3: it is created at the start of a commit or of an audit). The
variable `mode` is chosen in `Init` and never changes. `AuditNext` and
`CommitNext` are the operations of each use, and `Spec` checks both uses in one
run. The properties that belong to one use are stated as `mode = ... => ...`.

**Bounds** (`MC_KeyTree.tla`):

- Keys: three model values `a b c`.
- Seven candidate nodes:
  - two VTNs;
  - a VBRIDGE under an existing VTN;
  - a VBRIDGE whose VTN is reported later;
  - an orphan VBRIDGE;
  - a VBR_IF;
  - a VROUTER, a type missing from `key_tree_table`.
- Four vectors. Between them they contain a duplicate, a NULL, an orphan
  before a good node, and a child before its parent.
- `MaxCommitNodes = 3`, so the commit vector can hold a duplicate.

These bounds reach every branch of every append and clear.

**Runs**

| Run | Checks | Result |
|---|---|---|
| `keytree` | `TypeOK`; `IndexedNodesAttached` (a lookup only returns nodes hung in the tree); `TreeParentsWellTyped` (each node hangs under the root or an earlier node of its declared parent type and key); `TreeKeysUnique` (spec property 5); `AuditReplayIdempotent` (spec property 6: appending a vector again right after it changes nothing); `IndexNoDangling` (in the commit cache, no search-map entry outlives the node that `clear_*` deleted) | pass, 1155 states |
| `keytree_traversal_after_clear` | `TraversalMatchesIndex` (spec 4.5: tree and index agree) | **violation**: a clear leaves `node_tree_`'s children, so traversal returns nodes the index dropped |
| `keytree_append_after_clear` | `RejectsOnlyOrphans` | **violation**: `clear_search_cache` also erases the ROOT entry, so a cleared cache rejects every top-level node |

No fairness is assumed. The KeyTree properties are all safety properties, and
the cache has no obligation to act.

### Kt_Switch (`KtSwitch.tla`, `MC_KtSwitch.tla`)

State:

| Variable | Models |
|---|---|
| `switch_table` | the switch rows of the STATE and IMPORT DBs: (controller, switch id) → `oper_status`, `alarms_status`, or `NoRow` |
| `port_table`, `logical_port_table` | which switches have port rows (per DB) and logical-port rows (STATE); the rows are owned by `Kt_Port` and `Kt_LogicalPort` |
| `ctr_oper_status` | the controller rows' oper status, read by `HandleOperStatus` |
| `last_event` | the last notification passed to `SendEvent` |
| `last_delete` | the request and return code of the last `DeleteKeyInstance` |
| `hos` | where `HandleOperStatus` is in its `while(true)` loop of `GetBulkRows` calls: the key, the cursor, the keys collected so far (`vectSwitchKey`) and whether a call failed |
| `notified` | the switches `NotifyOperStatus` has been called for by the current or last `HandleOperStatus` |

| Action / operator | Code |
|---|---|
| `HandleDriverAlarms` | `HandleDriverAlarms`: `GetAlarmStatus`, the new word (`new_alarm_status`, with the 16-bit masks), `UpdateKeyInstance` when it changed, and the event (not in IMPORT) |
| `HandleOperStatus`, `HandleOperStatusBulk`, `NotifyOperStatus` | `HandleOperStatus`: set the switch's status from the controller's, then one step per `GetBulkRows` pass (rows appended to `vectSwitchKey`, the cursor moved to the last), then one `NotifyOperStatus` step per key collected |
| `SetOperStatus`, `SetSwitchOperStatus` | `UpdateOneRow`, then `GetOperStatus` of the old value (read after the update, as the code does), then the event |
| `DeleteKeyInstance`, `DeleteChildren`, `PortDelete` | the delete: a list of switches from `ReadBulkInternal` when the id is empty, the child deletes (whose status each pass overwrites), the logical port, then `DeleteOneRow` whatever came before |
| `ReadBulk`, `PortReadBulk`, `ReadBulkInternal`, `BulkRows`, `KIdxPort` | `READ_BULK` from a switch key (`child_index` -1: the key's switch first when `IsKeyExists` succeeds on it; a DB_ACCESS there leaves it out, with its ports) or resumed after a switch's children (`child_index` ≥ 0), then each switch and its ports, under one `max_rep_ct` budget; the first switch of the list reads its children from `child_index+1` |
| `PerformRead`, `ReadSwitchValFromDB`, `FillSwitchValueStructure`, `SchemaSwitchId`, `ReadInternal` | `READ`, `READ_SIBLING_BEGIN`, `READ_SIBLING`: option1 and data type checks, the key's switch id cleared for `SIBLING_BEGIN`/`COUNT` (`PopulateDBSchemaForKtTable`), `GetOneRow` or `GetBulkRows`, the count set to the rows read, and the header and keys of the answer |
| `PerformSemanticValidation`, `IsKeyExists`, `ParentDataType` | `PerformSemanticValidation`: `IsKeyExists` on the switch row (connection error → `DB_ACCESS`, row → success, else `NO_SUCH_INSTANCE`); CREATE refused on success, UPDATE/DELETE/READ refused on anything but success; then, for a CREATE still accepted, the controller row in RUNNING (for IMPORT) or in the request's data type |

`ReadBulk`, `PerformRead`, `ReadInternal` and `PerformSemanticValidation` change no state, so they are
operators, checked in every state the delete run reaches. `Kt_Controller::IsKeyExists`
is taken to answer like `Kt_Switch::IsKeyExists`. A CREATE that meets a DB
access error in `IsKeyExists` passes (line 682). The code means this, and it is
listed as a hazard.

The ODBC layer and the classes `Kt_Port`, `Kt_LogicalPort` and
`Kt_Controller` are not in this repository, so their calls enter the model as
their effect on the rows plus a nondeterministic failure. `BulkRows` is the
one assumed contract: `GetBulkRows` returns the next rows of the same
controller in key order, at most the count asked for.

Each handler is one atomic step. UPPL runs a handler on one thread, and the
model keeps no state across handler calls except the DB rows. The exception is
the bulk loop of `HandleOperStatus`, which is a step per DB call so that its
termination can be checked. Three specifications ask three questions:

- `AlarmSpec` covers alarms and deletes.
- `OperSpec` covers oper status.
- `DeleteSpec` covers deletes only.

The handlers touch disjoint fields, except that a delete removes the rows the
others read, and `AlarmSpec` includes that interaction.

**Bounds**:

- One controller.
- Two switches, so that "all switches of a controller" and "the next switch"
  both mean something. The alarm runs use one switch, to keep the alarm words
  small.
- `UPPL_MAX_REP_CT = 1`, so every bulk loop needs several passes.
- `AlarmWidth = 17`: `uint64` is cut to 17 bits, which keeps bit 16, the
  first bit the 16-bit masks get wrong. Initial alarm words are `{0, 3, 65536}`.
- `ReadBulk` is checked for every budget from 0 to `2 × |switches|`.

**Refinement.** `KtSwitchOperCall.tla` says what one `HandleOperStatus` call
promises, seen from outside. A call names a controller and a data type. It
returns after it has notified that controller's switches, each once and in key
order. If one of its DB calls failed, it may have notified only a first part of
them. The switch rows may change between calls. `KtSwitch` instantiates it
(`OperCall`) with this mapping:

- the abstract `sw` is the set of existing switch rows per data type and
  controller;
- the abstract `call` is in progress while `hos` is not idle;
- the abstract `lost` is `hos.failed` once the loop has ended;
- the abstract `notified` is the detailed one, made visible when the call returns.

The loop passes and the per-key notifications are stuttering steps. The last
one is the abstract `Return`. `HandleOperStatusRefinesCall` (the abstract
`Spec`, with weak fairness of `Return`) is the property of the oper run. It
subsumes the earlier property that the loop ends. The oper run has no creates
or deletes, so the rows stay fixed during a call, as in the abstract spec. The
interleaving of a delete with a running call is not modelled: nothing in this
repository shows that the handlers run concurrently.

**Fairness.** Only `OperSpec` has fairness. It is weak fairness of
`HandleOperStatusBulk(TRUE)`, a DB call that answers, and of
`NotifyOperStatus`. The loop runs on a thread that nothing preempts forever.
Fairness is deliberately not put on the DB's failure: a failed call ends the
loop too, and assuming that failures happen would hide a loop that never
advances its cursor.

**Runs**

| Run | Checks | Result |
|---|---|---|
| `ktswitch_alarm` | `TypeOK`; `AlarmEventCorrect` (an alarm sets or clears its own bit, leaves the other defined bit, and the event carries the stored old and new words) | pass |
| `ktswitch_oper` | `HandleOperStatusRefinesCall` (the handler implements `KtSwitchOperCall`: it returns, having notified every switch of the controller once and in key order, or a first part of them after a failed DB call) | pass |
| `ktswitch_delete` | `DeleteSuccessMeansGone` (a successful delete leaves neither the switches nor their ports); `ReadBulkReturnsPreOrder` (in every reached state, a bulk read returns the pre-order rows after its key, cut at `max_rep_ct`; on a `GetBulkRows` failure, a prefix of them; when `IsKeyExists` fails on the key, the same rows without the key's ports, still with SUCCESS; a read resumed after the key's ports sends nothing of that switch, keeps pre-order and loses no later switch); `SemanticValidationSound` (for every request and DB answer, in every reached state: UPDATE, DELETE or READ pass only on a row the DB confirmed, never on a DB error; a CREATE passes only when the controller row is in RUNNING for IMPORT, in the same data type otherwise); `PerformReadAnswersRows` (for READ, READ_SIBLING_BEGIN and READ_SIBLING, every count and DB outcome: the header counts the keys that follow; READ gives the key, SIBLING_BEGIN the controller's first switches whatever the key's id, SIBLING the switches after the key; an error has count 0 and, when the DB answered, means no row; `ReadInternal` returns the same keys) | pass |
| `ktswitch_oper_event_old` | `OperEventOldIsPrior` | **violation**: the "old" status in the UPDATE event is read after the update (`itc_kt_switch.cc:1838`) |
| `ktswitch_alarm_mask` | `AlarmKeepsUndefinedBits` | **violation**: the 16-bit masks `0xFFFE`/`0xFFFD` clear bits 16–63 of the `uint64` word (line 762) |
| `ktswitch_orphans` | `ChildrenHaveSwitch` | **violation**: after a failed child delete the switch row is still deleted, and deleting every switch of a controller never deletes logical ports (line 248) |

### Kt_Switch valid flags and address text (`KtSwitchValid.tla`, `MC_KtSwitchValid.tla`)

State:

- `switch_rows`: which keys have a switch row in STATE.
- `valid_col`: the `SWITCH_VALID` bytes of each STATE row.
- `upd`: the inputs and result of the last `UpdateSwitchValidFlag`.
- `ip_written`: how many bytes the last IPv6 formatting in
  `GetSwitchValStructure` wrote into `ip_value`.

| Action / operator | Code |
|---|---|
| `UpdateSwitchValidFlag`, `ReadStateRow` | `UpdateSwitchValidFlag`: `ReadInternal(STATE, READ)` (`ReadSwitchValFromDB`), the early returns for `new_valid_val == VALID` and a NULL `val`, then the write |
| `NewValidText` | the eleven `ss_new_valid <<` statements: a selected flag as the decimal text of `new_valid_val`, any other as the raw `uint8_t` of the row |
| `CStr` | `PopulateSchemaForValidFlag(..., ss_new_valid.str().c_str())`: the `string` parameter ends at the first NUL |
| `StoredValid` | `PopulateSchemaForValidFlag`: `FillDbSchema(SWITCH_VALID, valid_new.c_str(), 11, ...)` and `UpdateOneRow` |
| `FrameValidValue` | `FillSwitchValueStructure` zeroes both valid arrays, then `FrameValidValue` maps each character `c` to `c - 48` when `c >= 48` |
| `GetSwitchValStructure`, `Ipv6ValueWrites` | the IPv6 branch: `ip_value = new char[16]`, then `inet_ntop(AF_INET6, ..., ip_value, INET6_ADDRSTRLEN)` |
| `Inet6Text`, `Ntop6From`, `BestRun`, `ZeroRuns`, `Hex`, `Dec`, `Dotted`, `InetNtopWrites` | what glibc's `inet_ntop6` writes at that call: the first longest run of two or more zero words becomes `::`, words are printed in lower-case hex without leading zeros, `::ffff:a.b.c.d` and `::a.b.c.d` are printed dotted, and `ENOSPC` is returned when the text and its NUL exceed the size passed in |

`PhyUtil::IsValidValue` is not in this repository, so which attributes a
request selects is an input (`SelSets`). `FillDbSchema` is told to copy 11
bytes from a string that may be shorter. What the database then holds past
the terminator is unspecified, so `StoredValid` allows the string alone, or
the string, its NUL and a fill byte from `JunkBytes`. The IPv6 words are an
input (`Ipv6Words`). The other columns that `GetSwitchValStructure` reads go
through `FillDbSchema` and are left out.

**Bounds.**
- One controller and one switch.
- Two initial `SWITCH_VALID` texts, as a driver's create writes them in
  digits: all valid, and all valid except the IPv6 address.
- Requests that select no attribute or only the oper status.
- Every `new_valid_val`, and both answers of every DB call.
- IPv6 words from `{0, 1, 0x2001, 0xffff}` in each of the eight positions.
  These give zero runs of every length and place, the mapped and compatible
  IPv4 forms, and the longest texts.

Both runs are violations. The properties are what the code's own
declarations say: the flag array written is the one read back, and a buffer
of 16 bytes receives at most 16.

| Run | Checks | Result |
|---|---|---|
| `ktswitch_valid_flags` | `ValidFlagsKept` (after an update, selected flags read back as `new_valid_val` and the others as before) | **violation**: a kept `UNC_VF_INVALID` is written as a raw 0 byte, `c_str()` ends the text there, and every later flag (oper status, alarm status) reads back as INVALID (line 2097) |
| `ktswitch_ipv6_text` | `Ipv6TextFits` (the text and NUL written into `ip_value` fit its 16 bytes) | **violation**: `inet_ntop` is told the buffer has 46 bytes; `2001:1:1:1:1:1:1:1` writes 19 bytes, and every address whose text has 16 characters or more overruns it (line 2275) |

When the value structure is NULL or its IPv6 flag is not valid, `ip_value` is
never written, and `strlen(ip_value)` reads uninitialized memory (lines 2265
and 2286). That is listed as a hazard without a property: its outcome is
unbounded.

### DhcpRelayServerMoMgr (`DhcpRelayServer.tla`, `MC_DhcpRelayServer.tla`)

The manager owns no table. A behaviour is one request with these variables:

- `req`: operation, datatype and options;
- `ikey`: the key, as `ValidateMessage` leaves it;
- `rc`;
- `cs_row_status`;
- `phase`.

`HandleValidateMessage` runs `ValidateMessage` with `ValidateDhcpRelayKey`,
including the key's rewrite to address 0 for `READ_SIBLING_BEGIN/COUNT`.
`HandleUpdateConfigStatus` is the commit-time stamp of a created or updated
candidate row. `IsValidKey`, `GetChildConfigKey` and `GetParentConfigKey` are
operators. `ValidateKey` lives in the MoMgr utilities, which are not in `src/`.
It enters as the constant set `ValidNames`.

The rename path is also a set of operators. `CopyToConfigKey` builds a
relay-server key from the old names of a VTN or VROUTER rename.
`GetRenameKeyBindInfo` gives the columns the rename update matches on (all
three key columns, `KeyCols`). `RowMatches` is the rule of the generic MoMgr
code, which is not in `src/` and so is modelled from its contract: a match
column is bound only when `IsValidKey` accepts the key's value for it. The
empty vrouter name and address 0 of a VTN rename's key therefore match any
row.

**Bounds**:

- Every operation × datatype × option pair.
- Keys with two good names and an empty name (two, so that a rename can miss
  or hit another vtn or vrouter).
- Server addresses 0, 1 and all-ones. The address is 8 bits wide, so all-ones
  stands for `0xffffffff`.

That is 26984 states, one request each. The final states are where a request
stops, so deadlock is not checked.

| Run | Checks | Result |
|---|---|---|
| `dhcprelay_validate` | `TypeOK`; `ValidatedKeyUsable` (an accepted key passes `IsValidKey` on both names, and on the address exactly when the operation names a server); `AcceptedChangeGetsStatus` (no change that validation accepts is refused by `UpdateConfigStatus` at commit); `ChildKeyRoundTrips` (`GetChildConfigKey` and `GetParentConfigKey` agree); `RenameKeyMatchesOldRows` (the key a rename builds selects exactly the stored server rows under the old vtn, and the old vrouter for a VROUTER rename; only an empty old name is refused) | pass |

## 3. Plan for the remaining modules

Done: KeyTree, Kt_Switch (its alarm, oper-status, delete, bulk-read and
read handlers, its semantic validation, its valid-flag update and its IPv6
address text, and the refinement of HandleOperStatus to an abstract call),
and DhcpRelayServerMoMgr's validation.

Still to do, in **Kt_Switch**:
- `READ_SIBLING_COUNT` in `PerformRead` (what `GetBulkRows` answers for a count is
  part of the ODBC layer, not in the repository);
- the full pre-order of a `ReadBulk` resumed with `child_index >= 0`. The
  model takes `child_index`, and the delete run checks what a resumed read
  must keep. The stronger claim, that it returns exactly the pre-order rows
  after the key's children, does not hold for the code. The first switch after
  the key reads its children from `child_index+1`, which skips its ports: from
  s1, with ports on s1 and s2, the read returns s2 without its port. The
  `child_index -1` guard on `switch_exists` (line 359) keeps the key's switch
  out of the list, so the `+1` lands on the next switch. Whether rows are lost
  in practice depends on the `child_index` that `Kt_Port` passes when it
  resumes its parent. `Kt_Port` is not in this repository, and no run slot is
  left, so this stays a hazard with a note.

## 4. Not modelled

- `Kt_Switch::PerformSyntaxValidation`: its checks are the `IS_VALID_*` macros,
  which are not in the repository.
- `DhcpRelayServerMoMgr::UpdateAuditConfigStatus`: it runs in the audit of the
  generic MoMgr code, which is not in `src/`. `ValidateAttribute` and
  `ValidateCapability` only repeat `ValidateMessage`'s key-type check.
  `DupConfigKeyVal` and `AllocVal` copy or allocate buffers.
- `KeyTree::validate_parentkey`: nothing in the repository calls it. The
  `KeyTree` destructor is `clear_commit_cache` followed by
  `clear_audit_cache`, and both are already actions of `KeyTree`.
- `Kt_Switch::GetSwitchStateValStructure` (hazard at line 2357): the
  wrong flag array it reads feeds `PhyUtil::FillDbSchema`, which is not in
  the repository.

- Logging (`upll_log.hh`).
- The unit-test stubs.
- The ODBC and IPC codecs. These are I/O, and their outcomes enter the models
  as nondeterministic success or failure.
- Message formatting and payload values.
- TcLib (`tclib_module.hh`, `tclib_interface.hh`). The repository holds only
  its declarations. The participant's behaviour (`tclib_module.cc`) and the
  coordinator that drives it are not here. A module would be a model of a
  design, not of this code, so TcLib is left out.
- The lock manager and the transaction coordinator: no code in this
  repository.
