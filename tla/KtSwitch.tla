------------------------------ MODULE KtSwitch ------------------------------
(***************************************************************************)
(* The UPPL switch key type Kt_Switch (src/modules/uppl/itc_kt_switch.cc): *)
(* the rows of the switch table in the STATE and IMPORT databases, with    *)
(* their oper status and 64-bit alarm word, and the child rows that hang   *)
(* off a switch (ports, and logical ports in STATE).                       *)
(*                                                                         *)
(* Each handler is one atomic step, as it runs on one UPPL thread, except  *)
(* HandleOperStatus, whose GetBulkRows loop is a step per database call.   *)
(* Every ODBC call may fail; the calls into Kt_Port, Kt_LogicalPort and    *)
(* Kt_Controller (not in this repository) are reduced to their effect on   *)
(* the rows and a nondeterministic failure.                                *)
(***************************************************************************)
EXTENDS Naturals, Sequences, SequencesExt, Bitwise

CONSTANTS
    Controllers,    \* controller names (model values)
    SwitchIds,      \* switch ids in key order, a sequence of model values
    InitAlarms,     \* alarm words a row may hold when the model starts
    AlarmWidth,     \* bits of alarms_status kept (uint64 cut to this width)
    UPPL_MAX_REP_CT \* rows per GetBulkRows call

Switches == ToSet(SwitchIds)
Keys == Controllers \X Switches
EmptyId == ""        \* an empty switch_id string in key_switch_t
DT == {"STATE", "IMPORT"}
NoRow == [none |-> "NoRow"]  \* no row under the key

ALARM_UPPL_ALARMS_FLOW_ENT_FULL == 1        \* 0000 0001
ALARM_UPPL_ALARMS_OFS_LACK_FEATURES == 2    \* 0000 0010
AlarmBit == [UNC_FLOW_ENT_FULL |-> ALARM_UPPL_ALARMS_FLOW_ENT_FULL,
             UNC_OFS_LACK_FEATURES |-> ALARM_UPPL_ALARMS_OFS_LACK_FEATURES]
AlarmTypes == DOMAIN AlarmBit
AlarmWord == 0..(2^AlarmWidth - 1)

OperStatus == {"UPPL_SWITCH_OPER_UP", "UPPL_SWITCH_OPER_DOWN",
               "UPPL_SWITCH_OPER_UNKNOWN"}
Row == [oper_status : OperStatus, alarms_status : AlarmWord]

ASSUME IsInjective(SwitchIds) /\ EmptyId \notin Switches
ASSUME InitAlarms \subseteq AlarmWord /\ UPPL_MAX_REP_CT \in Nat \ {0}

VARIABLES
    switch_table,        \* [DT -> [Keys -> Row \cup {NoRow}]]
    port_table,          \* [DT -> SUBSET Keys]: switches with port rows
    logical_port_table,  \* SUBSET Keys: switches with a logical port (STATE)
    ctr_oper_status,     \* oper status of each controller row
    last_event,          \* the last event SendEvent was given, or NoEvent
    last_delete,         \* request and result of the last DeleteKeyInstance
    hos,                 \* HandleOperStatus in progress: pc, key, cursor, keys
    notified             \* switches NotifyOperStatus was called for, this call

vars == <<switch_table, port_table, logical_port_table, ctr_oper_status,
          last_event, last_delete, hos, notified>>

NoEvent == [kind |-> "none"]
NoDelete == [rc |-> "none"]

-----------------------------------------------------------------------------
(***************************************************************************)
(* Reads.                                                                  *)
(***************************************************************************)

Exists(dt, k) == switch_table[dt][k] # NoRow

\* GetAlarmStatus: GetOneRow of the key; UPPL_RC_ERR_DB_GET when the call
\* fails or finds no row.
GetAlarmStatus(dt, k, get_ok) ==
    IF get_ok /\ Exists(dt, k)
    THEN [rc |-> "UPPL_RC_SUCCESS", alarms_status |-> switch_table[dt][k].alarms_status]
    ELSE [rc |-> "UPPL_RC_ERR_DB_GET"]

\* GetOperStatus: the same read of oper_status, from the table tab.
GetOperStatus(tab, dt, k, get_ok) ==
    IF get_ok /\ tab[dt][k] # NoRow
    THEN [rc |-> "UPPL_RC_SUCCESS", oper_status |-> tab[dt][k].oper_status]
    ELSE [rc |-> "UPPL_RC_ERR_DB_GET"]

\* Position of a switch id in key order; the empty id sorts first.
Pos(s) == IF s = EmptyId THEN 0 ELSE CHOOSE i \in 1..Len(SwitchIds) : SwitchIds[i] = s

\* GetBulkRows on (controller_name, switch_id): the next n rows of that
\* controller after the given switch id, in key order (the ODBC layer is
\* not in this repository; this is its contract).
BulkRows(dt, c, s, n) ==
    LET after == SelectSeq(SwitchIds, LAMBDA x : Pos(x) > Pos(s) /\ Exists(dt, <<c, x>>))
    IN  SubSeq(after, 1, IF Len(after) < n THEN Len(after) ELSE n)

\* ReadBulkInternal (UNC_OP_READ_BULK) of max_rep_ct rows: none asked is
\* SUCCESS, a failed call UPPL_RC_ERR_DB_GET whatever the rows, no rows
\* UPPL_RC_ERR_NO_SUCH_INSTANCE.
ReadBulkInternal(dt, c, s, max_rep_ct, db_ok) ==
    LET rows == BulkRows(dt, c, s, max_rep_ct)
    IN  IF max_rep_ct = 0 THEN [rc |-> "UPPL_RC_SUCCESS", ids |-> <<>>]
        ELSE IF ~db_ok THEN [rc |-> "UPPL_RC_ERR_DB_GET", ids |-> <<>>]
        ELSE IF rows = <<>> THEN [rc |-> "UPPL_RC_ERR_NO_SUCH_INSTANCE", ids |-> <<>>]
        ELSE [rc |-> "UPPL_RC_SUCCESS", ids |-> rows]

\* Entries of a READ_BULK response: a switch, or the port rows of a switch
\* (port_table keeps one port entry per switch).
SwitchEntry(c, x) == [kind |-> "switch", key |-> <<c, x>>]
PortEntry(c, x)   == [kind |-> "port", key |-> <<c, x>>]

\* Kt_Port::ReadBulk on the child key (controller, switch, ""), called with
\* parent_call true: the switch's port entry if the budget allows, and the
\* budget decremented for it (Kt_Port is not in this repository).
PortReadBulk(acc, c, x) ==
    IF <<c, x>> \in port_table["STATE"] /\ acc.n > 0
    THEN [buf |-> Append(acc.buf, PortEntry(c, x)), n |-> acc.n - 1]
    ELSE acc

KIdxPort == 0    \* KtSwitchChildClass: ports are the switch's only child class

DbAnswer == {"ok", "connection_error"}

\* IsKeyExists: IsRowExists, a connection error is UPPL_RC_ERR_DB_ACCESS,
\* ROW_EXISTS success, anything else NO_SUCH_INSTANCE.  The key vector is
\* never empty here, so BAD_REQUEST is not reached.
IsKeyExists(present, db) ==
    IF db = "connection_error" THEN "UPPL_RC_ERR_DB_ACCESS"
    ELSE IF present THEN "UPPL_RC_SUCCESS"
    ELSE "UPPL_RC_ERR_NO_SUCH_INSTANCE"


\* Mutation: the switch named in the key is emitted again.
ReadBulk_EmitKey(dt, c, s, max_rep_ct, db_ok, key_db, parent_call, child_index) ==
    LET switch_exists == /\ child_index = -1 /\ s # EmptyId
                         /\ IsKeyExists(Exists("STATE", <<c, s>>), key_db) = "UPPL_RC_SUCCESS"
        rb    == ReadBulkInternal("STATE", c, s, max_rep_ct, db_ok)
        list  == IF switch_exists THEN <<s>> \o rb.ids ELSE rb.ids
        children(i) == ~(i = 1 /\ child_index >= 0 /\ child_index <= KIdxPort)
        step(acc, i) ==
            IF acc.n = 0 THEN acc
            ELSE LET a1 == [buf |-> Append(acc.buf, SwitchEntry(c, list[i])), n |-> acc.n - 1]
                 IN  IF a1.n = 0 \/ ~children(i) THEN a1 ELSE PortReadBulk(a1, c, list[i])
        walk  == FoldLeft(step, [buf |-> <<>>, n |-> max_rep_ct], [i \in 1..Len(list) |-> i])
    IN  IF dt # "STATE" THEN [rc |-> "UPPL_RC_ERR_OPERATION_NOT_ALLOWED", buf |-> <<>>]
        ELSE IF max_rep_ct = 0 THEN [rc |-> "UPPL_RC_SUCCESS", buf |-> <<>>]
        ELSE [buf |-> walk.buf,
              rc |-> IF walk.n = 0 \/ ~parent_call \/ rb.rc = "UPPL_RC_ERR_NO_SUCH_INSTANCE"
                     THEN "UPPL_RC_SUCCESS" ELSE rb.rc]

\* ReadBulk: only STATE; max_rep_ct 0 returns at once. child_index is -1
\* for a read that starts at a switch key, or the child class a read
\* resumes after. Only with -1 is the key's switch looked up (IsKeyExists,
\* whose connection outcome is key_db) and, when that succeeds, put first
\* with a dummy value so that only its children are read. Every further switch costs one entry, then its
\* ports; the children of the first switch of the list are read from
\* child_index+1 on, and child_index is then reset to -1. A budget that
\* reaches 0 ends the read with SUCCESS. Otherwise, outside a parent's
\* call, the next-kin read of Kt_Controller follows (not modelled) and the
\* result is SUCCESS; inside one, NO_SUCH_INSTANCE becomes SUCCESS.
ReadBulk(dt, c, s, max_rep_ct, db_ok, key_db, parent_call, child_index) ==
    LET switch_exists == /\ child_index = -1 /\ s # EmptyId
                         /\ IsKeyExists(Exists("STATE", <<c, s>>), key_db) = "UPPL_RC_SUCCESS"
        rb    == ReadBulkInternal("STATE", c, s, max_rep_ct, db_ok)
        list  == IF switch_exists THEN <<s>> \o rb.ids ELSE rb.ids
        children(i) == ~(i = 1 /\ child_index >= 0 /\ child_index <= KIdxPort)
        step(acc, i) ==
            IF acc.n = 0 THEN acc
            ELSE LET a1 == IF i = 1 /\ switch_exists THEN acc
                           ELSE [buf |-> Append(acc.buf, SwitchEntry(c, list[i])), n |-> acc.n - 1]
                 IN  IF a1.n = 0 \/ ~children(i) THEN a1 ELSE PortReadBulk(a1, c, list[i])
        walk  == FoldLeft(step, [buf |-> <<>>, n |-> max_rep_ct], [i \in 1..Len(list) |-> i])
    IN  IF dt # "STATE" THEN [rc |-> "UPPL_RC_ERR_OPERATION_NOT_ALLOWED", buf |-> <<>>]
        ELSE IF max_rep_ct = 0 THEN [rc |-> "UPPL_RC_SUCCESS", buf |-> <<>>]
        ELSE [buf |-> walk.buf,
              rc |-> IF walk.n = 0 \/ ~parent_call \/ rb.rc = "UPPL_RC_ERR_NO_SUCH_INSTANCE"
                     THEN "UPPL_RC_SUCCESS" ELSE rb.rc]

\* Reference for a bulk read: the STATE rows of a controller in pre-order
\* (each switch, then its ports), and the part of it after a switch key.
PreOrder(c) ==
    LET entries(x) ==
            IF Exists("STATE", <<c, x>>)
            THEN <<SwitchEntry(c, x)>> \o (IF <<c, x>> \in port_table["STATE"]
                                          THEN <<PortEntry(c, x)>> ELSE <<>>)
            ELSE <<>>
    IN  FoldLeft(LAMBDA acc, x : acc \o entries(x), <<>>, SwitchIds)
PreOrderAfter(c, s) ==
    SelectSeq(PreOrder(c), LAMBDA e : Pos(e.key[2]) > Pos(s) \/ (e.key[2] = s /\ e.kind = "port"))
ReadBulkMaxRep == 2 * Len(SwitchIds)    \* enough budget to list everything

\* Mutation: the key's switch_id is kept for every operation.
SchemaSwitchId_Keep(op, s) == s

\* PopulateDBSchemaForKtTable: the switch_id put in the schema; it is
\* cleared for READ_SIBLING_BEGIN and READ_SIBLING_COUNT.
SchemaSwitchId(op, s) ==
    IF op \in {"UNC_OP_READ_SIBLING_BEGIN", "UNC_OP_READ_SIBLING_COUNT"}
    THEN EmptyId ELSE s

\* FillSwitchValueStructure: one key and value per row returned, in the
\* order of the row list, and max_rep_ct set to the number of rows.
FillSwitchValueStructure(rows) == [ids |-> rows, max_rep_ct |-> Len(rows)]

\* ReadSwitchValFromDB: GetOneRow for READ, GetBulkRows of max_rep_ct rows
\* otherwise; a failed call is UPPL_RC_ERR_DB_GET, no row
\* UPPL_RC_ERR_NO_SUCH_INSTANCE; the rows are then filled in.
ReadSwitchValFromDB(dt, op, c, s, max_rep_ct, db_ok) ==
    LET sid  == SchemaSwitchId(op, s)
        rows == IF op = "UNC_OP_READ"
                THEN IF sid # EmptyId /\ Exists(dt, <<c, sid>>) THEN <<sid>> ELSE <<>>
                ELSE BulkRows(dt, c, sid, max_rep_ct)
    IN  IF ~db_ok THEN [rc |-> "UPPL_RC_ERR_DB_GET", ids |-> <<>>, max_rep_ct |-> max_rep_ct]
        ELSE IF rows = <<>>
        THEN [rc |-> "UPPL_RC_ERR_NO_SUCH_INSTANCE", ids |-> <<>>, max_rep_ct |-> max_rep_ct]
        ELSE [rc |-> "UPPL_RC_SUCCESS"] @@ FillSwitchValueStructure(rows)

\* ReadInternal: one row for READ, UPPL_MAX_REP_CT rows otherwise; the
\* keys read on success, none on failure.
ReadInternal(dt, op, c, s, db_ok) ==
    LET r == ReadSwitchValFromDB(dt, op, c, s,
                                 IF op = "UNC_OP_READ" THEN 1 ELSE UPPL_MAX_REP_CT, db_ok)
    IN  [rc |-> r.rc, ids |-> IF r.rc = "UPPL_RC_SUCCESS" THEN r.ids ELSE <<>>]

\* PerformRead: the response header (result code, max_rep_count) and the
\* keys that follow it. An option1 other than NORMAL, or a data type other
\* than STATE, answers with the request's header and key; a failed read
\* answers with count 0 and the key; success with the count of rows read
\* and one key per row.
PerformRead(dt, op, c, s, opt1_normal, max_rep_ct, db_ok) ==
    LET r == ReadSwitchValFromDB(dt, op, c, s,
                                 IF op = "UNC_OP_READ" THEN 1 ELSE max_rep_ct, db_ok)
    IN  IF ~opt1_normal
        THEN [rc |-> "UPPL_RC_ERR_INVALID_OPTION1", max_rep_count |-> max_rep_ct,
              keys |-> <<<<c, s>>>>]
        ELSE IF dt # "STATE"
        THEN [rc |-> "UPPL_RC_ERR_OPERATION_NOT_ALLOWED", max_rep_count |-> max_rep_ct,
              keys |-> <<<<c, s>>>>]
        ELSE IF r.rc = "UPPL_RC_SUCCESS"
        THEN [rc |-> r.rc, max_rep_count |-> r.max_rep_ct,
              keys |-> [i \in 1..Len(r.ids) |-> <<c, r.ids[i]>>]]
        ELSE [rc |-> r.rc, max_rep_count |-> 0, keys |-> <<<<c, s>>>>]

\* Reference for a read of switch rows: the switches of a controller in key
\* order, as the bulk-read reference lists them, and those after a key.
SwitchesOf(c) ==
    [i \in 1..Len(SelectSeq(PreOrder(c), LAMBDA e : e.kind = "switch")) |->
        SelectSeq(PreOrder(c), LAMBDA e : e.kind = "switch")[i].key]
SwitchesAfter(c, s) == SelectSeq(SwitchesOf(c), LAMBDA k : Pos(k[2]) > Pos(s))
FirstN(seq, n) == SubSeq(seq, 1, IF n < Len(seq) THEN n ELSE Len(seq))

-----------------------------------------------------------------------------
(***************************************************************************)
(* PerformSemanticValidation.  It reads the switch row through IsKeyExists *)
(* and, for a CREATE, the controller row through Kt_Controller's          *)
(* IsKeyExists (not in this repository; taken to answer like the switch's  *)
(* own).  Controller rows are an input ctr: [CtrDT -> SUBSET Controllers]; *)
(* db and pdb are the two IsRowExists answers.                             *)
(***************************************************************************)
CtrDT == {"RUNNING", "STATE", "IMPORT"}
ParentDataType_Same(dt) == dt

\* The controller is looked up in RUNNING when the request is on IMPORT.
ParentDataType(dt) == IF dt = "IMPORT" THEN "RUNNING" ELSE dt

PerformSemanticValidation(dt, op, k, db, ctr, pdb) ==
    LET key_status == IsKeyExists(Exists(dt, k), db)
        status ==
            IF op = "UNC_OP_CREATE"
            THEN IF key_status = "UPPL_RC_SUCCESS"
                 THEN "UPPL_RC_ERR_INSTANCE_EXISTS" ELSE "UPPL_RC_SUCCESS"
            ELSE IF key_status # "UPPL_RC_SUCCESS"
                 THEN "UPPL_RC_ERR_NO_SUCH_INSTANCE" ELSE "UPPL_RC_SUCCESS"
        parent_key_status ==
            IsKeyExists(k[1] \in ctr[ParentDataType(dt)], pdb)
    IN  IF /\ op = "UNC_OP_CREATE"
           /\ status = "UPPL_RC_SUCCESS"
           /\ parent_key_status # "UPPL_RC_SUCCESS"
        THEN "UPPL_RC_ERR_PARENT_DOES_NOT_EXIST"
        ELSE status

-----------------------------------------------------------------------------
(***************************************************************************)
(* Alarms.                                                                 *)
(***************************************************************************)

\* Mutation: an alarm is cleared by subtracting its bit.
new_alarm_status_Subtract(old_alarm_status, alarm_type, oper_type) ==
    IF oper_type = "UNC_OP_CREATE"
    THEN old_alarm_status | AlarmBit[alarm_type]
    ELSE old_alarm_status - AlarmBit[alarm_type]

\* Mutation: the flow-entry-full clear uses 0xFFFC, dropping both alarms.
new_alarm_status_WideMask(old_alarm_status, alarm_type, oper_type) ==
    IF oper_type = "UNC_OP_CREATE"
    THEN old_alarm_status | AlarmBit[alarm_type]
    ELSE old_alarm_status & (IF alarm_type = "UNC_FLOW_ENT_FULL" THEN 65532 ELSE 65533)

\* The new alarm word HandleDriverAlarms computes; the clears use 16-bit
\* masks, and any other alarm or operation leaves it 0.
new_alarm_status(old_alarm_status, alarm_type, oper_type) ==
    CASE alarm_type = "UNC_FLOW_ENT_FULL" /\ oper_type = "UNC_OP_CREATE" ->
             old_alarm_status | ALARM_UPPL_ALARMS_FLOW_ENT_FULL
      [] alarm_type = "UNC_FLOW_ENT_FULL" /\ oper_type = "UNC_OP_DELETE" ->
             old_alarm_status & 65534                 \* 0xFFFE
      [] alarm_type = "UNC_OFS_LACK_FEATURES" /\ oper_type = "UNC_OP_CREATE" ->
             old_alarm_status | ALARM_UPPL_ALARMS_OFS_LACK_FEATURES
      [] alarm_type = "UNC_OFS_LACK_FEATURES" /\ oper_type = "UNC_OP_DELETE" ->
             old_alarm_status & 65533                 \* 0xFFFD
      [] OTHER -> 0

\* HandleDriverAlarms: GetAlarmStatus, then UpdateKeyInstance of the new
\* word when it differs, then (except in IMPORT) an UPDATE event carrying the
\* old and new words.  A failed read or update changes nothing.
HandleDriverAlarms(dt, alarm_type, oper_type, k, get_ok, upd_ok) ==
    /\ hos.pc = "idle"
    /\ GetAlarmStatus(dt, k, get_ok).rc = "UPPL_RC_SUCCESS"
    /\ LET old == GetAlarmStatus(dt, k, get_ok).alarms_status
           new == new_alarm_status(old, alarm_type, oper_type)
       IN  /\ old # new
           /\ upd_ok                                          \* UpdateKeyInstance
           /\ switch_table' = [switch_table EXCEPT ![dt][k].alarms_status = new]
           /\ last_event' = IF dt = "IMPORT" THEN last_event
                            ELSE [kind |-> "alarm", dt |-> dt, key |-> k,
                                  alarm |-> alarm_type, op |-> oper_type,
                                  old |-> old, new |-> new, prior |-> old]
    /\ UNCHANGED <<port_table, logical_port_table, ctr_oper_status,
                   last_delete, hos, notified>>

-----------------------------------------------------------------------------
(***************************************************************************)
(* Oper status.                                                            *)
(***************************************************************************)

\* SetOperStatus: UpdateOneRow of oper_status on (controller_name) alone when
\* is_single_key, else on (controller_name, switch_id); then GetOperStatus
\* reads the key back and an UPDATE event carries it as the old value.
\* The ghost field prior is the key's oper_status before the update.
SetOperStatus(dt, k, oper_status, is_single_key, upd_ok, get_ok) ==
    LET matched == IF is_single_key THEN {<<k[1], x>> : x \in Switches}
                   ELSE {k}
        tab == [switch_table EXCEPT ![dt] =
                   [key \in Keys |-> IF key \in matched /\ Exists(dt, key)
                                     THEN [@[key] EXCEPT !.oper_status = oper_status]
                                     ELSE @[key]]]
    IN  IF ~upd_ok                                   \* UPPL_RC_ERR_DB_UPDATE
        THEN UNCHANGED <<switch_table, last_event>>
        ELSE /\ switch_table' = tab
             /\ last_event' =
                   IF GetOperStatus(tab, dt, k, get_ok).rc = "UPPL_RC_SUCCESS"
                   THEN [kind |-> "oper", dt |-> dt, key |-> k,
                         old |-> GetOperStatus(tab, dt, k, get_ok).oper_status,
                         new |-> oper_status,
                         prior |-> switch_table[dt][k].oper_status]
                   ELSE last_event

\* SetOperStatus called for one switch (is_single_key false).
SetSwitchOperStatus(dt, k, oper_status, upd_ok, get_ok) ==
    /\ hos.pc = "idle"
    /\ SetOperStatus(dt, k, oper_status, FALSE, upd_ok, get_ok)
    /\ UNCHANGED <<port_table, logical_port_table, ctr_oper_status,
                   last_delete, hos, notified>>

\* HandleOperStatus, up to its GetBulkRows loop: the switch is UP when the
\* controller's oper status reads UP, UNKNOWN otherwise (also when
\* Kt_Controller::GetOperStatus fails); SetOperStatus(..., true) sets it on
\* every switch of the controller; the loop starts at switch_id "".
HandleOperStatus(dt, k, ctr_ok, upd_ok, get_ok) ==
    /\ hos.pc = "idle"
    /\ LET st == IF ctr_ok /\ ctr_oper_status[k[1]] = "UPPL_CONTROLLER_OPER_UP"
                 THEN "UPPL_SWITCH_OPER_UP" ELSE "UPPL_SWITCH_OPER_UNKNOWN"
       IN  SetOperStatus(dt, k, st, TRUE, upd_ok, get_ok)
    /\ hos' = [pc |-> "bulk", dt |-> dt, c |-> k[1], cursor |-> EmptyId,
               keys |-> <<>>, failed |-> FALSE]
    /\ notified' = <<>>
    /\ UNCHANGED <<port_table, logical_port_table, ctr_oper_status, last_delete>>

\* Mutation: vectSwitchKey is declared inside the while loop, so only the
\* rows of the last successful pass are kept.
HandleOperStatusBulk_LastBatchOnly(db_ok) ==
    /\ hos.pc = "bulk"
    /\ LET rows == BulkRows(hos.dt, hos.c, hos.cursor, UPPL_MAX_REP_CT)
       IN  hos' = IF db_ok /\ rows # <<>>
                  THEN [hos EXCEPT !.cursor = Last(rows), !.keys = rows]
                  ELSE [hos EXCEPT !.pc = "notify", !.failed = ~db_ok]
    /\ UNCHANGED <<switch_table, port_table, logical_port_table,
                   ctr_oper_status, last_event, last_delete, notified>>

\* One pass of the while(true) loop: GetBulkRows(READ_SIBLING_BEGIN) from
\* (controller_name, switch_id); the rows read are pushed onto
\* vectSwitchKey and switch_id becomes the last one; any other answer than
\* success (no more rows, or a failed call) ends the loop.  failed records
\* which of the two it was; the code does not tell them apart.
HandleOperStatusBulk(db_ok) ==
    /\ hos.pc = "bulk"
    /\ LET rows == BulkRows(hos.dt, hos.c, hos.cursor, UPPL_MAX_REP_CT)
       IN  hos' = IF db_ok /\ rows # <<>>
                  THEN [hos EXCEPT !.cursor = Last(rows), !.keys = @ \o rows]
                  ELSE [hos EXCEPT !.pc = "notify", !.failed = ~db_ok]
    /\ UNCHANGED <<switch_table, port_table, logical_port_table,
                   ctr_oper_status, last_event, last_delete, notified>>

\* The closing loop of HandleOperStatus: one NotifyOperStatus per switch
\* collected, which hands the change to Kt_Ctr_Domain, Kt_LogicalPort and
\* Kt_Port (their tables are not modelled); then the handler returns.
NotifyOperStatus ==
    /\ hos.pc = "notify"
    /\ IF hos.keys = <<>>
       THEN /\ hos' = [pc |-> "idle"]
            /\ UNCHANGED notified
       ELSE /\ notified' = Append(notified, Head(hos.keys))
            /\ hos' = [hos EXCEPT !.keys = Tail(@)]
    /\ UNCHANGED <<switch_table, port_table, logical_port_table,
                   ctr_oper_status, last_event, last_delete>>

-----------------------------------------------------------------------------
(***************************************************************************)
(* Delete.                                                                 *)
(***************************************************************************)

\* Kt_Port::DeleteKeyInstance on the child key, which DeleteKeyInstance fills
\* from the request's switch_id (empty: every port of the controller).
PortDelete(ports, c, switch_id, ok) ==
    LET hit == {k \in ports : k[1] = c /\ (switch_id = EmptyId \/ k[2] = switch_id)}
    IN  IF ~ok THEN [ports |-> ports, rc |-> "UPPL_RC_ERR_DB_DELETE"]
        ELSE IF hit = {} THEN [ports |-> ports, rc |-> "UPPL_RC_ERR_NO_SUCH_INSTANCE"]
        ELSE [ports |-> ports \ hit, rc |-> "UPPL_RC_SUCCESS"]

\* Mutation: the child key takes the switch id of the listed switch (sw_id)
\* instead of the request's switch_id.
DeleteChildren_SwId(ports, c, switch_id, ids, child_ok, status0) ==
    LET step(acc, i) ==
            LET r == PortDelete(acc.ports, c, ids[i], child_ok[i])
            IN  [ports |-> r.ports,
                 rc |-> IF r.rc \notin {"UPPL_RC_SUCCESS", "UPPL_RC_ERR_NO_SUCH_INSTANCE"}
                        THEN "UPPL_RC_ERR_CFG_SEMANTIC" ELSE r.rc]
    IN  FoldLeft(step, [ports |-> ports, rc |-> status0], [i \in 1..Len(ids) |-> i])

\* The child loop: one delete per switch listed, for each child class; a
\* failure other than NO_SUCH_INSTANCE sets UPPL_RC_ERR_CFG_SEMANTIC and
\* leaves the class loop only, and every pass overwrites delete_status.
DeleteChildren(ports, c, switch_id, ids, child_ok, status0) ==
    LET step(acc, i) ==
            LET r == PortDelete(acc.ports, c, switch_id, child_ok[i])
            IN  [ports |-> r.ports,
                 rc |-> IF r.rc \notin {"UPPL_RC_SUCCESS", "UPPL_RC_ERR_NO_SUCH_INSTANCE"}
                        THEN "UPPL_RC_ERR_CFG_SEMANTIC" ELSE r.rc]
    IN  FoldLeft(step, [ports |-> ports, rc |-> status0], [i \in 1..Len(ids) |-> i])

\* DeleteKeyInstance: only STATE and IMPORT; with an empty switch_id the
\* switches come from ReadBulkInternal; children are deleted, then the
\* logical port read from STATE with the request's switch_id, then
\* DeleteOneRow on (controller_name [, switch_id]) whatever came before.
DeleteKeyInstance(dt, c, s, read_ok, child_ok, lp_ok, db_del) ==
    /\ hos.pc = "idle"
    /\ IF dt \notin DT
       THEN /\ last_delete' = [dt |-> dt, c |-> c, s |-> s,
                               rc |-> "UPPL_RC_ERR_OPERATION_NOT_ALLOWED"]
            /\ UNCHANGED <<switch_table, port_table, logical_port_table>>
       ELSE LET rb == IF s = EmptyId THEN ReadBulkInternal(dt, c, EmptyId, UPPL_MAX_REP_CT, read_ok)
                      ELSE [rc |-> "UPPL_RC_SUCCESS", ids |-> <<s>>]
                ch == DeleteChildren(port_table[dt], c, s, rb.ids, child_ok, rb.rc)
                gone == {k \in Keys : k[1] = c /\ (s = EmptyId \/ k[2] = s)}
                rc == CASE db_del = "ODBCM_RC_SUCCESS" -> ch.rc
                        [] db_del = "ODBCM_RC_CONNECTION_ERROR" -> "UPPL_RC_ERR_DB_ACCESS"
                        [] OTHER -> "UPPL_RC_ERR_DB_DELETE"
            IN  /\ DOMAIN child_ok = 1..Len(rb.ids)
                /\ port_table' = [port_table EXCEPT ![dt] = ch.ports]
                /\ logical_port_table' =
                      IF lp_ok /\ s # EmptyId THEN logical_port_table \ {<<c, s>>}
                      ELSE logical_port_table
                /\ switch_table' =
                      IF db_del = "ODBCM_RC_SUCCESS"
                      THEN [switch_table EXCEPT ![dt] =
                              [k \in Keys |-> IF k \in gone THEN NoRow ELSE @[k]]]
                      ELSE switch_table
                /\ last_delete' = [dt |-> dt, c |-> c, s |-> s, rc |-> rc]
    /\ UNCHANGED <<ctr_oper_status, last_event, hos, notified>>

-----------------------------------------------------------------------------
(***************************************************************************)
(* The controller's oper status, set by Kt_Controller (not in this         *)
(* repository) when the controller connects or disconnects.                *)
(***************************************************************************)

ControllerOperChange(c) ==
    /\ hos.pc = "idle"
    /\ ctr_oper_status' = [ctr_oper_status EXCEPT ![c] =
          IF @ = "UPPL_CONTROLLER_OPER_UP" THEN "UPPL_CONTROLLER_OPER_DOWN"
          ELSE "UPPL_CONTROLLER_OPER_UP"]
    /\ UNCHANGED <<switch_table, port_table, logical_port_table, last_event,
                   last_delete, hos, notified>>

-----------------------------------------------------------------------------

\* Every switch row, its ports and (in STATE) its logical port exist; the
\* alarm words are any of InitAlarms, the oper status not yet known.
Init ==
    /\ switch_table \in [DT -> [Keys -> [oper_status : {"UPPL_SWITCH_OPER_UNKNOWN"},
                                         alarms_status : InitAlarms]]]
    /\ port_table = [dt \in DT |-> Keys]
    /\ logical_port_table = Keys
    /\ ctr_oper_status \in [Controllers -> {"UPPL_CONTROLLER_OPER_UP",
                                            "UPPL_CONTROLLER_OPER_DOWN"}]
    /\ last_event = NoEvent
    /\ last_delete = NoDelete
    /\ hos = [pc |-> "idle"]
    /\ notified = <<>>

DbDeleteResult == {"ODBCM_RC_SUCCESS", "ODBCM_RC_CONNECTION_ERROR", "ODBCM_RC_FAILED"}

AlarmStep ==
    \E dt \in DT, a \in AlarmTypes, op \in {"UNC_OP_CREATE", "UNC_OP_DELETE"},
      k \in Keys, upd_ok \in BOOLEAN :
        HandleDriverAlarms(dt, a, op, k, TRUE, upd_ok)

OperStep ==
    \/ \E dt \in DT, k \in Keys, st \in OperStatus, upd_ok, get_ok \in BOOLEAN :
          SetSwitchOperStatus(dt, k, st, upd_ok, get_ok)
    \/ \E dt \in DT, k \in Keys, ctr_ok, upd_ok, get_ok \in BOOLEAN :
          HandleOperStatus(dt, k, ctr_ok, upd_ok, get_ok)
    \/ \E db_ok \in BOOLEAN : HandleOperStatusBulk(db_ok)
    \/ NotifyOperStatus
    \/ \E c \in Controllers : ControllerOperChange(c)

DeleteStep ==
    \E dt \in DT \cup {"RUNNING"}, c \in Controllers, s \in Switches \cup {EmptyId},
      read_ok, lp_ok \in BOOLEAN, db_del \in DbDeleteResult :
        \E child_ok \in UNION {[1..n -> BOOLEAN] : n \in 0..UPPL_MAX_REP_CT} :
            DeleteKeyInstance(dt, c, s, read_ok, child_ok, lp_ok, db_del)

\* The alarm word, the oper status and the child rows are independent
\* columns and tables; each question is checked with the handlers that
\* write what it reads.  Deletes remove alarm words under HandleDriverAlarms;
\* under HandleOperStatus a removed row only shortens the GetBulkRows loop.
AlarmNext == AlarmStep \/ DeleteStep
OperNext == OperStep
Next == AlarmStep \/ OperStep \/ DeleteStep

\* HandleOperStatus is one synchronous call: once started, the thread that
\* runs it keeps making its calls, and the database answers them.  A failed
\* GetBulkRows is possible but never assumed: fairness is on the answered
\* call, so a loop that cannot end shows as the handler never returning.
Fairness ==
    /\ WF_vars(HandleOperStatusBulk(TRUE))
    /\ WF_vars(NotifyOperStatus)

Spec == Init /\ [][Next]_vars /\ Fairness
AlarmSpec == Init /\ [][AlarmNext]_vars
OperSpec == Init /\ [][OperNext]_vars /\ Fairness
DeleteSpec == Init /\ [][DeleteStep]_vars

-----------------------------------------------------------------------------
(***************************************************************************)
(* Properties.                                                             *)
(***************************************************************************)

TypeOK ==
    /\ switch_table \in [DT -> [Keys -> Row \cup {NoRow}]]
    /\ port_table \in [DT -> SUBSET Keys]
    /\ logical_port_table \subseteq Keys
    /\ ctr_oper_status \in [Controllers -> {"UPPL_CONTROLLER_OPER_UP",
                                            "UPPL_CONTROLLER_OPER_DOWN"}]
    /\ hos.pc \in {"idle", "bulk", "notify"}
    /\ notified \in Seq(Switches)

\* HandleDriverAlarms: the last alarm event sets the alarm's own bit on
\* UNC_OP_CREATE and clears it on UNC_OP_DELETE, leaves the other switch
\* alarm's bit as it was, carries as old the word held before the update,
\* and its new word is what the row still holds.
AlarmEventCorrect ==
    last_event.kind = "alarm" =>
        LET e == last_event
            b == AlarmBit[e.alarm]
            other == 3 - b
        IN  /\ (e.new & b) = (IF e.op = "UNC_OP_CREATE" THEN b ELSE 0)
            /\ (e.new & other) = (e.old & other)
            /\ e.old = e.prior
            /\ Exists(e.dt, e.key) => switch_table[e.dt][e.key].alarms_status = e.new

\* DeleteKeyInstance: when it returns UPPL_RC_SUCCESS, the switch rows it was
\* asked to delete (every switch of the controller for an empty switch_id)
\* are gone, and so are their port rows.
DeleteSuccessMeansGone ==
    last_delete.rc = "UPPL_RC_SUCCESS" =>
        LET d == last_delete
        IN  \A k \in Keys :
                k[1] = d.c /\ (d.s = EmptyId \/ k[2] = d.s) =>
                    ~Exists(d.dt, k) /\ k \notin port_table[d.dt]

\* A READ_BULK that starts at a switch key returns the rows after that key
\* in pre-order, cut at max_rep_ct: the switch named in the key is not
\* repeated, no switch loses its ports, and the budget shared with
\* Kt_Port is never exceeded. When GetBulkRows fails, what was sent is
\* still a prefix of that answer. When IsKeyExists fails on the key
\* (DB_ACCESS), the key's switch is not put first and the read answers,
\* with SUCCESS, the same rows without the key's own ports. A read resumed
\* after the key's ports (child_index KIdxPort) sends nothing of the key's
\* switch, keeps pre-order without repeats, and, when the budget and the
\* database allow, lists every later switch.
ReadBulkReturnsPreOrder ==
    \A c \in Controllers, s \in Switches \cup {EmptyId}, n \in 0..ReadBulkMaxRep,
       ok \in BOOLEAN, kdb \in DbAnswer, pc \in BOOLEAN :
        LET cut(q) == SubSeq(q, 1, IF n < Len(q) THEN n ELSE Len(q))
            rest   == SelectSeq(PreOrderAfter(c, s), LAMBDA e : e.key[2] # s)
            ref    == cut(IF kdb = "ok" THEN PreOrderAfter(c, s) ELSE rest)
            r      == ReadBulk("STATE", c, s, n, ok, kdb, pc, -1)
            rr     == ReadBulk("STATE", c, s, n, ok, kdb, pc, KIdxPort)
            sw(q)  == SelectSeq(q, LAMBDA e : e.kind = "switch")
        IN  /\ IsPrefix(r.buf, ref)
            /\ ok => r.buf = ref /\ r.rc = "UPPL_RC_SUCCESS"
            /\ s # EmptyId =>
                   /\ rr.buf = SelectSeq(rest, LAMBDA e : e \in ToSet(rr.buf))
                   /\ IsPrefix(sw(rr.buf), sw(rest))
                   /\ ok /\ n >= Len(rest) => sw(rr.buf) = sw(rest)

\* PerformSemanticValidation lets a request through only on rows the
\* database confirmed, in every state deletes leave the tables in: an
\* UPDATE, DELETE or READ only when IsKeyExists found the switch row in the
\* request's data type (never on a DB access error), a CREATE only when the
\* controller row is in RUNNING for an IMPORT request and in the request's
\* own data type otherwise.
SemanticValidationSound ==
    \A dt \in DT, op \in {"UNC_OP_CREATE", "UNC_OP_UPDATE", "UNC_OP_DELETE",
                          "UNC_OP_READ"},
       k \in Keys, db, pdb \in DbAnswer, ctr \in [CtrDT -> SUBSET Controllers] :
        PerformSemanticValidation(dt, op, k, db, ctr, pdb) = "UPPL_RC_SUCCESS" =>
            /\ op # "UNC_OP_CREATE" => db = "ok" /\ Exists(dt, k)
            /\ op = "UNC_OP_CREATE" =>
                   k[1] \in ctr[IF dt = "IMPORT" THEN "RUNNING" ELSE dt]

\* PerformRead answers READ, READ_SIBLING_BEGIN and READ_SIBLING as the
\* rows say, in every state deletes leave the tables in: on success the
\* header's max_rep_count counts the keys that follow it, READ returns the
\* key alone, READ_SIBLING_BEGIN the controller's first switches whatever
\* switch id the key holds, READ_SIBLING the switches after the key; an
\* error answer has count 0 and, when the database answered, means there
\* was no such row. ReadInternal returns the same keys.
PerformReadAnswersRows ==
    \A op \in {"UNC_OP_READ", "UNC_OP_READ_SIBLING_BEGIN", "UNC_OP_READ_SIBLING"},
       c \in Controllers, s \in Switches \cup {EmptyId},
       n \in 1..Len(SwitchIds), ok \in BOOLEAN :
        LET r   == PerformRead("STATE", op, c, s, TRUE, n, ok)
            ref == CASE op = "UNC_OP_READ" ->
                          IF s # EmptyId /\ Exists("STATE", <<c, s>>) THEN <<<<c, s>>>> ELSE <<>>
                     [] op = "UNC_OP_READ_SIBLING_BEGIN" -> FirstN(SwitchesOf(c), n)
                     [] OTHER -> FirstN(SwitchesAfter(c, s), n)
            ri  == ReadInternal("STATE", op, c, s, ok)
        IN  /\ r.rc = "UPPL_RC_SUCCESS" => r.max_rep_count = Len(r.keys) /\ r.keys = ref
            /\ r.rc # "UPPL_RC_SUCCESS" => r.max_rep_count = 0 /\ (ok => ref = <<>>)
            /\ ok => (r.rc = "UPPL_RC_SUCCESS" <=> ref # <<>>)
            /\ n = UPPL_MAX_REP_CT \/ op = "UNC_OP_READ" =>
                   [i \in 1..Len(ri.ids) |-> <<c, ri.ids[i]>>] =
                       IF r.rc = "UPPL_RC_SUCCESS" THEN r.keys ELSE <<>>

\* The refinement mapping: the call is in progress while hos is not idle,
\* and its notifications become visible when it returns.
OperCall == INSTANCE KtSwitchOperCall WITH
    DataTypes <- DT,
    sw <- [dt \in DT |-> [c \in Controllers |->
              {x \in Switches : Exists(dt, <<c, x>>)}]],
    call <- IF hos.pc = "idle" THEN [dt |-> "none"] ELSE [dt |-> hos.dt, c |-> hos.c],
    lost <- hos.pc # "idle" /\ hos.pc # "bulk" /\ hos.failed,
    notified <- IF hos.pc = "idle" THEN notified ELSE <<>>

\* HandleOperStatus implements the call KtSwitchOperCall describes: its
\* GetBulkRows loop ends, and the handler returns having called
\* NotifyOperStatus for every switch of the controller once, in key order,
\* or, when a GetBulkRows call failed, for the first ones.
HandleOperStatusRefinesCall == OperCall!Spec

\* SetOperStatus: the old oper status in the UPDATE event is the one the
\* switch had before the update.
OperEventOldIsPrior ==
    last_event.kind = "oper" => last_event.old = last_event.prior

\* HandleDriverAlarms changes no alarm bit that is not a switch alarm
\* (bits 2..63 of alarms_status).
AlarmKeepsUndefinedBits ==
    [][\A dt \in DT, k \in Keys :
          Exists(dt, k) /\ switch_table'[dt][k] # NoRow =>
              switch_table'[dt][k].alarms_status \div 4 =
                  switch_table[dt][k].alarms_status \div 4]_vars

\* DeleteKeyInstance leaves no child behind: every port row and every
\* logical port belongs to a switch row that exists.
ChildrenHaveSwitch ==
    /\ \A dt \in DT : \A k \in port_table[dt] : Exists(dt, k)
    /\ \A k \in logical_port_table : Exists("STATE", k)

=============================================================================
