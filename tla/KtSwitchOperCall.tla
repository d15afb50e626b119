-------------------------- MODULE KtSwitchOperCall --------------------------
(***************************************************************************)
(* What a call of Kt_Switch::HandleOperStatus promises, seen from outside  *)
(* (src/modules/uppl/itc_kt_switch.cc, HandleOperStatus and                *)
(* NotifyOperStatus): one call, for one controller in one data type,       *)
(* returns after it has notified the switches of that controller, each     *)
(* once and in key order.  All of them are notified unless a database call *)
(* of this call failed; then a first part of them is.                      *)
(*                                                                         *)
(* Between calls the other handlers may change which switch rows exist.    *)
(***************************************************************************)
EXTENDS Sequences, SequencesExt

CONSTANTS
    Controllers,    \* controller names
    SwitchIds,      \* switch ids in key order
    DataTypes       \* the data types a call may name

VARIABLES
    sw,             \* [DataTypes -> [Controllers -> SUBSET switch ids]]
    call,           \* the call in progress, [dt, c], or NoCall
    lost,           \* a database call of the call in progress has failed
    notified        \* the switches the last call notified, in order

avars == <<sw, call, lost, notified>>

NoCall == [dt |-> "none"]
Switches == ToSet(SwitchIds)

\* The switches of the call's controller, in key order.
Order(cl) == SelectSeq(SwitchIds, LAMBDA x : x \in sw[cl.dt][cl.c])
InitialSegments(s) == {SubSeq(s, 1, i) : i \in 0..Len(s)}

Init ==
    /\ sw \in [DataTypes -> [Controllers -> SUBSET Switches]]
    /\ call = NoCall
    /\ lost = FALSE
    /\ notified = <<>>

Call(dt, c) ==
    /\ call = NoCall
    /\ call' = [dt |-> dt, c |-> c]
    /\ notified' = <<>>
    /\ UNCHANGED <<sw, lost>>

DbFail ==
    /\ call # NoCall
    /\ lost' = TRUE
    /\ UNCHANGED <<sw, call, notified>>

Return ==
    /\ call # NoCall
    /\ notified' \in IF lost THEN InitialSegments(Order(call)) ELSE {Order(call)}
    /\ call' = NoCall
    /\ lost' = FALSE
    /\ UNCHANGED sw

\* Creates and deletes by other handlers, between calls.
Env ==
    /\ call = NoCall
    /\ sw' \in [DataTypes -> [Controllers -> SUBSET Switches]]
    /\ UNCHANGED <<call, lost, notified>>

Next ==
    \/ \E dt \in DataTypes, c \in Controllers : Call(dt, c)
    \/ DbFail
    \/ Return
    \/ Env

\* A call that has started returns.
Spec == Init /\ [][Next]_avars /\ WF_avars(Return)

=============================================================================
