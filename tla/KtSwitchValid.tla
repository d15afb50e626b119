--------------------------- MODULE KtSwitchValid ---------------------------
(***************************************************************************)
(* How Kt_Switch (src/modules/uppl/itc_kt_switch.cc) turns switch values   *)
(* into text for the database.                                             *)
(*                                                                         *)
(*   UpdateSwitchValidFlag reads the STATE row, builds the new             *)
(*   SWITCH_VALID text with a stringstream (a flag the request selects is  *)
(*   written as the decimal text of new_valid_val, any other flag as the   *)
(*   raw uint8_t read from the row) and PopulateSchemaForValidFlag stores  *)
(*   it.  A read decodes the column with FrameValidValue after zeroing     *)
(*   both valid arrays.                                                    *)
(*                                                                         *)
(*   GetSwitchValStructure formats the IPv4 and IPv6 addresses of a value  *)
(*   structure with inet_ntop into buffers of new char[16].                *)
(*                                                                         *)
(* A switch row is abstracted to whether it is in STATE and its            *)
(* SWITCH_VALID bytes; the other attributes take no part here.  The ODBC   *)
(* answers are inputs.                                                     *)
(***************************************************************************)
EXTENDS Integers, Sequences, FiniteSets

CONSTANTS
    Controllers,    \* controller names (model values)
    SwitchIds,      \* switch ids (model values)
    InitValid,      \* SWITCH_VALID byte strings a STATE row may start with
    SelSets,        \* sets of attributes whose request flag IsValidValue accepts
    JunkBytes,      \* values an 11-byte copy may find past a string's end
    Ipv6Words       \* 16-bit words an IPv6 address of a driver may contain

Keys == Controllers \X SwitchIds

\* unc_keytype_validflag_t
UNC_VF_INVALID == 0
UNC_VF_VALID == 1
UNC_VF_VALID_NO_VALUE == 2
UNC_VF_NOT_SUPPORTED == 3
ValidFlags == {UNC_VF_INVALID, UNC_VF_VALID, UNC_VF_VALID_NO_VALUE,
               UNC_VF_NOT_SUPPORTED}

\* The 11 positions of SWITCH_VALID: switch_val.valid[0..5] (description,
\* model, IP address, IPv6 address, admin status, domain name) followed by
\* valid[1..5] (oper status, manufacturer, hardware, software, alarm status).
NumAttrs == 11
Attrs == 1..NumAttrs
Bytes == 0..255

DbAnswer == {"ok", "connection_error"}

VARIABLES
    switch_rows,    \* SUBSET Keys: the switch rows of UNC_DT_STATE
    valid_col,      \* [Keys -> Seq(Bytes)]: SWITCH_VALID of each STATE row
    upd,            \* the last UpdateSwitchValidFlag call and its result
    ip_written      \* bytes the last GetSwitchValStructure had inet_ntop
                    \* write into its IPv6 ip_value buffer

vars == <<switch_rows, valid_col, upd, ip_written>>

-----------------------------------------------------------------------------
(***************************************************************************)
(* The SWITCH_VALID column as text.                                        *)
(***************************************************************************)

\* FillSwitchValueStructure zeroes both valid arrays, then FrameValidValue
\* turns each character c of the column into c - 48 when c >= 48 ('0' is
\* 48) and keeps it as it is otherwise.  Positions the text does not reach
\* stay 0.
FrameValidValue(attr_value) ==
    [i \in Attrs |->
        IF i > Len(attr_value) THEN 0
        ELSE IF attr_value[i] >= 48 THEN attr_value[i] - 48
        ELSE attr_value[i]]

\* `ss_new_valid << new_valid_val` prints the enum as decimal text;
\* `ss_new_valid << obj_new_val_switch->...valid[i]` inserts the uint8_t
\* as a raw character.
NewValidText(flags, sel, new_valid_val) ==
    [i \in Attrs |-> IF i \in sel THEN 48 + new_valid_val ELSE flags[i]]

\* The string built from ss_new_valid.str().c_str(): the text up to its
\* first NUL character.
CStr(s) ==
    LET nul == {i \in DOMAIN s : s[i] = 0}
    IN  IF nul = {} THEN s
        ELSE SubSeq(s, 1, (CHOOSE i \in nul : \A j \in nul : i <= j) - 1)

\* What UpdateOneRow stores from FillDbSchema(SWITCH_VALID,
\* valid_new.c_str(), 11, ...): the string itself, or (when the 11 bytes are
\* copied) the string, its terminating NUL and bytes past its end.
StoredValid(valid_new) ==
    {valid_new} \cup
    IF Len(valid_new) >= NumAttrs THEN {}
    ELSE {valid_new \o <<0>> \o [i \in 1..(NumAttrs - Len(valid_new) - 1) |-> j]
            : j \in JunkBytes}

-----------------------------------------------------------------------------
(***************************************************************************)
(* UpdateSwitchValidFlag(key, val, val_switch_valid_st, new_valid_val).    *)
(*   sel      the attributes whose flag in val IsValidValue(UPDATE, .)     *)
(*            accepts (PhyUtil, not in this repository);                   *)
(*   has_val  whether val is non-NULL;                                     *)
(*   read_db  the GetOneRow answer of ReadInternal(STATE, READ) when the   *)
(*            row is there;                                                *)
(*   upd_db   the UpdateOneRow answer of PopulateSchemaForValidFlag.       *)
(***************************************************************************)

\* ReadInternal(UNC_DT_STATE, UNC_OP_READ) through ReadSwitchValFromDB.
ReadStateRow(k, read_db) ==
    IF k \notin switch_rows THEN "UPPL_RC_ERR_NO_SUCH_INSTANCE"
    ELSE IF read_db # "ok" THEN "UPPL_RC_ERR_DB_GET"
    ELSE "UPPL_RC_SUCCESS"

UpdateSwitchValidFlag(k, sel, new_valid_val, has_val, read_db, upd_db) ==
    LET read_rc == ReadStateRow(k, read_db)
        flags == FrameValidValue(valid_col[k])
        valid_new == CStr(NewValidText(flags, sel, new_valid_val))
        Done(rc, wrote) ==
            upd' = [kind |-> "upd", key |-> k, sel |-> sel,
                    new |-> new_valid_val, before |-> flags, rc |-> rc,
                    wrote |-> wrote]
    IN  /\ \/ /\ read_rc # "UPPL_RC_SUCCESS"
              /\ Done(read_rc, FALSE)
              /\ UNCHANGED valid_col
           \/ /\ read_rc = "UPPL_RC_SUCCESS"
              /\ \/ new_valid_val = UNC_VF_VALID
                 \/ ~has_val
              /\ Done("UPPL_RC_SUCCESS", FALSE)
              /\ UNCHANGED valid_col
           \/ /\ read_rc = "UPPL_RC_SUCCESS"
              /\ new_valid_val # UNC_VF_VALID
              /\ has_val
              /\ \/ /\ upd_db = "ok"
                    /\ \E stored \in StoredValid(valid_new) :
                          valid_col' = [valid_col EXCEPT ![k] = stored]
                    /\ Done("UPPL_RC_SUCCESS", TRUE)
                 \/ /\ upd_db # "ok"
                    /\ Done("UPPL_RC_ERR_DB_UPDATE", FALSE)
                    /\ UNCHANGED valid_col
        /\ UNCHANGED <<switch_rows, ip_written>>

-----------------------------------------------------------------------------
(***************************************************************************)
(* inet_ntop as GetSwitchValStructure calls it.  An IPv6 address is its    *)
(* eight 16-bit words w[0..7].  inet_ntop (glibc's inet_ntop6) replaces    *)
(* the first longest run of two or more zero words by "::", prints the     *)
(* other words in lower-case hex without leading zeros, prints the last    *)
(* four bytes dotted when the address is IPv4-compatible or IPv4-mapped,   *)
(* and copies the text with its NUL to dst unless it is longer than the    *)
(* size it is given.                                                       *)
(***************************************************************************)
HexDigit == <<"0", "1", "2", "3", "4", "5", "6", "7", "8", "9",
              "a", "b", "c", "d", "e", "f">>
DecDigit == SubSeq(HexDigit, 1, 10)

RECURSIVE Hex(_)
Hex(n) == IF n < 16 THEN <<HexDigit[n + 1]>> ELSE Hex(n \div 16) \o <<HexDigit[(n % 16) + 1]>>

RECURSIVE Dec(_)
Dec(n) == IF n < 10 THEN <<DecDigit[n + 1]>> ELSE Dec(n \div 10) \o <<DecDigit[(n % 10) + 1]>>

\* inet_ntop4 of the bytes of two words: "%u.%u.%u.%u".
Dotted(hi, lo) ==
    Dec(hi \div 256) \o <<".">> \o Dec(hi % 256) \o <<".">> \o
    Dec(lo \div 256) \o <<".">> \o Dec(lo % 256)

\* The maximal runs of zero words, and the one inet_ntop6 compresses: the
\* longest, the first of equally long ones, none when shorter than two.
ZeroRuns(w) ==
    {r \in [base : 0..7, len : 1..8] :
        /\ r.base + r.len <= 8
        /\ \A j \in r.base..(r.base + r.len - 1) : w[j] = 0
        /\ r.base = 0 \/ w[r.base - 1] # 0
        /\ r.base + r.len = 8 \/ w[r.base + r.len] # 0}
NoRun == [base |-> -1, len |-> 0]
BestRun(w) ==
    LET long == {r \in ZeroRuns(w) : r.len >= 2 /\ \A q \in ZeroRuns(w) : q.len <= r.len}
    IN  IF long = {} THEN NoRun ELSE CHOOSE r \in long : \A q \in long : r.base <= q.base

\* The text from word i on.
RECURSIVE Ntop6From(_, _, _)
Ntop6From(w, best, i) ==
    IF i = 8
    THEN IF best.base # -1 /\ best.base + best.len = 8 THEN <<":">> ELSE <<>>
    ELSE IF best.base # -1 /\ best.base <= i /\ i < best.base + best.len
    THEN (IF i = best.base THEN <<":">> ELSE <<>>) \o Ntop6From(w, best, i + 1)
    ELSE (IF i # 0 THEN <<":">> ELSE <<>>) \o
         IF i = 6 /\ best.base = 0 /\ (best.len = 6 \/ (best.len = 5 /\ w[5] = 65535))
         THEN Dotted(w[6], w[7])
         ELSE Hex(w[i]) \o Ntop6From(w, best, i + 1)

Inet6Text(w) == Ntop6From(w, BestRun(w), 0)

\* The bytes inet_ntop writes to dst: the text and its NUL, or nothing
\* (ENOSPC) when that does not fit in size.
InetNtopWrites(text, size) == IF Len(text) + 1 > size THEN 0 ELSE Len(text) + 1

\* GetSwitchValStructure: ip_value = new char[16], then
\* inet_ntop(AF_INET6, &ipv6_address, ip_value, INET6_ADDRSTRLEN).
INET6_ADDRSTRLEN == 46
IpValueSize == 16
Ipv6ValueWrites(w) == InetNtopWrites(Inet6Text(w), INET6_ADDRSTRLEN)

\* GetSwitchValStructure for a value structure whose kIdxSwitch flag is
\* valid and whose IPv6 address is w: the address is formatted whatever its
\* own valid flag says.
GetSwitchValStructure(w) ==
    /\ ip_written' = Ipv6ValueWrites(w)
    /\ UNCHANGED <<switch_rows, valid_col, upd>>

-----------------------------------------------------------------------------
Init ==
    /\ switch_rows \in SUBSET Keys
    /\ valid_col \in [Keys -> InitValid]
    /\ upd = [kind |-> "none"]
    /\ ip_written = 0

ValidFlagStep ==
    \E k \in Keys, sel \in SelSets, new_valid_val \in ValidFlags,
       has_val \in BOOLEAN, read_db, upd_db \in DbAnswer :
        UpdateSwitchValidFlag(k, sel, new_valid_val, has_val, read_db, upd_db)

ValueStep == \E w \in [0..7 -> Ipv6Words] : GetSwitchValStructure(w)

Next == ValidFlagStep \/ ValueStep

Spec == Init /\ [][Next]_vars

-----------------------------------------------------------------------------
(***************************************************************************)
(* Properties.                                                             *)
(***************************************************************************)

\* After UpdateSwitchValidFlag wrote SWITCH_VALID, reading the row back
\* (FillSwitchValueStructure and FrameValidValue) gives new_valid_val for
\* every attribute the request selected and the flag the row had before for
\* every other one: the function's comment "update the particular
\* attribute" and its callers expect no other flag to change.
ValidFlagsKept ==
    upd.kind = "upd" /\ upd.wrote =>
        FrameValidValue(valid_col[upd.key]) =
            [i \in Attrs |-> IF i \in upd.sel THEN upd.new ELSE upd.before[i]]

\* GetSwitchValStructure formats the IPv6 address of the value structure it
\* is given into ip_value, which has room for 16 bytes: what inet_ntop
\* writes there must fit.  The size it passes, INET6_ADDRSTRLEN, lets inet_ntop write up
\* to 46.
Ipv6TextFits == ip_written <= IpValueSize

=============================================================================
