--------------------------- MODULE DhcpRelayServer ---------------------------
(***************************************************************************)
(* UPLL's DHCP relay server key type (modules/upll/dhcprelay_server_momgr  *)
(* .cc). The manager holds no table of its own: it checks one request     *)
(* (ValidateMessage), builds keys for the generic MoMgr code              *)
(* (GetChildConfigKey, GetParentConfigKey, IsValidKey) and, at commit,    *)
(* stamps the row's config status (UpdateConfigStatus).                   *)
(*                                                                         *)
(* One behaviour is one request: it arrives, ValidateMessage runs on it    *)
(* (and may rewrite its key), and a created row then gets its status from *)
(* the driver's result.                                                    *)
(***************************************************************************)
EXTENDS Naturals

CONSTANTS
    Names,        \* vtn / vrouter names a request may carry
    ValidNames,   \* the names ValidateKey (momgr_util, not in src/) accepts
    AddrWidth     \* width of server_addr.s_addr (32 in the code)

ASSUME ValidNames \subseteq Names /\ AddrWidth \in Nat \ {0}

AllOnes == 2^AddrWidth - 1                       \* 0xffffffff
Addrs   == {0, 1, AllOnes}                       \* the boundaries and one ordinary address

Ops == {"CREATE", "DELETE", "UPDATE", "CONTROL", "READ", "READ_NEXT",
        "READ_BULK", "READ_SIBLING", "READ_SIBLING_BEGIN", "READ_SIBLING_COUNT"}
DataTypes == {"CANDIDATE", "RUNNING", "STARTUP", "STATE", "IMPORT", "AUDIT"}
Option1s  == {"NORMAL", "DETAIL"}
Option2s  == {"NONE", "L2DOMAIN"}

\* The operations whose key need not name a server: ValidateDhcpRelayKey
\* zeroes their server address.
SiblingStartOps == {"READ_SIBLING_BEGIN", "READ_SIBLING_COUNT"}

\* A ConfigKeyVal key, reduced to its key type, IPC struct number and the
\* three key columns; keys of other types keep only the columns they have.
KeyTypes == {"DHCPRELAY_SERVER", "VROUTER", "VTN", "VBRIDGE"}
Key(kt, st, vtn, vrt, addr) == [kt |-> kt, st |-> st, vtn |-> vtn, vrt |-> vrt, addr |-> addr]
NullKey == [kt |-> "NULL"]
EmptyName == ""

Requests == [op : Ops, dt : DataTypes, option1 : Option1s, option2 : Option2s]
DhcpKeys == {Key("DHCPRELAY_SERVER", st, v, r, a) :
                st \in {"kIpcStKeyDhcpRelayServer", "kIpcStKeyVrt"},
                v \in Names, r \in Names, a \in Addrs}
ParentKeys == {Key(kt, "any", v, r, a) : kt \in KeyTypes, v \in Names, r \in Names, a \in Addrs}

RC == {"SUCCESS", "ERR_GENERIC", "ERR_BAD_REQUEST", "ERR_CFG_SYNTAX",
       "ERR_INVALID_OPTION1", "ERR_INVALID_OPTION2", "ERR_NOT_ALLOWED_FOR_THIS_DT"}
ConfigStatus == {"UNC_CS_UNKNOWN", "UNC_CS_APPLIED", "UNC_CS_NOT_APPLIED"}

ValidateKey(name) == name \in ValidNames

\* Rows that can be stored: keys ValidateMessage accepts for a CREATE.
StoredKeys == {k \in DhcpKeys : k.st = "kIpcStKeyDhcpRelayServer" /\ ValidateKey(k.vtn)
                                /\ ValidateKey(k.vrt) /\ k.addr \notin {0, AllOnes}}

(***************************************************************************)
(* Key helpers                                                             *)
(***************************************************************************)

\* IsValidKey: is key column `index` usable as a match column?
IsValidKey(key, index) ==
    CASE index = "kDbiVtnName"      -> ValidateKey(key.vtn)
      [] index = "kDbiVrouterName"  -> ValidateKey(key.vrt)
      [] index = "kDbiServerIpAddr" -> key.addr \notin {0, AllOnes}
      [] OTHER                      -> TRUE

ZeroKey == Key("DHCPRELAY_SERVER", "kIpcStKeyDhcpRelayServer", EmptyName, EmptyName, 0)

GetChildConfigKey_NoAddr(okey, parent) ==
    IF parent = NullKey THEN [rc |-> "SUCCESS", key |-> ZeroKey]
    ELSE IF okey # NullKey /\ okey.kt # "DHCPRELAY_SERVER" THEN [rc |-> "ERR_GENERIC"]
    ELSE LET k == IF okey = NullKey THEN ZeroKey ELSE okey IN
         [rc |-> "SUCCESS",
          key |-> CASE parent.kt = "VTN" -> [k EXCEPT !.vtn = parent.vtn, !.vrt = EmptyName]
                    [] parent.kt \in {"VROUTER", "DHCPRELAY_SERVER"}
                                     -> [k EXCEPT !.vtn = parent.vtn, !.vrt = parent.vrt]
                    [] OTHER -> k]

\* GetChildConfigKey(okey, parent_key): fills okey (or a zeroed new key)
\* from the parent's columns. A relay-server parent is copied whole, its
\* case falling through to `default: break`.
GetChildConfigKey(okey, parent) ==
    IF parent = NullKey THEN [rc |-> "SUCCESS", key |-> ZeroKey]
    ELSE IF okey # NullKey /\ okey.kt # "DHCPRELAY_SERVER" THEN [rc |-> "ERR_GENERIC"]
    ELSE LET k == IF okey = NullKey THEN ZeroKey ELSE okey IN
         [rc |-> "SUCCESS",
          key |-> CASE parent.kt = "VTN" -> [k EXCEPT !.vtn = parent.vtn, !.vrt = EmptyName]
                    [] parent.kt = "VROUTER" -> [k EXCEPT !.vtn = parent.vtn, !.vrt = parent.vrt]
                    [] parent.kt = "DHCPRELAY_SERVER"
                        -> [k EXCEPT !.vtn = parent.vtn, !.vrt = parent.vrt, !.addr = parent.addr]
                    [] OTHER -> k]

\* GetParentConfigKey(okey, ikey): the vrouter key of a relay-server key.
GetParentConfigKey(ikey) ==
    IF ikey = NullKey \/ ikey.kt # "DHCPRELAY_SERVER" THEN [rc |-> "ERR_GENERIC"]
    ELSE [rc |-> "SUCCESS", key |-> Key("VROUTER", "kIpcStKeyVrt", ikey.vtn, ikey.vrt, 0)]

(***************************************************************************)
(* Rename                                                                  *)
(***************************************************************************)

KeyCols == {"kDbiVtnName", "kDbiVrouterName", "kDbiServerIpAddr"}
Col(k, col) == CASE col = "kDbiVtnName"     -> k.vtn
                 [] col = "kDbiVrouterName" -> k.vrt
                 [] OTHER                   -> k.addr

\* GetRenameKeyBindInfo: for the main table, the rename update matches on
\* the three key columns and writes the new vtn and vnode names; there is
\* no bind info for any other table.
GetRenameKeyBindInfo(tbl) ==
    IF tbl = "MAINTBL"
    THEN [ok |-> TRUE, match |-> KeyCols, input |-> {"kDbiVtnName", "kDbiVrouterName"}]
    ELSE [ok |-> FALSE]

\* The generic MoMgr code (not in src/) binds a CFG_MATCH_KEY column only
\* when IsValidKey accepts the key's value for it.
RowMatches(k, cols, row) ==
    \A col \in cols : IsValidKey(k, col) => Col(k, col) = Col(row, col)

\* key_rename_vnode_info of a VTN or VROUTER rename: the old names.
RenameKeys == {[kt |-> kt, vtn |-> v, vrt |-> r] : kt \in {"VTN", "VROUTER"},
                                                 v \in Names, r \in Names}

CopyToConfigKey_NoVnode(ikey) ==
    IF ikey = NullKey \/ ikey.vtn = EmptyName THEN [rc |-> "ERR_GENERIC"]
    ELSE [rc |-> "SUCCESS", key |-> [ZeroKey EXCEPT !.vtn = ikey.vtn]]

\* CopyToConfigKey: a zeroed relay-server key holding the old vtn name and,
\* for a VROUTER rename, the old vrouter name; an empty old name is
\* ERR_GENERIC.
CopyToConfigKey(ikey) ==
    IF ikey = NullKey \/ ikey.vtn = EmptyName THEN [rc |-> "ERR_GENERIC"]
    ELSE IF ikey.kt = "VROUTER" /\ ikey.vrt = EmptyName THEN [rc |-> "ERR_GENERIC"]
    ELSE [rc |-> "SUCCESS",
          key |-> [ZeroKey EXCEPT !.vtn = ikey.vtn,
                                  !.vrt = IF ikey.kt = "VROUTER" THEN ikey.vrt ELSE @]]

(***************************************************************************)
(* Validation                                                              *)
(***************************************************************************)

ValidateDhcpRelayKey_NoBroadcast(key, operation) ==
    IF ~ValidateKey(key.vtn) \/ ~ValidateKey(key.vrt) THEN [rc |-> "ERR_CFG_SYNTAX", key |-> key]
    ELSE IF operation \notin SiblingStartOps
         THEN [rc |-> IF key.addr = 0 THEN "ERR_CFG_SYNTAX" ELSE "SUCCESS", key |-> key]
         ELSE [rc |-> "SUCCESS", key |-> [key EXCEPT !.addr = 0]]

\* ValidateDhcpRelayKey: names by ValidateKey; the server address must be
\* neither 0 nor 0xffffffff, except for READ_SIBLING_BEGIN/COUNT, where the
\* address is overwritten with 0 in the caller's key.
ValidateDhcpRelayKey(key, operation) ==
    IF ~ValidateKey(key.vtn) \/ ~ValidateKey(key.vrt) THEN [rc |-> "ERR_CFG_SYNTAX", key |-> key]
    ELSE IF operation \notin SiblingStartOps
         THEN [rc |-> IF key.addr \in {0, AllOnes} THEN "ERR_CFG_SYNTAX" ELSE "SUCCESS",
               key |-> key]
         ELSE [rc |-> "SUCCESS", key |-> [key EXCEPT !.addr = 0]]

\* The operations and datatypes ValidateMessage lets through.
AcceptedOps == {"CREATE", "DELETE", "READ", "READ_SIBLING", "READ_SIBLING_BEGIN",
                "READ_SIBLING_COUNT", "READ_NEXT", "READ_BULK"}
AcceptedDataTypes == {"CANDIDATE", "RUNNING", "STARTUP", "STATE", "IMPORT"}

ValidateMessage_AcceptUpdate(req, ikey) ==
    IF ikey = NullKey THEN [rc |-> "ERR_GENERIC", key |-> ikey]
    ELSE IF ikey.st # "kIpcStKeyDhcpRelayServer" \/ ikey.kt # "DHCPRELAY_SERVER"
         THEN [rc |-> "ERR_BAD_REQUEST", key |-> ikey]
    ELSE LET v == ValidateDhcpRelayKey(ikey, req.op) IN
         [key |-> v.key,
          rc |-> CASE v.rc # "SUCCESS"                      -> "ERR_CFG_SYNTAX"
                   [] req.op \notin AcceptedOps \cup {"UPDATE"} -> "ERR_NOT_ALLOWED_FOR_THIS_DT"
                   [] req.dt \notin AcceptedDataTypes        -> "ERR_GENERIC"
                   [] req.option1 # "NORMAL"                 -> "ERR_INVALID_OPTION1"
                   [] req.option2 # "NONE"                   -> "ERR_INVALID_OPTION2"
                   [] OTHER                                  -> "SUCCESS"]

\* ValidateMessage: NULL key -> GENERIC; wrong struct or key type ->
\* BAD_REQUEST; a bad key -> CFG_SYNTAX (its sibling rewrite is kept);
\* then the operation, the datatype and the two options, in that order.
ValidateMessage(req, ikey) ==
    IF ikey = NullKey THEN [rc |-> "ERR_GENERIC", key |-> ikey]
    ELSE IF ikey.st # "kIpcStKeyDhcpRelayServer" \/ ikey.kt # "DHCPRELAY_SERVER"
         THEN [rc |-> "ERR_BAD_REQUEST", key |-> ikey]
    ELSE LET v == ValidateDhcpRelayKey(ikey, req.op) IN
         [key |-> v.key,
          rc |-> CASE v.rc # "SUCCESS"                 -> "ERR_CFG_SYNTAX"
                   [] req.op \notin AcceptedOps         -> "ERR_NOT_ALLOWED_FOR_THIS_DT"
                   [] req.dt \notin AcceptedDataTypes   -> "ERR_GENERIC"
                   [] req.option1 # "NORMAL"            -> "ERR_INVALID_OPTION1"
                   [] req.option2 # "NONE"              -> "ERR_INVALID_OPTION2"
                   [] OTHER                             -> "SUCCESS"]

UpdateConfigStatus_Invalid(op, driver_result, cs) ==
    IF op = "CREATE"
    THEN [rc |-> "SUCCESS", cs |-> IF driver_result = 0 THEN "UNC_CS_APPLIED" ELSE "UNC_CS_INVALID"]
    ELSE [rc |-> "ERR_GENERIC", cs |-> cs]

\* UpdateConfigStatus: only a CREATE gets a status, APPLIED when the
\* driver answered 0; any other operation is ERR_GENERIC.
UpdateConfigStatus(op, driver_result, cs) ==
    IF op = "CREATE"
    THEN [rc |-> "SUCCESS", cs |-> IF driver_result = 0 THEN "UNC_CS_APPLIED" ELSE "UNC_CS_NOT_APPLIED"]
    ELSE [rc |-> "ERR_GENERIC", cs |-> cs]

(***************************************************************************)
(* One request                                                             *)
(***************************************************************************)

VARIABLES
    req,             \* the IpcReqRespHeader: operation, datatype, options
    ikey,            \* the request's key, as ValidateMessage leaves it
    rc,              \* the last return code
    cs_row_status,   \* val_dhcp_relay_server.cs_row_status of the row
    phase            \* "received", "validated" or "committed"

vars == <<req, ikey, rc, cs_row_status, phase>>

\* Keys a request can carry: relay-server keys, one of the wrong key type,
\* and none at all.
RequestKeys == DhcpKeys \cup {NullKey}
    \cup {Key("VROUTER", "kIpcStKeyDhcpRelayServer", v, v, 1) : v \in ValidNames}

Init ==
    /\ req \in Requests
    /\ ikey \in RequestKeys
    /\ rc = "NONE"
    /\ cs_row_status = "UNC_CS_UNKNOWN"     \* AllocVal memsets the val
    /\ phase = "received"

\* The MoMgr runs ValidateMessage first on every request.
HandleValidateMessage ==
    /\ phase = "received"
    /\ LET v == ValidateMessage(req, ikey) IN
         /\ rc' = v.rc
         /\ ikey' = v.key
    /\ phase' = "validated"
    /\ UNCHANGED <<req, cs_row_status>>

\* At commit, a candidate row that a request created or updated has its
\* config status set from the driver's answer.
HandleUpdateConfigStatus(driver_result) ==
    /\ phase = "validated"
    /\ rc = "SUCCESS"
    /\ req.dt = "CANDIDATE"
    /\ req.op \in {"CREATE", "UPDATE"}
    /\ LET u == UpdateConfigStatus(req.op, driver_result, cs_row_status) IN
         /\ rc' = u.rc
         /\ cs_row_status' = u.cs
    /\ phase' = "committed"
    /\ UNCHANGED <<req, ikey>>

Next ==
    \/ HandleValidateMessage
    \/ \E d \in {0, 1} : HandleUpdateConfigStatus(d)

Spec == Init /\ [][Next]_vars

(***************************************************************************)
(* Properties                                                              *)
(***************************************************************************)

TypeOK ==
    /\ req \in Requests
    /\ ikey \in RequestKeys
                   \cup {[k EXCEPT !.addr = 0] : k \in DhcpKeys}
    /\ rc \in RC \cup {"NONE"}
    /\ cs_row_status \in ConfigStatus
    /\ phase \in {"received", "validated", "committed"}

\* A key that ValidateMessage accepts can be used by the generic MoMgr
\* code: IsValidKey accepts both names, and accepts the server address
\* exactly when the operation names one server. After READ_SIBLING_BEGIN
\* or COUNT the rewritten address must read as "no server" so that the
\* read starts from the first one.
ValidatedKeyUsable ==
    (phase # "received" /\ rc = "SUCCESS") =>
        /\ IsValidKey(ikey, "kDbiVtnName")
        /\ IsValidKey(ikey, "kDbiVrouterName")
        /\ IsValidKey(ikey, "kDbiServerIpAddr") <=> req.op \notin SiblingStartOps

\* Every change ValidateMessage lets into the candidate can have its
\* config status recorded at commit: UpdateConfigStatus never fails on a
\* request that passed validation.
AcceptedChangeGetsStatus ==
    phase = "committed" => rc = "SUCCESS" /\ cs_row_status # "UNC_CS_UNKNOWN"

\* A rename reaches exactly the relay servers under the renamed object:
\* the key CopyToConfigKey builds from the old names, matched on the
\* columns GetRenameKeyBindInfo binds and IsValidKey lets through,
\* selects a stored server row exactly when the row is under the old vtn
\* (and, for a VROUTER rename, the old vrouter), whatever its address;
\* only an empty old name is refused.
RenameKeyMatchesOldRows ==
    \A rk \in RenameKeys, row \in StoredKeys :
        LET r == CopyToConfigKey(rk)
            under == row.vtn = rk.vtn /\ (rk.kt = "VROUTER" => row.vrt = rk.vrt)
        IN  /\ r.rc = "SUCCESS" <=> (rk.vtn # EmptyName /\ (rk.kt = "VROUTER" => rk.vrt # EmptyName))
            /\ r.rc = "SUCCESS" =>
                   (RowMatches(r.key, GetRenameKeyBindInfo("MAINTBL").match, row) <=> under)

\* The key builders agree: the child key GetChildConfigKey makes from a
\* relay-server or vrouter key names the same server / vrouter, and
\* GetParentConfigKey of it gives back the vrouter.
ChildKeyRoundTrips ==
    \A p \in ParentKeys :
        LET c == GetChildConfigKey(NullKey, p) IN
        /\ c.rc = "SUCCESS"
        /\ p.kt = "DHCPRELAY_SERVER" =>
               c.key = [p EXCEPT !.st = "kIpcStKeyDhcpRelayServer"]
        /\ p.kt \in {"VROUTER", "DHCPRELAY_SERVER"} =>
               GetParentConfigKey(c.key).key = Key("VROUTER", "kIpcStKeyVrt", p.vtn, p.vrt, 0)
====
