------------------------------ MODULE KeyTree ------------------------------
(***************************************************************************)
(* The driver-side configuration cache unc::vtndrvcache::KeyTree           *)
(* (src/coordinator/modules/vtncacheutil/keytree.cc).                      *)
(*                                                                         *)
(* A KeyTree keeps three pieces of state:                                  *)
(*   configHashArr  one search map per key type, key string -> ConfigNode; *)
(*                  the constructor seeds it with the ROOT entry that      *)
(*                  points at the embedded root node node_tree_;           *)
(*   node_tree      the children lists hanging under node_tree_, kept here *)
(*                  as the sequence of (parent, child) attachments in the  *)
(*                  order add_child_to_list made them;                     *)
(*   cfg_node_list  cfg_node_list_, the flat vector the commit cache uses. *)
(* A ConfigNode is abstracted to its (type, key, parent key) triple; its   *)
(* value payload plays no part in any decision of keytree.cc.              *)
(***************************************************************************)
EXTENDS Naturals, Sequences, SequencesExt

CONSTANTS
    Keys,           \* key strings a driver may report (model values)
    Nodes,          \* candidate ConfigNodes, records [type, key, pkey]
    Batches,        \* candidate vectors passed to the vector append_audit_node
    NULL,           \* the NULL ConfigNode pointer
    MaxCommitNodes  \* bound on the length of cfg_node_list_

VARIABLES
    configHashArr,  \* [KeyType -> set of nodes], at most one node per key
    node_tree,      \* Seq of [parent, child] attachments under node_tree_
    cfg_node_list,  \* Seq of nodes appended by append_commit_node
    ret,            \* return code of the last KeyTree call
    last_failed,    \* the node whose insertion the last call rejected, or NULL
    mode            \* "audit" or "commit": the use its owner makes of this KeyTree

vars == <<configHashArr, node_tree, cfg_node_list, ret, last_failed>>

RootKey == "ROOT"

\* The key types of unc/keytype.h that the cache distinguishes; VROUTER
\* stands for every key type missing from key_tree_table.
KeyType == {"ROOT", "CONTROLLER", "VTN", "VBRIDGE", "VBR_IF", "VROUTER",
            "VUNKNOWN"}

Node == [type : KeyType, key : Keys \cup {RootKey}, pkey : Keys \cup {RootKey}]

\* node_tree_, the root node the constructor registers under "ROOT".
RootNode == [type |-> "ROOT", key |-> RootKey, pkey |-> RootKey]

\* Return codes of keytree.cc.
TREE_OK == "TREE_OK"
CACHEMGR_RESPONSE_SUCCESS == "CACHEMGR_RESPONSE_SUCCESS"
CACHEMGR_RESPONSE_FAILURE == "CACHEMGR_RESPONSE_FAILURE"
CACHEMGR_APPEND_NODE_FAIL == "CACHEMGR_APPEND_NODE_FAIL"
ERR_ADD_CHILD_TO_TREE_FAILED == "ERR_ADD_CHILD_TO_TREE_FAILED"

RetCode == {TREE_OK, CACHEMGR_RESPONSE_SUCCESS, CACHEMGR_RESPONSE_FAILURE,
            CACHEMGR_APPEND_NODE_FAIL, ERR_ADD_CHILD_TO_TREE_FAILED}

ASSUME Nodes \subseteq Node /\ RootNode \notin Nodes
ASSUME \A b \in Batches : b \in Seq(Nodes \cup {NULL})
ASSUME MaxCommitNodes \in Nat

-----------------------------------------------------------------------------
(***************************************************************************)
(* Lookups.                                                                *)
(***************************************************************************)

\* key_tree_table: the parent type of each supported key type.  The fifth,
\* zero-initialised entry of the C array reads {UNC_KT_ROOT, UNC_KT_ROOT}.
key_tree_table ==
    << [id |-> "CONTROLLER", parent |-> "ROOT"],
       [id |-> "VTN",        parent |-> "ROOT"],
       [id |-> "VBRIDGE",    parent |-> "VTN"],
       [id |-> "VBR_IF",     parent |-> "VBRIDGE"],
       [id |-> "ROOT",       parent |-> "ROOT"] >>

\* The parent of the first table entry for search_type, VUNKNOWN if none.
get_parenttype(search_type) ==
    LET hits == {i \in DOMAIN key_tree_table : key_tree_table[i].id = search_type}
    IN  IF hits = {} THEN "VUNKNOWN"
        ELSE key_tree_table[CHOOSE i \in hits : \A j \in hits : i <= j].parent

is_already_present(hash, key, key_Type) ==
    \E n \in hash[key_Type] : n.key = key

\* Mutation: the search ignores the key type and takes a node of any type.
get_node_from_hash_AnyType(hash, key, key_Type) ==
    IF \E t \in DOMAIN hash : \E n \in hash[t] : n.key = key
    THEN CHOOSE n \in UNION {hash[t] : t \in DOMAIN hash} : n.key = key
    ELSE NULL

get_node_from_hash(hash, key, key_Type) ==
    IF is_already_present(hash, key, key_Type)
    THEN CHOOSE n \in hash[key_Type] : n.key = key
    ELSE NULL

\* Mutation: the node is indexed under its parent key (get_parent_key for
\* get_key).
add_child_to_hash_ParentKey(hash, child) ==
    IF is_already_present(hash, child.pkey, child.type) THEN hash
    ELSE [hash EXCEPT ![child.type] = @ \cup {[child EXCEPT !.key = child.pkey]}]

\* Mutation: a multimap insert, a second node under the same key is added.
add_child_to_hash_Multi(hash, child) ==
    [hash EXCEPT ![child.type] = @ \cup {child}]

\* std::map::insert: an entry already under that key is kept.
add_child_to_hash(hash, child) ==
    IF is_already_present(hash, child.key, child.type) THEN hash
    ELSE [hash EXCEPT ![child.type] = @ \cup {child}]

-----------------------------------------------------------------------------
(***************************************************************************)
(* Insertion into the tree.  A call works on a record                      *)
(* [hash, tree, ret, failed] so that a vector of nodes can be folded.      *)
(***************************************************************************)

Cache == [hash |-> configHashArr, tree |-> node_tree, ret |-> ret,
          failed |-> NULL]

\* Mutation: the child is indexed before the parent lookup can fail.
add_node_to_tree_IndexFirst(c, child) ==
    LET c1 == [c EXCEPT !.hash = add_child_to_hash(@, child)]
        parent_ptr == get_node_from_hash(c.hash, child.pkey,
                                         get_parenttype(child.type))
    IN  IF parent_ptr = NULL
        THEN [c1 EXCEPT !.ret = CACHEMGR_RESPONSE_FAILURE]
        ELSE [c1 EXCEPT !.tree = Append(@, [parent |-> parent_ptr,
                                            child |-> child]),
                        !.ret = TREE_OK]

\* add_node_to_tree: look the parent up by (parent key, parent type), hang
\* the child under it, then index the child.
add_node_to_tree(c, child) ==
    LET parent_ptr == get_node_from_hash(c.hash, child.pkey,
                                         get_parenttype(child.type))
    IN  IF parent_ptr = NULL
        THEN [c EXCEPT !.ret = CACHEMGR_RESPONSE_FAILURE]
        ELSE [c EXCEPT !.tree = Append(@, [parent |-> parent_ptr,
                                           child |-> child]),
                       !.hash = add_child_to_hash(@, child),
                       !.ret = TREE_OK]

\* Mutation: the is_already_present check is dropped.
insert_audit_node_NoDupCheck(c, node) ==
    LET r == add_node_to_tree(c, node)
    IN  IF r.ret # TREE_OK
        THEN [r EXCEPT !.ret = ERR_ADD_CHILD_TO_TREE_FAILED, !.failed = node]
        ELSE r

\* The body shared by both append_audit_node overloads for one non-NULL
\* node: a node already indexed under (type, key) is deleted and the
\* indexed one kept; otherwise it is added to the tree.
insert_audit_node(c, node) ==
    IF ~is_already_present(c.hash, node.key, node.type)
    THEN LET r == add_node_to_tree(c, node)
         IN  IF r.ret # TREE_OK
             THEN [r EXCEPT !.ret = ERR_ADD_CHILD_TO_TREE_FAILED,
                            !.failed = node]
             ELSE r
    ELSE [c EXCEPT !.ret = TREE_OK]

\* append_audit_node(const std::vector<ConfigNode*>&): NULL entries are
\* skipped, the first failure returns at once and leaves the nodes before it
\* in the tree, and the loop ends with TREE_OK.
append_audit_list(c, value_list) ==
    LET step(acc, node) ==
            IF acc.ret = ERR_ADD_CHILD_TO_TREE_FAILED \/ node = NULL THEN acc
            ELSE insert_audit_node(acc, node)
        r == FoldLeft(step, [c EXCEPT !.ret = TREE_OK], value_list)
    IN  r

\* The pre-order list of nodes below node_tree_, children in insertion order.
RECURSIVE SubTree(_, _)
SubTree(tree, p) ==
    LET kids == SelectSeq(tree, LAMBDA e : e.parent = p)
    IN  FoldLeft(LAMBDA acc, e : acc \o <<e.child>> \o SubTree(tree, e.child),
                 <<>>, kids)

get_nodelist_keytree(tree) == SubTree(tree, RootNode)

-----------------------------------------------------------------------------
(***************************************************************************)
(* Operations.                                                             *)
(***************************************************************************)

\* KeyTree::create_cache / the constructor: the ROOT entry is the only one.
Init ==
    /\ configHashArr = [t \in KeyType |-> IF t = "ROOT" THEN {RootNode} ELSE {}]
    /\ node_tree = <<>>
    /\ cfg_node_list = <<>>
    /\ ret = TREE_OK
    /\ last_failed = NULL
    /\ mode \in {"audit", "commit"}

Apply(r) ==
    /\ configHashArr' = r.hash
    /\ node_tree' = r.tree
    /\ ret' = r.ret
    /\ last_failed' = r.failed
    /\ UNCHANGED cfg_node_list

\* append_audit_node(ConfigNode*).
append_audit_node(value_list) ==
    IF value_list = NULL
    THEN /\ ret' = CACHEMGR_APPEND_NODE_FAIL
         /\ last_failed' = NULL
         /\ UNCHANGED <<configHashArr, node_tree, cfg_node_list>>
    ELSE Apply(insert_audit_node(Cache, value_list))

AppendAuditNode == \E n \in Nodes \cup {NULL} : append_audit_node(n)

\* append_audit_node(const std::vector<ConfigNode*>&).
AppendAuditNodes == \E b \in Batches : Apply(append_audit_list(Cache, b))

\* append_commit_node: push onto cfg_node_list_, then index; no parent check.
append_commit_node(value_list) ==
    /\ Len(cfg_node_list) < MaxCommitNodes
    /\ cfg_node_list' = Append(cfg_node_list, value_list)
    /\ configHashArr' = add_child_to_hash(configHashArr, value_list)
    /\ ret' = CACHEMGR_RESPONSE_SUCCESS
    /\ last_failed' = NULL
    /\ UNCHANGED node_tree

AppendCommitNode == \E n \in Nodes : append_commit_node(n)

\* clear_search_cache: every search map is emptied, ROOT's included.
clear_search_cache(hash) == [t \in DOMAIN hash |-> {}]

\* clear_cache_vector: the nodes of cfg_node_list_ are deleted, the vector
\* emptied.
clear_cache_vector(list) == <<>>

\* Mutation: clear_commit_cache deletes the nodes but keeps the search maps.
ClearCommitCache_KeepIndex ==
    /\ cfg_node_list' = clear_cache_vector(cfg_node_list)
    /\ last_failed' = NULL
    /\ UNCHANGED <<configHashArr, node_tree, ret>>

\* clear_commit_cache.
ClearCommitCache ==
    /\ configHashArr' = clear_search_cache(configHashArr)
    /\ cfg_node_list' = clear_cache_vector(cfg_node_list)
    /\ last_failed' = NULL
    /\ UNCHANGED <<node_tree, ret>>

\* clear_audit_cache: the same two steps; the children of node_tree_ are
\* left as they are.
ClearAuditCache ==
    /\ configHashArr' = clear_search_cache(configHashArr)
    /\ cfg_node_list' = clear_cache_vector(cfg_node_list)
    /\ ret' = CACHEMGR_RESPONSE_SUCCESS
    /\ last_failed' = NULL
    /\ UNCHANGED node_tree

\* An audit cache: filled by append_audit_node, read by get_nodelist_keytree.
AuditNext ==
    /\ mode = "audit"
    /\ UNCHANGED mode
    /\ \/ AppendAuditNode
       \/ AppendAuditNodes
       \/ ClearAuditCache
       \/ ClearCommitCache

\* A commit cache: filled by append_commit_node, read through cfg_node_list_.
CommitNext ==
    /\ mode = "commit"
    /\ UNCHANGED mode
    /\ \/ AppendCommitNode
       \/ ClearCommitCache
       \/ ClearAuditCache

\* A KeyTree is created for one use (an audit cache or a commit cache) and
\* keeps it: mode is chosen in Init and never changes.
Next == AuditNext \/ CommitNext

Spec == Init /\ [][Next]_<<vars, mode>>

-----------------------------------------------------------------------------
(***************************************************************************)
(* Properties.                                                             *)
(***************************************************************************)

TreeNodes == {node_tree[i].child : i \in DOMAIN node_tree}
IndexedNodes == UNION {configHashArr[t] : t \in KeyType} \ {RootNode}

TypeOK ==
    /\ configHashArr \in [KeyType -> SUBSET (Node \cup {RootNode})]
    /\ \A t \in KeyType : \A m, n \in configHashArr[t] : m.key = n.key => m = n
    /\ node_tree \in Seq([parent : Node \cup {RootNode}, child : Nodes])
    /\ cfg_node_list \in Seq(Nodes)
    /\ ret \in RetCode
    /\ last_failed \in Nodes \cup {NULL}
    /\ mode \in {"audit", "commit"}


\* Every node the search maps can return by append_audit_node is hung in the
\* tree (keytree.cc add_node_to_tree): a lookup never yields a node that
\* get_nodelist_keytree would not reach.
IndexedNodesAttached == mode = "audit" => IndexedNodes \subseteq TreeNodes

\* Spec section 4.5 / property 5: every attached node hangs under the root
\* or under a node attached before it, whose type is the parent type
\* key_tree_table declares and whose key is the child's parent key.
TreeParentsWellTyped ==
    \A i \in DOMAIN node_tree :
        LET e == node_tree[i]
        IN  /\ e.parent.type = get_parenttype(e.child.type)
            /\ e.parent.key = e.child.pkey
            /\ \/ e.parent = RootNode
               \/ \E j \in 1..(i - 1) : node_tree[j].child = e.parent

\* Spec property 5: no two nodes of the tree share (key type, key), however
\* single and vector appends of duplicates interleave.
TreeKeysUnique ==
    \A i, j \in DOMAIN node_tree :
        i # j => << node_tree[i].child.type, node_tree[i].child.key >>
                  # << node_tree[j].child.type, node_tree[j].child.key >>

\* Spec property 6: appending a driver's output again, right after it was
\* appended, leaves the search maps and the tree as they are.
AuditReplayIdempotent ==
    mode = "audit" =>
        \A bt \in Batches :
            LET r1 == append_audit_list(Cache, bt)
                r2 == append_audit_list(r1, bt)
            IN  r2.tree = r1.tree /\ r2.hash = r1.hash

\* Commit cache: every node the search maps hold is still alive in
\* cfg_node_list_, so clear_commit_cache never leaves a map entry to a node
\* clear_cache_vector deleted.
IndexNoDangling ==
    mode = "commit" =>
        IndexedNodes \subseteq {cfg_node_list[i] : i \in DOMAIN cfg_node_list}

\* Spec section 4.5: the per-key-type index and the tree agree on membership
\* (what get_nodelist_keytree returns is what the search maps hold), also
\* after clear_audit_cache, which the spec says drops the tree.
TraversalMatchesIndex ==
    mode = "audit" => ToSet(get_nodelist_keytree(node_tree)) = IndexedNodes

\* Spec section 4.5: append_audit_node rejects a node only as an orphan, i.e.
\* when no node of the declared parent type with its parent key is in the
\* tree (node_tree_ itself standing for ROOT).
RejectsOnlyOrphans ==
    last_failed # NULL =>
        ~\E p \in TreeNodes \cup {RootNode} :
            /\ p.type = get_parenttype(last_failed.type)
            /\ p.key = last_failed.pkey

=============================================================================
