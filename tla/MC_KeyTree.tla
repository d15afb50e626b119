---------------------------- MODULE MC_KeyTree ----------------------------
(***************************************************************************)
(* Model of KeyTree for TLC.  Three key strings are enough for a node and  *)
(* a same-named node of another type (VTN a / VBRIDGE a), a second VTN, a  *)
(* duplicate with another parent and an orphan whose parent key is never   *)
(* reported.                                                               *)
(***************************************************************************)
EXTENDS KeyTree

CONSTANTS a, b, c

MC_Keys == {a, b, c}

vtn_a    == [type |-> "VTN",     key |-> a, pkey |-> RootKey]
vtn_b    == [type |-> "VTN",     key |-> b, pkey |-> RootKey]
vbr_a    == [type |-> "VBRIDGE", key |-> a, pkey |-> a]
vbr_a_b  == [type |-> "VBRIDGE", key |-> a, pkey |-> b]  \* same key, other VTN
vbr_b_c  == [type |-> "VBRIDGE", key |-> b, pkey |-> c]  \* orphan
vbrif_a  == [type |-> "VBR_IF",  key |-> a, pkey |-> a]
vrt_a    == [type |-> "VROUTER", key |-> a, pkey |-> a]  \* no table entry

MC_Nodes == {vtn_a, vtn_b, vbr_a, vbr_a_b, vbr_b_c, vbrif_a, vrt_a}

\* Driver output of the spec's scenarios C (a duplicate) and D (an orphan),
\* a child reported before its parent, and a NULL entry.
MC_Batches == { <<vtn_a, vbr_a, vbr_a>>,
                <<vbr_b_c, vtn_b>>,
                <<vbrif_a, vbr_a>>,
                <<NULL, vtn_b, vbr_a_b>> }
=============================================================================
