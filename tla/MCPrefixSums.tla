---------------------------- MODULE MCPrefixSums ----------------------------
(***************************************************************************)
(* Instances of PrefixSums for TLC: two buckets along three of the axes.   *)
(***************************************************************************)
EXTENDS PrefixSums

CubeSize == <<2, 1, 2, 1, 1, 2>>
=============================================================================
