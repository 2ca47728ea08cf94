---------------------------- MODULE MCServerRpc ----------------------------
(* ServerRpc for TLC: nothing in it tells one task id from another, and    *)
(* only behaviours with few late add_resource calls are explored.          *)
EXTENDS ServerRpc

CONSTANT MaxReleasing   \* bound: threads between StartWrite and add_resource

ExploredReleasing == Releasing <= MaxReleasing

Symmetry == Permutations(TaskIds)
=============================================================================
