------------------------------ MODULE ConfigMerge -----------------------------
(***************************************************************************)
(* The recursion of ConfigValues: mergeObjects, and the texts of a value.  *)
(***************************************************************************)
EXTENDS ConfigValues

RECURSIVE MergeObjects(_, _)
MergeObjects(old, new) == MergeObjectsBy(MergeObjects, old, new)

RECURSIVE Leaves(_)
Leaves(v) == LeavesBy(Leaves, v)
=============================================================================
