----------------------------- MODULE MCTaskTree -----------------------------
(* TaskTree for TLC: the bounds come from MCTaskTree.cfg.                  *)
EXTENDS TaskTree
============================================================================
