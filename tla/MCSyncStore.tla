----------------------------- MODULE MCSyncStore -----------------------------
(***************************************************************************)
(* SyncStore for TLC: one process at a time, three committee periods, and  *)
(* batches of two periods.                                                 *)
(***************************************************************************)
EXTENDS SyncStore
=============================================================================
