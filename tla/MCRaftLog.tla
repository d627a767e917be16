----------------------------- MODULE MCRaftLog -----------------------------
(***************************************************************************)
(* The leaders' logs the runs start from.                                  *)
(***************************************************************************)
EXTENDS RaftLog

(* Leader 3 has leader 1's entry again, which leader 2 overwrites: the ABA *)
(* problem of newStorageAppendRespMsg.                                     *)
Returns == <<<<1>>, <<2>>, <<1, 3>>>>

(* Leader 1's first entry is committed, its second is overwritten.         *)
Overwrites == <<<<1, 1>>, <<1, 2>>>>

MCHistories == {Returns, Overwrites}
=============================================================================
