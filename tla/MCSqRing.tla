------------------------------ MODULE MCSqRing ------------------------------
(***************************************************************************)
(* Model-checking instance of SqRing: a ring of 4 WQE slots, a 4-bit       *)
(* sq_cur_post and a 3-bit WQE index, so that both counters wrap and every *)
(* slot is reused several times.                                           *)
(***************************************************************************)
EXTENDS SqRing

=============================================================================
