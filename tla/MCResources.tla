----------------------------- MODULE MCResources -----------------------------
(* Resources for TLC: two RDMA writes; the QP creation loop starts at an   *)
(* inline limit of 4, so that it tries 4, 2 and 1 before the last try      *)
(* without inline data, as it tries 512 down to 1 in the code.            *)
EXTENDS Resources

MCRepeat == 2
MCInlineMax == 4

=============================================================================
