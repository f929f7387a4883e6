------------------------------- MODULE CqFifo -------------------------------
(***************************************************************************)
(* What the completion ring promises to its caller: a FIFO of at most CAP  *)
(* completions.  The HCA appends entries numbered modulo SEQ_MOD; a poll   *)
(* removes the head and returns its decoding, if it is of a kind the       *)
(* consumer recognises.                                                    *)
(***************************************************************************)
EXTENDS Integers, Sequences

CONSTANTS
  CAP,            \* capacity (cqe_cnt)
  SEQ_MOD,        \* entries are numbered modulo SEQ_MOD
  HwOps, SubOps,  \* what an entry may carry
  NoOut,          \* the output before any completion
  Decoded(_),     \* what a poll returns for an entry
  Consumable(_)   \* whether a poll can return an entry at all

VARIABLES queue, next, out

fifoVars == <<queue, next, out>>

Init ==
  /\ queue = <<>>
  /\ next = 0
  /\ out = NoOut

Produce ==
  /\ Len(queue) < CAP
  /\ \E op \in HwOps, sub \in SubOps :
       queue' = Append(queue, [op |-> op, sub |-> sub, tag |-> next])
  /\ next' = (next + 1) % SEQ_MOD
  /\ UNCHANGED out

Consume ==
  /\ queue # <<>>
  /\ Consumable(Head(queue))
  /\ out' = Decoded(Head(queue))
  /\ queue' = Tail(queue)
  /\ UNCHANGED next

Next == Produce \/ Consume

Spec == Init /\ [][Next]_fifoVars /\ WF_fifoVars(Consume)

=============================================================================
