---------------------------- MODULE ManualTrigger ----------------------------
(***************************************************************************)
(* The whole data path of mlx5dv_manual_trigger.c: main's loop of          *)
(* config.repeat_count RDMA writes, each of which (local_write) builds a   *)
(* WQE in the send ring, rings the BlueFlame doorbell and then waits in    *)
(* poll_completion for a completion in the CQ, with a timeout; the HCA     *)
(* executes the posted WQEs and writes one CQE for each into the CQ (the   *)
(* QP has sq_sig_all = 1, and nothing else completes into this CQ: no      *)
(* receive is posted on the path main takes).                              *)
(*                                                                         *)
(* The send ring and the CQ are the components SqRing and CqRing; this     *)
(* module adds the caller (main, local_write, poll_completion) and joins   *)
(* the HCA's execution of a WQE to its write of the CQE.                   *)
(***************************************************************************)
EXTENDS Integers

CONSTANTS
  CQE_CNT, WQE_CNT,
  CNT_BITS,        \* width of sq_cur_post and cq_cons_index (uint32_t)
  DB_BITS,         \* width of the CQ doorbell value (24)
  PI_BITS,         \* width of the WQE index (16)
  BF_SIZE,
  REPEAT,          \* config.repeat_count
  RELOAD_OP_OWN

ASSUME RepeatAssumption == REPEAT \in Nat \ {0}

VARIABLES
  slot, hwPi, ci, dbrec, pc, lop, lown, wc,               \* CqRing
  sqPost, bfOffset, sqPc, wqe, hwSqKnown, hwSqCi, fetched, \* SqRing
  app,     \* where main is: "post", "poll", "poll_empty", "done", "fail"
  iter     \* iterations of the RDMA write loop completed

cqVars == <<slot, hwPi, ci, dbrec, pc, lop, lown, wc>>
sqVars == <<sqPost, bfOffset, sqPc, wqe, hwSqKnown, hwSqCi, fetched>>
vars == <<cqVars, sqVars, app, iter>>

(* The two rings, taken through their proof modules (which extend CqRing  *)
(* and SqRing and add only lemmas) so that the proofs about the            *)
(* composition can use the lemmas proved about each ring.                  *)
Cq == INSTANCE CqRingProofs WITH
        CI_BITS <- CNT_BITS,
        HwOps <- {0, 13},     \* MLX5_CQE_REQ, MLX5_CQE_REQ_ERR
        SubOps <- {8}         \* MLX5_OPCODE_RDMA_WRITE
Sq == INSTANCE SqRingProofs WITH SQ_BITS <- CNT_BITS

(* The sizes of the composition are sizes both rings allow.                *)
ASSUME ComponentAssumption ==
  /\ Cq!CqeCntAssumption /\ Cq!RingModAssumption /\ Cq!OpcodeAssumption
  /\ Sq!SqAssumption /\ Sq!SqModAssumption

-----------------------------------------------------------------------------
(* After resources_create and connect_qp_self: both rings empty, all       *)
(* counters 0, main about to start its first RDMA write.                   *)
Init ==
  /\ Cq!Init
  /\ Sq!SqInit
  /\ app = "post"
  /\ iter = 0

(* local_write up to the barrier: the WQE is built in the send ring.       *)
Post ==
  /\ app = "post"
  /\ Sq!PostWqe
  /\ UNCHANGED <<cqVars, app, iter>>

(* local_write: the doorbell, the counter and the offset; then             *)
(* poll_completion starts.                                                 *)
Trigger ==
  /\ app = "post"
  /\ Sq!RingDoorbell
  /\ app' = "poll"
  /\ UNCHANGED <<cqVars, iter>>

(* poll_completion calls manual_poll_cq: its first step.                   *)
PollLoad ==
  /\ app = "poll"
  /\ Cq!PollLoadOp
  /\ UNCHANGED <<sqVars, app, iter>>

(* Mutant: the loop runs while i <= repeat_count.                         *)
NextIterationOffByOne ==
  /\ iter' = iter + 1
  /\ app' = IF iter + 1 > REPEAT THEN "done" ELSE "post"

(* main's loop: i++, and the next RDMA write while i < repeat_count, else  *)
(* "All tests completed successfully!".                                    *)
NextIteration ==
  /\ iter' = iter + 1
  /\ app' = IF iter + 1 = REPEAT THEN "done" ELSE "post"

(* Mutant: main goes on with the next iteration after a failure.           *)
FailContinue == NextIteration

(* What main does when poll_completion fails: local_write returns -1 and   *)
(* main jumps to main_exit.                                                *)
Fail ==
  /\ app' = "fail"
  /\ UNCHANGED iter

(* manual_poll_cq, second step, and what poll_completion and main do with  *)
(* its result: 0 loops; a completion ends poll_completion, with rc = 1 if  *)
(* its status is not IBV_WC_SUCCESS (then main exits), and otherwise ends  *)
(* the iteration (main exits with success after the last one).             *)
PollReturn ==
  /\ app = "poll"
  /\ Cq!PollCheck
  /\ \/ /\ ci' = ci
        /\ app' = "poll_empty"
        /\ UNCHANGED iter
     \/ /\ ci' # ci
        /\ wc'.status # Cq!IBV_WC_SUCCESS
        /\ Fail
     \/ /\ ci' # ci
        /\ wc'.status = Cq!IBV_WC_SUCCESS
        /\ NextIteration
  /\ UNCHANGED sqVars

(* The loop test of poll_completion after a call that returned 0: less     *)
(* than MAX_POLL_CQ_TIMEOUT ms have passed, poll again.                    *)
PollAgain ==
  /\ app = "poll_empty"
  /\ app' = "poll"
  /\ UNCHANGED <<cqVars, sqVars, iter>>

(* The loop test fails: "completion wasn't found in the CQ after timeout". *)
PollTimeout ==
  /\ app = "poll_empty"
  /\ Fail
  /\ UNCHANGED <<cqVars, sqVars>>

(* The HCA executes its next WQE and writes its CQE: REQ if the WQE is the *)
(* well-formed RDMA write for its index and the write succeeds, REQ_ERR    *)
(* otherwise, with the WQE's opcode in sop_drop_qpn.                       *)
HwComplete ==
  /\ Sq!HwExecuteWqe
  /\ \E ok \in BOOLEAN :
       Cq!HwWriteCqeOf(IF ok /\ Sq!WellFormed(fetched', hwSqCi)
                         THEN Cq!MLX5_CQE_REQ ELSE Cq!MLX5_CQE_REQ_ERR,
                       fetched'.opcode)
  /\ UNCHANGED <<app, iter>>

Next ==
  \/ Post \/ Trigger \/ PollLoad \/ PollReturn \/ PollAgain \/ PollTimeout
  \/ HwComplete

(* main runs on one thread that never blocks; the HCA executes what it is  *)
(* told of.  No fairness on PollTimeout: nothing here relies on the clock. *)
Fairness ==
  /\ WF_vars(Post) /\ WF_vars(Trigger) /\ WF_vars(PollLoad)
  /\ WF_vars(PollReturn) /\ WF_vars(PollAgain) /\ WF_vars(HwComplete)

Spec == Init /\ [][Next]_vars /\ Fairness

-----------------------------------------------------------------------------
(* Type invariant.                                                         *)
TypeOK ==
  /\ Cq!TypeOK
  /\ Sq!SqTypeOK
  /\ app \in {"post", "poll", "poll_empty", "done", "fail"}
  /\ iter \in 0 .. REPEAT

(* An iteration main counts as a successful RDMA write consumed the        *)
(* completion of the WQE it has just posted (completions consumed equal   *)
(* WQEs posted), and the HCA really reported success in that CQE.          *)
VerdictSound ==
  [][iter' # iter =>
       /\ ci' = sqPost
       /\ slot[Cq!Pos(ci)].op = Cq!MLX5_CQE_REQ]_vars

(* The send ring is never overrun: every WQE posted and not yet executed  *)
(* is intact in its slot.  local_write never checks for room; main's       *)
(* exit on the first failure is what guarantees it.                        *)
SendRingIntact == Sq!DoorbellCoversBuilt

(* Every poll_completion call ends with a completion unless it times out:  *)
(* every posted write is executed and its CQE found, without relying on    *)
(* the timeout.                                                            *)
PollEventuallyReturns ==
  (app = "poll") ~> (app \in {"post", "done", "fail"})

=============================================================================
