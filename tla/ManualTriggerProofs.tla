------------------------- MODULE ManualTriggerProofs -------------------------
(***************************************************************************)
(* Proofs about the whole data path (ManualTrigger), for every ring size,  *)
(* counter width and repeat count the assumptions allow.  The proofs rest  *)
(* on the invariants proved for each ring (CqRingProofs, SqRingProofs) and *)
(* on a coupling invariant of main's loop.                                 *)
(***************************************************************************)
EXTENDS ManualTrigger, RingArith, TLAPS

(* Where main is in its loop, and what is in flight meanwhile:             *)
(*  - while it posts, every earlier WQE is executed and its CQE consumed;  *)
(*  - while it polls, exactly one WQE is either still in the send ring or  *)
(*    its CQE is pending in the CQ;                                        *)
(*  - after the loop at most that one is left over (a timeout);            *)
(*  - manual_poll_cq is between its two steps only inside poll_completion; *)
(*  - the iteration running is one main still has to do.                   *)
Phase ==
  /\ app \in {"post", "poll", "poll_empty"} => iter < REPEAT
  /\ app = "post" => Sq!InFlight = 0 /\ Cq!Pending = 0
  /\ app # "post" => sqPc = "build"
  /\ app # "poll" => pc = "idle"
  /\ app \in {"poll", "poll_empty"} => Sq!InFlight + Cq!Pending = 1
  /\ Sq!InFlight + Cq!Pending <= 1

(* Every WQE posted is executed and then completed: the posted counter is  *)
(* the consumer index plus what is in flight and pending.                  *)
Count == (ci + Sq!InFlight + Cq!Pending) % Cq!CiMod = sqPost

(* The inductive invariant of the composition.                             *)
MTIInv ==
  /\ app \in {"post", "poll", "poll_empty", "done", "fail"}
  /\ iter \in 0 .. REPEAT
  /\ Cq!IInv
  /\ Cq!LoadedCurrent
  /\ Sq!SqIInv
  /\ Phase
  /\ Count

-----------------------------------------------------------------------------
(* The lemmas of the two rings, for the rings of the composition: their    *)
(* hypotheses on the sizes are ComponentAssumption.                        *)
LEMMA MTSizes ==
  /\ CQE_CNT \in Nat \ {0} /\ WQE_CNT \in Nat \ {0} /\ REPEAT \in Nat \ {0}
  /\ Cq!CiMod \in Nat \ {0} /\ Sq!PiMod \in Nat \ {0}
  /\ Sq!SqMod = Cq!CiMod
  /\ RELOAD_OP_OWN \in BOOLEAN
  /\ CQE_CNT < Cq!CiMod
<1>1. Cq!CiMod \in Nat \ {0} /\ CQE_CNT \in Nat \ {0} /\ RELOAD_OP_OWN \in BOOLEAN
      /\ CQE_CNT < Cq!CiMod
  BY ComponentAssumption, Cq!SizeFacts DEF Cq!OpcodeAssumption
<1>2. WQE_CNT \in Nat \ {0} /\ Sq!PiMod \in Nat \ {0}
  BY ComponentAssumption, Sq!SqSizeFacts
<1>3. Sq!SqMod = Cq!CiMod
  BY DEF Sq!SqMod, Cq!CiMod
<1>4. QED
  BY <1>1, <1>2, <1>3, RepeatAssumption

LEMMA CqIInvInit == Cq!Init => Cq!IInv /\ Cq!LoadedCurrent
<1>1. Cq!Init => Cq!IInv
  BY ComponentAssumption, Cq!IInvInit
<1>2. QED
  BY <1>1 DEF Cq!Init, Cq!LoadedCurrent

LEMMA CqIInvNext ==
  Cq!IInv /\ Cq!LoadedCurrent /\ [Cq!Next]_Cq!vars
    => Cq!IInv' /\ Cq!LoadedCurrent'
BY ComponentAssumption, Cq!IInvNext, Cq!LoadedCurrentNext

LEMMA CqWrite ==
  ASSUME Cq!IInv, NEW op \in {0, 13}, NEW sub \in {8}, Cq!HwWriteCqeOf(op, sub)
  PROVE  Cq!Pending' = Cq!Pending + 1
BY ComponentAssumption, Cq!IInvWrite

LEMMA CqConsume ==
  ASSUME Cq!IInv, Cq!PollConsume
  PROVE  /\ Cq!Pending' = Cq!Pending - 1
         /\ Cq!Pending > 0
BY ComponentAssumption, Cq!IInvConsume, Cq!ConsumeHasPending

LEMMA CqConsumeStep ==
  ASSUME Cq!IInv, Cq!LoadedCurrent, ~RELOAD_OP_OWN, [Cq!Next]_Cq!vars, ci' # ci
  PROVE  /\ wc' = Cq!Decode(slot[Cq!Pos(ci)].op, slot[Cq!Pos(ci)])
         /\ slot[Cq!Pos(ci)].op \in {0, 13}
BY ComponentAssumption, Cq!ConsumeStep

LEMMA CqPendingType ==
  ASSUME Cq!IInv
  PROVE  Cq!Pending \in 0 .. Cq!CiMod - 1 /\ ci \in 0 .. Cq!CiMod - 1
BY ComponentAssumption, Cq!PendingFacts DEF Cq!IInv, Cq!TypeOK

LEMMA SqIInvInit == Sq!SqInit => Sq!SqIInv
BY ComponentAssumption, Sq!SqIInvInit

LEMMA SqIInvPost ==
  ASSUME Sq!SqIInv, Sq!PostWqe, Sq!InFlight = 0
  PROVE  Sq!SqIInv' /\ Sq!InFlight' = Sq!InFlight
<1>1. Sq!CallerAvoidsFull
  BY MTSizes DEF Sq!CallerAvoidsFull
<1>2. Sq!InFlight' = Sq!InFlight
  BY DEF Sq!PostWqe, Sq!InFlight
<1>3. QED
  BY <1>1, <1>2, ComponentAssumption, Sq!SqIInvPost

LEMMA SqIInvRing ==
  ASSUME Sq!SqIInv, Sq!RingDoorbell
  PROVE  Sq!SqIInv' /\ Sq!InFlight' = Sq!InFlight + 1
BY ComponentAssumption, Sq!SqIInvRing

LEMMA SqIInvExec ==
  ASSUME Sq!SqIInv, Sq!HwExecuteWqe
  PROVE  /\ Sq!SqIInv' /\ Sq!InFlight' = Sq!InFlight - 1
         /\ Sq!WellFormed(fetched', hwSqCi) /\ Sq!InFlight > 0
BY ComponentAssumption, Sq!SqIInvExec, Sq!ExecWellFormed

LEMMA SqIInvStutter ==
  ASSUME Sq!SqIInv, UNCHANGED Sq!sqVars
  PROVE  Sq!SqIInv' /\ Sq!InFlight' = Sq!InFlight
<1>1. Sq!InFlight' = Sq!InFlight
  BY DEF Sq!sqVars, Sq!InFlight
<1>2. QED
  BY <1>1, ComponentAssumption, Sq!SqIInvStutter

LEMMA SqInFlightType ==
  ASSUME Sq!SqIInv
  PROVE  Sq!InFlight \in 0 .. Sq!PiMod - 1
BY ComponentAssumption, Sq!SqCounterFacts DEF Sq!SqIInv

(* One more posted WQE is one more on both sides of the count.             *)
LEMMA CountShift ==
  ASSUME NEW x \in Int, NEW M \in Nat \ {0}, NEW s, x % M = s
  PROVE  (x + 1) % M = (s + 1) % M
<1>1. 1 \in Int
  OBVIOUS
<1>2. ((x % M) + 1) % M = (x + 1) % M
  BY <1>1, ModAdd, ZenonT(30)
<1>3. QED
  BY <1>2

-----------------------------------------------------------------------------
(* After connect_qp_self both rings are empty and main is about to post.   *)
LEMMA MTIInvInit == Init => MTIInv
<1> SUFFICES ASSUME Init PROVE MTIInv
  OBVIOUS
<1>1. Cq!IInv /\ Cq!LoadedCurrent /\ Sq!SqIInv
  BY CqIInvInit, SqIInvInit DEF Init
<1>2. Sq!InFlight = 0 /\ Cq!Pending = 0
  BY MTSizes DEF Init, Sq!SqInit, Cq!Init, Sq!InFlight, Cq!Pending
<1>3. Count
  BY <1>2, MTSizes DEF Init, Sq!SqInit, Cq!Init, Count
<1>4. Phase
  BY <1>2, MTSizes DEF Init, Cq!Init, Phase
<1>5. QED
  BY <1>1, <1>3, <1>4, MTSizes DEF Init, MTIInv

(* The step of local_write that builds the WQE: nothing is in flight, so   *)
(* the slot is free, and no counter moves.                                 *)
LEMMA MTIInvPost ==
  ASSUME MTIInv, Post
  PROVE  MTIInv'
<1>1. Sq!InFlight = 0 /\ Cq!Pending = 0 /\ pc = "idle"
  BY DEF MTIInv, Phase, Post
<1>2. Sq!SqIInv' /\ Sq!InFlight' = Sq!InFlight
  BY <1>1, SqIInvPost DEF MTIInv, Post
<1>3. Cq!IInv' /\ Cq!LoadedCurrent'
  BY CqIInvNext DEF MTIInv, Post, cqVars, Cq!vars
<1>4. Cq!Pending' = Cq!Pending /\ sqPost' = sqPost /\ ci' = ci
  BY DEF Post, Sq!PostWqe, cqVars, Cq!Pending
<1>5. QED
  BY <1>1, <1>2, <1>3, <1>4 DEF MTIInv, Phase, Count, Post, cqVars

(* The doorbell: one WQE goes in flight, sq_cur_post moves by one, and     *)
(* main starts polling.                                                    *)
LEMMA MTIInvTrigger ==
  ASSUME MTIInv, Trigger
  PROVE  MTIInv'
<1>1. Sq!InFlight = 0 /\ Cq!Pending = 0 /\ pc = "idle" /\ iter < REPEAT
  BY DEF MTIInv, Phase, Trigger
<1>2. Sq!SqIInv' /\ Sq!InFlight' = Sq!InFlight + 1
  BY SqIInvRing DEF MTIInv, Trigger
<1>3. Cq!IInv' /\ Cq!LoadedCurrent'
  BY CqIInvNext DEF MTIInv, Trigger, cqVars, Cq!vars
<1>4. Cq!Pending' = Cq!Pending /\ ci' = ci /\ pc' = pc
  BY DEF Trigger, cqVars, Cq!Pending
<1>5. sqPost' = (sqPost + 1) % Cq!CiMod /\ sqPc' = "build"
  BY MTSizes DEF Trigger, Sq!RingDoorbell
<1>6. Count'
  <2>1. ci \in Int /\ Cq!CiMod \in Nat \ {0}
    BY CqPendingType, MTSizes DEF MTIInv
  <2>2. ci % Cq!CiMod = sqPost
    BY <1>1, <2>1 DEF MTIInv, Count
  <2>3. (ci + 1) % Cq!CiMod = (sqPost + 1) % Cq!CiMod
    BY <2>1, <2>2, CountShift, ZenonT(30)
  <2>4. QED
    BY <1>1, <1>2, <1>4, <1>5, <2>1, <2>3 DEF Count
<1>7. QED
  BY <1>1, <1>2, <1>3, <1>4, <1>5, <1>6 DEF MTIInv, Phase, Trigger

(* The first step of manual_poll_cq only loads the opcode.                 *)
LEMMA MTIInvPollLoad ==
  ASSUME MTIInv, PollLoad
  PROVE  MTIInv'
<1>1. Cq!IInv' /\ Cq!LoadedCurrent'
  <2>1. [Cq!Next]_Cq!vars
    BY DEF PollLoad, Cq!Next
  <2>2. QED
    BY <2>1, CqIInvNext DEF MTIInv
<1>2. Sq!SqIInv' /\ Sq!InFlight' = Sq!InFlight
  BY SqIInvStutter DEF MTIInv, PollLoad, sqVars, Sq!sqVars
<1>3. /\ Cq!Pending' = Cq!Pending /\ ci' = ci /\ sqPost' = sqPost
      /\ sqPc' = sqPc /\ app' = app /\ iter' = iter /\ app = "poll"
  BY DEF PollLoad, Cq!PollLoadOp, Cq!Pending, sqVars
<1>4. QED
  BY <1>1, <1>2, <1>3 DEF MTIInv, Phase, Count

(* The loop test of poll_completion, and its timeout, move only main.      *)
LEMMA MTIInvPollAgainTimeout ==
  ASSUME MTIInv, PollAgain \/ PollTimeout
  PROVE  MTIInv'
<1>1. UNCHANGED <<cqVars, sqVars, iter>> /\ app = "poll_empty"
      /\ app' \in {"poll", "fail"}
  BY DEF PollAgain, PollTimeout, Fail
<1>2. Cq!IInv' /\ Cq!LoadedCurrent'
  BY <1>1, CqIInvNext DEF MTIInv, cqVars, Cq!vars
<1>3. Sq!SqIInv' /\ Sq!InFlight' = Sq!InFlight
  BY <1>1, SqIInvStutter DEF MTIInv, sqVars, Sq!sqVars
<1>4. Cq!Pending' = Cq!Pending
  BY <1>1 DEF cqVars, Cq!Pending
<1>5. QED
  BY <1>1, <1>2, <1>3, <1>4 DEF MTIInv, Phase, Count, cqVars, sqVars

(* The consumer index moves when it is incremented: the counter wraps      *)
(* only at its width, which is more than one.                              *)
LEMMA IndexMoves ==
  ASSUME NEW c \in 0 .. Cq!CiMod - 1
  PROVE  (c + 1) % Cq!CiMod # c
<1>1. Cq!CiMod \in Nat \ {0} /\ 1 < Cq!CiMod
  BY MTSizes
<1>2. CASE c + 1 < Cq!CiMod
  <2>1. (c + 1) % Cq!CiMod = c + 1
    BY <1>1, <1>2, ModSmall
  <2>2. QED
    BY <2>1
<1>3. CASE c + 1 = Cq!CiMod
  <2>1. (0 + Cq!CiMod * 1) % Cq!CiMod = 0 % Cq!CiMod
    BY <1>1, ModShift
  <2>2. 0 % Cq!CiMod = 0
    BY <1>1, ModSmall
  <2>3. QED
    BY <1>1, <1>3, <2>1, <2>2
<1>4. QED
  BY <1>1, <1>2, <1>3

(* The second step of manual_poll_cq and what poll_completion and main do  *)
(* with its result.  A return 0 sends main round the polling loop with the *)
(* one WQE still in flight or pending; a completion is that WQE's (the     *)
(* only one), and consuming it leaves nothing in flight, whether main      *)
(* then exits or posts the next write.                                     *)
LEMMA MTIInvPollReturn ==
  ASSUME MTIInv, PollReturn
  PROVE  MTIInv'
<1>1. Cq!IInv' /\ Cq!LoadedCurrent'
  <2>1. [Cq!Next]_Cq!vars
    BY DEF PollReturn, Cq!Next
  <2>2. QED
    BY <2>1, CqIInvNext DEF MTIInv
<1>2. Sq!SqIInv' /\ Sq!InFlight' = Sq!InFlight
  BY SqIInvStutter DEF MTIInv, PollReturn, sqVars, Sq!sqVars
<1>3. /\ sqPost' = sqPost /\ sqPc' = sqPc /\ app = "poll"
      /\ Cq!PollCheck
  BY DEF PollReturn, sqVars
<1>4. /\ Sq!InFlight + Cq!Pending = 1 /\ sqPc = "build" /\ iter < REPEAT
      /\ iter \in 0 .. REPEAT
      /\ Sq!InFlight \in 0 .. Sq!PiMod - 1
      /\ Cq!Pending \in 0 .. Cq!CiMod - 1 /\ ci \in 0 .. Cq!CiMod - 1
      /\ (ci + Sq!InFlight + Cq!Pending) % Cq!CiMod = sqPost
  BY <1>3, SqInFlightType, CqPendingType DEF MTIInv, Phase, Count
<1>5. CASE ci' = ci
  <2>1. ~Cq!PollConsume
    BY <1>4, <1>5, IndexMoves DEF Cq!PollConsume
  <2>2. Cq!Pending' = Cq!Pending /\ pc' = "idle"
    BY <1>3, <2>1 DEF Cq!PollCheck, Cq!PollEmpty, Cq!PollStale,
                      Cq!PollSkipUnknown, Cq!Pending
  <2>3. app' = "poll_empty" /\ iter' = iter
    BY <1>5 DEF PollReturn
  <2>4. QED
    BY <1>1, <1>2, <1>3, <1>4, <1>5, <2>2, <2>3 DEF MTIInv, Phase, Count
<1>6. CASE ci' # ci
  <2>1. Cq!PollConsume
    BY <1>3, <1>6 DEF Cq!PollCheck, Cq!PollEmpty, Cq!PollStale,
                      Cq!PollSkipUnknown
  <2>2. Cq!Pending' = Cq!Pending - 1 /\ Cq!Pending > 0
    BY <2>1, CqConsume DEF MTIInv
  <2>3. Cq!Pending = 1 /\ Sq!InFlight = 0 /\ Cq!Pending' = 0
    BY <1>4, <2>2
  <2>4. ci' = (ci + 1) % Cq!CiMod /\ pc' = "idle"
    BY <2>1 DEF Cq!PollConsume
  <2>5. Count'
    <3>1. (ci + 1) % Cq!CiMod = sqPost
      BY <1>4, <2>3
    <3>2. (ci + 1) % Cq!CiMod \in 0 .. Cq!CiMod - 1
      BY <1>4, MTSizes, DivMod
    <3>3. ((ci + 1) % Cq!CiMod) % Cq!CiMod = (ci + 1) % Cq!CiMod
      BY <3>2, MTSizes, ModSmall
    <3>4. QED
      BY <1>2, <1>3, <2>3, <2>4, <3>1, <3>2, <3>3 DEF Count
  <2>6. \/ app' = "fail" /\ iter' = iter
        \/ /\ iter' = iter + 1
           /\ app' = IF iter + 1 = REPEAT THEN "done" ELSE "post"
    BY <1>6 DEF PollReturn, Fail, NextIteration
  <2>7. Phase' /\ iter' \in 0 .. REPEAT
      /\ app' \in {"post", "poll", "poll_empty", "done", "fail"}
    <3>1. /\ Sq!InFlight' = 0 /\ Cq!Pending' = 0 /\ sqPc' = "build"
          /\ pc' = "idle" /\ REPEAT \in Nat
      BY <1>2, <1>3, <1>4, <2>3, <2>4, MTSizes
    <3>2. CASE app' = "fail" /\ iter' = iter
      BY <1>4, <3>1, <3>2 DEF Phase
    <3>3. CASE /\ iter' = iter + 1
               /\ app' = IF iter + 1 = REPEAT THEN "done" ELSE "post"
      BY <1>4, <3>1, <3>3 DEF Phase
    <3>4. QED
      BY <2>6, <3>2, <3>3
  <2>8. QED
    BY <1>1, <1>2, <2>5, <2>7 DEF MTIInv
<1>7. QED
  BY <1>5, <1>6

(* The HCA executes the WQE in flight and writes its CQE: one less in      *)
(* flight, one more pending.  The WQE is the RDMA write local_write built, *)
(* so the CQE carries its opcode.                                          *)
LEMMA MTIInvHwComplete ==
  ASSUME MTIInv, HwComplete
  PROVE  MTIInv'
<1>1. /\ Sq!SqIInv' /\ Sq!InFlight' = Sq!InFlight - 1
      /\ Sq!WellFormed(fetched', hwSqCi) /\ Sq!InFlight > 0
  BY SqIInvExec DEF MTIInv, HwComplete
<1>2. fetched'.opcode = 8
  BY <1>1 DEF Sq!WellFormed, Sq!MLX5_OPCODE_RDMA_WRITE
<1>3. PICK op \in {0, 13} : Cq!HwWriteCqeOf(op, fetched'.opcode)
  BY DEF HwComplete, Cq!MLX5_CQE_REQ, Cq!MLX5_CQE_REQ_ERR
<1>4. Cq!HwWriteCqeOf(op, 8)
  BY <1>2, <1>3
<1>5. Cq!IInv' /\ Cq!LoadedCurrent'
  <2>1. [Cq!Next]_Cq!vars
    BY <1>4 DEF Cq!Next, Cq!HwWriteCqe
  <2>2. QED
    BY <2>1, CqIInvNext DEF MTIInv
<1>6. Cq!Pending' = Cq!Pending + 1
  BY <1>4, CqWrite DEF MTIInv
<1>7. /\ ci' = ci /\ pc' = pc /\ sqPost' = sqPost /\ sqPc' = sqPc
      /\ app' = app /\ iter' = iter
  BY <1>4 DEF HwComplete, Sq!HwExecuteWqe, Cq!HwWriteCqeOf
<1>8. /\ Sq!InFlight \in 0 .. Sq!PiMod - 1
      /\ Cq!Pending \in 0 .. Cq!CiMod - 1 /\ ci \in 0 .. Cq!CiMod - 1
  BY <1>1, SqInFlightType, CqPendingType DEF MTIInv
<1>9. Sq!InFlight > 0 /\ app # "post"
  BY <1>1, <1>8 DEF MTIInv, Phase
<1>10. Phase'
  <2>1. Sq!InFlight' + Cq!Pending' = Sq!InFlight + Cq!Pending
    BY <1>1, <1>6, <1>8
  <2>2. QED
    BY <1>7, <1>9, <2>1 DEF MTIInv, Phase
<1>11. Count'
  <2>1. ci' + Sq!InFlight' + Cq!Pending' = ci + Sq!InFlight + Cq!Pending
    BY <1>1, <1>6, <1>7, <1>8
  <2>2. QED
    BY <1>7, <2>1 DEF MTIInv, Count
<1>12. QED
  BY <1>1, <1>5, <1>7, <1>10, <1>11 DEF MTIInv

(* A step that changes nothing keeps everything.                           *)
LEMMA MTIInvStutter ==
  ASSUME MTIInv, UNCHANGED vars
  PROVE  MTIInv'
<1>1. Cq!IInv' /\ Cq!LoadedCurrent'
  BY CqIInvNext DEF MTIInv, vars, cqVars, Cq!vars
<1>2. Sq!SqIInv' /\ Sq!InFlight' = Sq!InFlight
  BY SqIInvStutter DEF MTIInv, vars, sqVars, Sq!sqVars
<1>3. Cq!Pending' = Cq!Pending
  BY DEF vars, cqVars, Cq!Pending
<1>4. QED
  BY <1>1, <1>2, <1>3 DEF MTIInv, Phase, Count, vars, cqVars, sqVars

(* Every step of the composition keeps the invariant.                      *)
LEMMA MTIInvNext == MTIInv /\ [Next]_vars => MTIInv'
BY MTIInvPost, MTIInvTrigger, MTIInvPollLoad, MTIInvPollReturn,
   MTIInvPollAgainTimeout, MTIInvHwComplete, MTIInvStutter DEF Next

-----------------------------------------------------------------------------
(* The data path keeps both rings' counters in their widths, main's state  *)
(* one of its five and the iteration count within config.repeat_count.     *)
THEOREM MTTypeCorrect == Spec => []TypeOK
<1>1. MTIInv => TypeOK
  BY DEF MTIInv, TypeOK, Cq!IInv, Sq!SqIInv
<1>2. QED
  BY MTIInvInit, MTIInvNext, <1>1, PTL DEF Spec

(* The send ring is never overrun, for every ring size, counter width and  *)
(* repeat count: local_write posts only after the previous write's         *)
(* completion was consumed (main polls for it before the next iteration    *)
(* and exits on the first failure), so the slot it writes is free and the  *)
(* HCA is never told of a WQE that is not intact in its slot.              *)
THEOREM SendRingIntactInvariant == Spec => []SendRingIntact
<1>1. MTIInv => SendRingIntact
  BY ComponentAssumption, Sq!SqIInvCovers DEF MTIInv, SendRingIntact
<1>2. QED
  BY MTIInvInit, MTIInvNext, <1>1, PTL DEF Spec

(* The step that counts an iteration consumes the completion of the WQE    *)
(* just posted, and, when the build merges the loads of op_own, its status *)
(* is what the HCA wrote: REQ.                                             *)
LEMMA VerdictStep ==
  ASSUME MTIInv, ~RELOAD_OP_OWN, [Next]_vars, iter' # iter
  PROVE  /\ ci' = sqPost
         /\ slot[Cq!Pos(ci)].op = Cq!MLX5_CQE_REQ
<1>1. PollReturn /\ ci' # ci /\ wc'.status = Cq!IBV_WC_SUCCESS
  BY DEF Next, Post, Trigger, PollLoad, PollReturn, PollAgain, PollTimeout,
         HwComplete, Fail, vars, cqVars, sqVars
<1>2. Cq!PollCheck /\ UNCHANGED sqVars
  BY <1>1 DEF PollReturn
<1>3. Cq!PollConsume
  BY <1>1, <1>2 DEF Cq!PollCheck, Cq!PollEmpty, Cq!PollStale,
                    Cq!PollSkipUnknown
<1>4. [Cq!Next]_Cq!vars
  BY <1>2 DEF Cq!Next
<1>5. /\ wc' = Cq!Decode(slot[Cq!Pos(ci)].op, slot[Cq!Pos(ci)])
      /\ slot[Cq!Pos(ci)].op \in {0, 13}
  BY <1>1, <1>4, CqConsumeStep DEF MTIInv
<1>6. slot[Cq!Pos(ci)].op = Cq!MLX5_CQE_REQ
  <2>1. Cq!Decode(13, slot[Cq!Pos(ci)]).status # Cq!IBV_WC_SUCCESS
    BY DEF Cq!Decode, Cq!MLX5_CQE_REQ, Cq!MLX5_CQE_RESP_SEND,
           Cq!MLX5_CQE_RESP_SEND_IMM, Cq!MLX5_CQE_RESP_WR_IMM,
           Cq!MLX5_CQE_REQ_ERR, Cq!MLX5_CQE_RESP_ERR, Cq!IBV_WC_SUCCESS,
           Cq!IBV_WC_GENERAL_ERR
  <2>2. QED
    BY <1>1, <1>5, <2>1 DEF Cq!MLX5_CQE_REQ
<1>7. ci' = sqPost
  <2>1. Cq!Pending' = Cq!Pending - 1 /\ Cq!Pending > 0
    BY <1>3, CqConsume DEF MTIInv
  <2>2. /\ Sq!InFlight + Cq!Pending <= 1
        /\ Sq!InFlight \in 0 .. Sq!PiMod - 1
        /\ Cq!Pending \in 0 .. Cq!CiMod - 1 /\ ci \in 0 .. Cq!CiMod - 1
        /\ (ci + Sq!InFlight + Cq!Pending) % Cq!CiMod = sqPost
    BY SqInFlightType, CqPendingType DEF MTIInv, Phase, Count
  <2>3. ci' = (ci + 1) % Cq!CiMod
    BY <1>3 DEF Cq!PollConsume
  <2>4. QED
    BY <2>1, <2>2, <2>3
<1>8. QED
  BY <1>6, <1>7

(* Main's verdict is sound when the build merges the two loads of op_own:  *)
(* every iteration it counts as a successful RDMA write consumed the       *)
(* completion of the WQE it had just posted, and the HCA reported success  *)
(* in that CQE, for every ring size, counter width and repeat count.  With *)
(* two loads it fails (run mt_stale_verdict).                              *)
THEOREM VerdictSoundMerged == ~RELOAD_OP_OWN => (Spec => VerdictSound)
<1> SUFFICES ASSUME ~RELOAD_OP_OWN PROVE Spec => VerdictSound
  OBVIOUS
<1>1. MTIInv /\ [Next]_vars
        => [iter' # iter => /\ ci' = sqPost
                            /\ slot[Cq!Pos(ci)].op = Cq!MLX5_CQE_REQ]_vars
  BY VerdictStep
<1>2. QED
  BY MTIInvInit, MTIInvNext, <1>1, PTL DEF Spec, VerdictSound

=============================================================================
