# TLA+ models of `mlx5dv_manual_trigger.c`

This directory holds a verification development for
`src/libibverbs/examples/mlx5dv_manual_trigger.c`. That program drives an mlx5
RDMA device by hand. It does not use `ibv_post_send` or `ibv_poll_cq`:

- it builds each send work-queue entry (WQE) itself in the send ring;
- it rings the BlueFlame doorbell register directly;
- it reads completions (CQEs) out of the completion ring itself, with the
  owner-bit/polarity protocol.

Around that data path, `main` creates the verbs objects, connects the queue
pair (QP) to itself, runs `repeat_count` RDMA writes and destroys everything
again.

## The system and how its parts interact

| Part | Code | Role |
|---|---|---|
| Completion ring reader | `manual_poll_cq` (279-435) | Software consumer of the CQ. It computes the slot `ci & (cqe_cnt-1)`, drops INVALID and wrong-owner slots, issues the barrier and decodes the CQE. Then it increments `cq_cons_index` and publishes its low 24 bits in the doorbell record. |
| HCA completion writer | hardware (header comment, 95-116) | Writes its n-th CQE into slot `n % cqe_cnt` with owner `!!(n & cqe_cnt)`. It writes only while the ring is not full by the doorbell value. |
| Send ring poster | `local_write` (872-984) | Builds the ctrl, raddr and data segments in slot `sq_cur_post % wqe_cnt`, with index `sq_cur_post & 0xffff`. Then: barrier, 8-byte BlueFlame write, `sq_cur_post++`, `bf_offset ^= bf.size`, and `poll_completion`. |
| HCA send engine | hardware | Executes, in order, every WQE up to the index of the last doorbell, and writes one CQE for each (`sq_sig_all = 1`). |
| Completion wait | `poll_completion` (438-500) | Spins on `manual_poll_cq` until it returns a CQE or 5000 ms pass. It fails on a timeout or on a non-success status. |
| Resource life cycle | `resources_create` (509-745), `connect_qp_self` (823-869), `resources_destroy` (1080-1116), `main` (1131-1207) | Every creating call can fail. A failure in `resources_create` releases what was made (`resources_create_exit`). `main_exit` always calls `resources_destroy`. |

Software and hardware share the two rings without locks. The owner bit, the
doorbell values and two barriers are the whole synchronisation. This
concurrency is what the ring models are about. The program itself has one
thread.

## Modules

| Module | Models | State | Actions |
|---|---|---|---|
| `CqRing` | completion ring reader + HCA writer | `slot` (the CQ buffer), `hwPi` (HCA counter), `ci` (`cq_cons_index`, `CI_BITS` wide), `dbrec` (published doorbell, `DB_BITS` wide), `pc`/`lop`/`lown` (where `manual_poll_cq` is and what its load of `op_own` returned), `wc` | `HwWriteCqe`; `PollLoadOp` (slot computation and the load of the opcode at line 308); `PollCheck` = `PollEmpty` (309-311) \/ `PollStale` (328-332) \/ `PollSkipUnknown` (413-414) \/ `PollConsume` (340-434) |
| `CqFifo` | what the reader promises: a bounded FIFO of completions | `queue`, `next`, `out` | `Produce`, `Consume` |
| `SqRing` | send ring poster + HCA send engine | `sqPost` (`sq_cur_post`), `bfOffset`, `sqPc`, `wqe` (the send buffer), `hwSqKnown`/`hwSqCi` (HCA's 16-bit indices), `fetched` | `PostWqe` (906-957), `RingDoorbell` (959-970), `HwExecuteWqe` |
| `ManualTrigger` | main's write loop, `local_write`, `poll_completion`, composed with `CqRing` and `SqRing` by `INSTANCE` | the variables of both rings, `app` (where main is), `iter` | `Post`, `Trigger`, `PollLoad`, `PollReturn`, `PollAgain`, `PollTimeout`, `HwComplete` (the HCA executes a WQE and writes its REQ or REQ_ERR CQE) |
| `Resources` | `resources_create`, `resources_create_exit`, `connect_qp_self`, the loop of `main`, `resources_destroy` | `pc`, `alive` (objects that exist), `ptr` (non-NULL handles), `acqs`/`rels` (create and release counts), `inl`/`maxInline`, `qpState`, `gidSet` (`-g` given), `iter`, `rc`, `step` | one action per creating call; `CreateQpTry`/`CreateQpNoInline` (the inline-limit retry loop); `CleanupStep` and `DestroyStep` (one release call each, in the code's order); `Connect`; `LocalWrite` |
| `RingArith` | lemmas on `%` and `\div` for ring indices | | |
| `CqRingProofs` | TLAPS proofs about `CqRing` | | |
| `CqRefinementProofs` | TLAPS proof that `CqRing` implements the safety part of `CqFifo` | | |
| `ManualTriggerProofs` | TLAPS proofs about the composed `ManualTrigger` | | |
| `SqRingProofs` | TLAPS proofs about `SqRing` | | |
| `ResourcesProofs` | TLAPS proofs about `Resources` | | |
| `MC*` | TLC instances | | |

### Correspondence details

**The CQ poll is split into two steps.** `manual_poll_cq` is split at the one
place where the HCA's interleaving matters: between the load of `op_own` for
the opcode (line 308) and the owner test (line 328). `cqe64` is not
`volatile`, so a compiler may merge the two loads of `op_own` or keep them
separate. `RELOAD_OP_OWN` chooses which build is modelled. Every `return 0`
leaves `ci` and the doorbell unchanged, as the code does.
The `return 0` of an unknown opcode (line 414) comes after the
`memset` and field copies into `wc` (348-350). `PollSkipUnknown` leaves `wc`
as it was. Neither `poll_completion` nor `main` reads `wc` after a poll that
returned 0, so `wc` stands for the last completion a poll returned.

**Counters keep their width.** `ci` is kept `% 2^CI_BITS` and `dbrec` holds
`ci % 2^DB_BITS`. The same holds for `sq_cur_post` and its 16-bit index.
Wrap-around of all of them happens in the runs.

**HCA behaviour is modelled from the protocol the source's comments
describe** (header comment, 95-116):

- the CQE owner bit and slot;
- the ring-full test against the published consumer index;
- in-order WQE execution up to the doorbell index.

**Data is abstracted.** A CQE is its opcode, owner bit, WQE opcode
(`sop_drop_qpn >> 24`) and a tag standing for its body. A WQE is its index,
opcode, `ds` and `CQ_UPDATE` bit. Addresses, keys and buffer bytes are left
out because no control decision reads them.

**Releases in `Resources`.** A release of the library may fail for reasons of
its own, and refuses (EBUSY) an object that another live object uses.
`ibv_close_device` takes every device object with it. `free` and
`ibv_free_device_list` cannot fail.

## Runs

| Run (cfg) | Expect | Checks | What it shows |
|---|---|---|---|
| `CqRing_safety` | pass | `TypeOK`, `NoOverrun` | The HCA never overwrites an unconsumed CQE, with both counters wrapping and an unknown opcode possible. |
| `CqRing_merged` | pass | `ConsumedAsWritten` | With one load of `op_own`, every consumed CQE is decoded as the HCA wrote it, in order. |
| `CqRing_live` | pass | `EventuallyConsumed` | Every CQE written is eventually consumed when the opcodes are known. |
| `CqRing_refines` | pass | `FifoSpec` | The ring implements `CqFifo` under the mapping `AbsEntry`. |
| `CqRing_stale_opcode` | violation | `ConsumedAsWritten` | With two loads, the opcode of the previous lap is decoded with the owner bit of the current one. |
| `CqRing_unknown_stall` | violation | `EventuallyConsumed` | An unknown opcode is never consumed: the reader is stuck on it. |
| `SqRing_safety` | pass | `SqTypeOK`, `DoorbellCoversBuilt` | The HCA is told only of built WQEs and executes them intact, across the 16-bit wrap. |
| `ManualTrigger_safety` | pass | `TypeOK`, `SendRingIntact`, `VerdictSound` | An iteration counts as successful only on the success CQE of the WQE just posted, and the send ring is never overrun. |
| `ManualTrigger_live` | pass | `PollEventuallyReturns` | `poll_completion` ends with a completion without relying on its timeout. |
| `ManualTrigger_stale_verdict` | violation | `VerdictSound` | With two loads of `op_own`, a REQ_ERR completion of an RDMA write is reported as success. |
| `Resources_safety` | pass | `ResTypeOK`, `NoDoubleRelease`, `WritesOnRts`, `ResultSound` | On every path of failures: no object is released twice, writes need an RTS QP, and `rc == 0` means every write succeeded and every object was released. |
| `Resources_buffer_freed` | violation | `RegisteredBufferLive` | After a failed `ibv_dereg_mr`, `free(res->buf)` frees the buffer under a live MR. |

Every property of a passing run has a mutant in `PROJECT.json`: a plausible
bug in the mapped code that TLC finds. Examples are:

- the owner bit taken from the wrong bit of `ci`;
- the doorbell published without its 24-bit mask;
- the WQE built one slot too far;
- a handle not set to NULL after release;
- the close failure not counted in `rc`.

### Bounds

**CQ.** `CQE_CNT = 2`, with a 3-bit consumer index and a 2-bit doorbell.
Both counters wrap within a run, the 2-bit doorbell wraps faster than the
index, and the owner bit flips every lap. These are the code's `2^32`/`2^24`
relations at the smallest scale that keeps them distinct: the doorbell is
narrower than the index and wider than one ring.

**SQ.** `WQE_CNT = 4`, with a 3-bit WQE index and a 4-bit `sq_cur_post`.

**ManualTrigger.** Two CQEs and two WQEs, and 10 writes (4 in the violation
run). Every slot of both rings is reused several times and every counter
wraps.

**Resources.** `REPEAT = 2` and an initial inline limit of 4 instead of 512.
The retry loop then takes 3 halvings plus the try without inline data, which
is the same control shape as the code's 10 tries. Every call's success and
failure is enumerated.

### Fairness

**CQ runs.** The CQ liveness runs assume weak fairness of the reader's two
steps. `poll_completion` spins on `manual_poll_cq` without blocking. The HCA
gets no fairness there: nothing is required of it.

**ManualTrigger.** Main's actions and the HCA's completion are weakly fair:
the program never blocks, and the device executes what it is told of.
`PollTimeout` has no fairness, so the liveness run does not rely on the clock.

**Resources.** `Resources` has no liveness property. The program ends, and
the cfgs turn deadlock checking off only because `main` returns: `pc = "end"`
has no successor.

## Proofs (TLAPS)

`CqRingProofs` proves, for every value of the constants:

- `TypeCorrect`: `Spec => []TypeOK`.
- `NoOverrunInvariant`: `Spec => []NoOverrun`. The HCA never overwrites a CQE
  software has not consumed. Over the 24-bit doorbell and the wrapping 32-bit
  index, this is the ring's key safety property.

**Assumptions.** The provers do not know `2^n`. So the arithmetic rests on
`RingModAssumption`, which restates the sizes as divisibilities:

- `2*CQE_CNT` divides `2^DB_BITS`;
- `2^DB_BITS` divides `2^CI_BITS`.

These follow from `CqeCntAssumption` (`cqe_cnt` is a power of two below
`2^24`), and TLC evaluates both assumptions on every CqRing run. The lemmas
of `RingArith` prove facts about `%` and `\div` under such divisibilities:

- remainders of sums;
- lap parity of a value reduced modulo `M`;
- parity flip after `N`;
- the distance `(a - b) % M` between two wrapping indices: how it grows when
  `a` advances and shrinks when `b` advances (`DistFacts`, `DistAdvance`,
  `DistRetreat`, `DistShift`);
- that fewer than `N` consecutive indices fall in distinct slots of a ring
  of `N` (`SlotDistinct`).

**The inductive invariant.** `NoOverrun` alone is not inductive. The proof
uses

`IInv == TypeOK /\ dbrec = ci % DbMod /\ NoOverrun /\ StaleSlots /\ LoadedSound`

- `StaleSlots`: every slot ahead of the unconsumed CQEs is INVALID or carries
  the owner bit of the previous lap. This is what lets the owner test refuse
  it.
- `LoadedSound`: an opcode loaded before the HCA's write is consistent with
  the slot, and a loaded valid opcode with the right owner means a CQE is
  pending.

Without these, a poll step could consume a slot the HCA has not yet written,
and no step-local argument excludes that.

The proof has one lemma per action. `IInv` was first checked with TLC as an
invariant for several sizes, including `CQE_CNT` of 1, 2 and 4, and both
values of `RELOAD_OP_OWN`.

**Merged loads of `op_own`.** A fourth conjunct is needed for
`ConsumedAsWritten`:

`LoadedCurrent == (pc = "loaded" /\ lop # INVALID /\ lown = HwOwner(ci)) => lop = slot[Pos(ci)].op`

An opcode loaded together with the right owner bit is still the slot's
opcode. It holds because the HCA only writes a slot that is not pending
(`PosDistinct`), and a loaded valid opcode with the right owner means a CQE
is pending (`LoadedSound`). With it:

- `ConsumedAsWrittenMerged`: `~RELOAD_OP_OWN => (Spec => ConsumedAsWritten)`.
  When the build merges the two loads of `op_own`, every poll that advances
  `cq_cons_index` returns the CQE the HCA wrote for that index, decoded from
  its own opcode. With two loads the property fails (run
  `cq_stale_opcode`), so the hypothesis is the whole point of the theorem.

### The refinement of `CqFifo` (`CqRefinementProofs`)

`RefinesFifoSafety` proves, for every ring size, counter width and opcode set:

`~RELOAD_OP_OWN => (Spec => Fifo!Init /\ [][Fifo!Next]_Fifo!fifoVars)`

This is the safety part of `FifoSpec`, under the mapping `Fifo` of `CqRing`.
The queue is `Q == QOf(slot, ci, Pending)`: the `Pending` CQEs from `ci` on,
with their opcode, sub-opcode and tag. The argument has one lemma per kind
of step:

- `RefInit`: no CQE is pending initially, so `Q = <<>>`.
- `RefWrite`: an HCA write appends `[op, sub, tag |-> hwPi]`. The guard on
  the doorbell leaves room (`Len(Q) < CQE_CNT`). The slots of the pending
  CQEs are not the slot written (`PosDistinct`). The new last index is
  `hwPi`.
- `RefConsume`: a successful poll removes `Head(Q)` and returns its decoding:
  - a CQE is pending (`ConsumeHasPending`);
  - the loaded opcode is the head's (`LoadedCurrent`);
  - the queue from `ci + 1` on is `Tail(Q)` (`IdxShift`).
- The load and the polls that return 0 leave `slot`, `hwPi`, `ci` and `wc`
  alone, so the mapped state stutters.

The lemmas on sequences come from `SequenceTheorems`: `SeqEqual`,
`AppendProperties`, `HeadTailProperties`, `EmptySeq`. `FunIsSeq` states that a
function on `1..n` is a sequence of length `n`. The inductive invariant is
`IInv /\ LoadedCurrent`. The fairness conjunct `WF(Consume)` of `FifoSpec`
is checked by TLC only (run `cq_refines`).

### The composed system (`ManualTriggerProofs`)

`ManualTrigger` instantiates `CqRingProofs` and `SqRingProofs` rather than
`CqRing` and `SqRing`. Their definitions are the same (the proof modules
extend the component modules), and their lemmas can then be cited through
`Cq!` and `Sq!` in the proofs of the composition. `ComponentAssumption`
restates the assumptions of both instances, and TLC evaluates it on every
`ManualTrigger` run. `ManualTriggerProofs` proves, for every `REPEAT`, ring
size and counter width:

- `MTTypeCorrect`: `Spec => []TypeOK`.
- `SendRingIntactInvariant`: `Spec => []SendRingIntact`. `local_write` never
  checks for room in the send ring; main's loop posts one WQE and polls for
  its completion before the next, and exits on the first failure.
- `VerdictSoundMerged`: `~RELOAD_OP_OWN => (Spec => VerdictSound)`. An
  iteration main counts as a successful write consumed exactly the
  completion of the WQE it posted, and the HCA reported success in it.

**The inductive invariant.**

`MTIInv == app and iter typed /\ Cq!IInv /\ Cq!LoadedCurrent /\ Sq!SqIInv /\ Phase /\ Count`

- `Phase` ties the rings to where main is. In `post` nothing is in flight
  and no CQE is pending. In `poll` and `poll_empty`, exactly one of the two
  holds: one WQE in flight, or one CQE pending. Nothing else is ever
  outstanding.
- `Count`: `(ci + InFlight + Pending) % 2^CNT_BITS = sq_cur_post`. Every WQE
  posted is either executed and consumed, executed and pending, or in
  flight.

The ring invariants alone do not give `SendRingIntact`: the send ring is
protected only by `InFlight <= 1`, which is `Phase`. `VerdictSound` needs
`Count`: consuming the single pending CQE makes `ci` equal `sq_cur_post`.
`MTIInv` was first checked with TLC on the `mt_safety` and
`mt_stale_verdict` instances and on one with `CQE_CNT = 1`.

### The send ring (`SqRingProofs`)

`SqRingProofs` proves, for every ring size and counter width:

- `SqTypeCorrect`: `SqSpec => []SqTypeOK`.
- `DoorbellCovered`: `SqSpec => []DoorbellCoversBuilt`. The HCA is only told
  of WQEs `local_write` has built. Every WQE posted and not yet executed
  stays intact in its slot, across the wrap of the 16-bit index.

**Assumption.** `SqModAssumption` states the sizes as divisibilities, for the
same reason as `RingModAssumption`:

- `2*WQE_CNT` divides `2^PI_BITS`;
- `2^PI_BITS` divides `2^SQ_BITS`.

TLC evaluates it on every run whose module extends `SqRing`.

**The inductive invariant.** `DoorbellCoversBuilt` compares the HCA's count
of outstanding WQEs with the poster's count of WQEs in flight. Each count is
a difference of wrapping counters, so the property is not inductive. The
proof uses

`SqIInv == SqTypeOK /\ hwSqKnown = PostIdx /\ InFlight <= WQE_CNT /\ (sqPc = "ring" => ...) /\ Intact`

- `hwSqKnown = PostIdx`: after every doorbell, the HCA knows exactly the low
  16 bits of `sq_cur_post`. The ctrl segment's index is the one the
  doorbell copies, and `sq_cur_post++` follows the doorbell. So the two
  counts are the same number.
- The `"ring"` clause: between the WQE build and the doorbell, the WQE just
  built is well formed for the current index and the ring is not full.
- `Intact`: the WQEs in flight are intact in their slots.

Each action has its own lemma:

- The build writes the slot of index `hwSqCi + InFlight`. By `SlotDistinct`,
  it differs from the slot of every WQE in flight.
- The doorbell adds one to `InFlight` (`DistAdvance`).
- An execution removes one (`DistRetreat`) and shifts the others
  (`DistShift`).

`SqIInv` was first checked with TLC as an invariant for five combinations of
`WQE_CNT`, `SQ_BITS` and `PI_BITS`.

### The object life cycle (`ResourcesProofs`)

`ResourcesProofs` proves, for every `repeat_count` and first inline limit,
and whatever each call returns:

- `ResTypeCorrect`: `Spec => []ResTypeOK`.
- `ReleasedOnce`: `Spec => []NoDoubleRelease`.
- `WritesOnlyOnRts`: `Spec => []WritesOnRts`.
- `ResultIsSound`: `Spec => []ResultSound`.

None of the three safety properties is inductive on its own. The
strengthening `ResIInv` adds one named conjunct per fact a step relies on:

- `HeldAsMade`: before the writes, `main` holds, and has alive, exactly the
  objects the calls made so far have created (`Made`).
- `HeldUnreleased`: outside `resources_destroy`, a handle `main` holds was
  not released yet. `resources_create_exit` sets each handle it releases to
  NULL.
- `DestroyProgress`: `resources_destroy` keeps its handles. Each handle it
  has released is at an earlier place in its list, and each object appears
  once there, so the object it visits has not been released.
- `RcZero` and `DestroyClean`: `rc` is 0 only after the last write. From then
  on, every object alive is still ahead in `resources_destroy`'s list, behind
  a handle `main` holds. A call that keeps `rc` at 0 therefore succeeded and
  removed its object. After the last call nothing is left (`EndClean`).
- `StepReset`, `NotStarted` and `WriteReady` cover the walks' start index,
  the QP state before the writes, and the loop counter.

The proof has one lemma per action, or group of alike actions. Two generic
lemmas cover most of them:

- `ResIInvMove`: a step that creates nothing;
- `ResIInvCreate`: a step that creates one object.

`ResIInv` was first checked with TLC for `(REPEAT, INLINE_MAX)` =
`(2,4)`, `(1,1)` and `(3,8)`.

### What only TLC checks

These properties are checked by TLC only, on the instances above:

- Liveness: `EventuallyConsumed`, `PollEventuallyReturns`, and the fairness
  conjunct of `FifoSpec`. They need `ENABLED` and temporal reasoning beyond
  the provers.
- Everything about builds that load `op_own` twice (`RELOAD_OP_OWN = TRUE`).
  There `ConsumedAsWritten` and `VerdictSound` fail, and the runs
  `cq_stale_opcode` and `mt_stale_verdict` show how. The theorems above that
  are about polls assume merged loads.
- `RegisteredBufferLive`, which does not hold (see the findings).

## Not modelled

- **Argument parsing and `print_config`.** They are strings. Their effects
  enter as constants (`REPEAT`) or initial choices (`gidSet`).
- **`local_receive`.** It is never called.
- **Logging, buffer contents and the byte layout of segments.** Only the
  fields the HCA's decisions read are kept.
- **The clock of `poll_completion`.** It is not modelled. The timeout may
  fire on any empty poll, which covers both the early expiry a clock step
  causes and the normal one.
- **Field-by-field visibility of a CQE.** The HCA writes a CQE in one step,
  so the barrier at line 340 guards against nothing the model can show.
