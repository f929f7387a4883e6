------------------------------ MODULE Resources ------------------------------
(***************************************************************************)
(* The life cycle of the verbs objects of mlx5dv_manual_trigger.c: main    *)
(* creates them (resources_create), connects the QP to itself              *)
(* (connect_qp_self), runs repeat_count RDMA writes and destroys them      *)
(* (resources_destroy).  Every call of the verbs library and of malloc can *)
(* fail; the code checks each one, and a failure of resources_create       *)
(* releases what it had created (resources_create_exit) before main's own  *)
(* resources_destroy runs.                                                 *)
(*                                                                         *)
(* An object is "alive" while it exists in the library or the device, and  *)
(* in "ptr" while the program holds a non-NULL handle to it.  A release    *)
(* call of the library refuses (EBUSY) to destroy an object another alive  *)
(* object uses; ibv_close_device succeeds with objects left and destroys   *)
(* them with the context; free and ibv_free_device_list cannot fail.  Any  *)
(* other call may fail for reasons of its own.                             *)
(*                                                                         *)
(* The RDMA write itself (local_write) is the subject of ManualTrigger;    *)
(* here it is a step that succeeds or fails.                               *)
(***************************************************************************)
EXTENDS Integers, Sequences

CONSTANTS
  REPEAT,       \* config.repeat_count
  INLINE_MAX    \* the first max_inline_data resources_create tries (512)

ASSUME ResourcesAssumption ==
  /\ REPEAT \in Nat \ {0}
  /\ INLINE_MAX \in Nat \ {0}

(* The objects: the device list, the context, the PD, the CQ, the message  *)
(* buffer, the MR and the QP.                                              *)
Res == {"list", "ctx", "pd", "cq", "buf", "mr", "qp"}

(* What each object uses: the MR is registered on the PD over the buffer,  *)
(* the QP is created on the PD with the CQ, PD and CQ on the context.      *)
Uses == [list |-> {}, ctx |-> {}, pd |-> {"ctx"}, cq |-> {"ctx"},
         buf |-> {}, mr |-> {"pd", "buf"}, qp |-> {"pd", "cq"}]

(* The objects ibv_close_device takes with it.                             *)
DeviceObjs == {"ctx", "pd", "cq", "mr", "qp"}

Users(r, A) == {u \in A : r \in Uses[u]}

(* The order of the release calls of resources_create_exit and of          *)
(* resources_destroy.                                                      *)
CleanupOrder == <<"qp", "mr", "buf", "cq", "pd", "ctx", "list">>
DestroyOrder == <<"qp", "mr", "buf", "cq", "pd", "ctx">>

QpStates == {"RESET", "INIT", "RTR", "RTS"}

VARIABLES
  pc,         \* where main is
  alive,      \* objects that exist
  ptr,        \* objects the program holds a handle to
  acqs,       \* object -> number of times it was created
  rels,       \* object -> number of release calls made on it
  inl,        \* inlineLimit of the QP creation loop
  maxInline,  \* res->max_inline_data
  qpState,    \* the state of the QP
  gidSet,     \* config.gid_idx >= 0 (option -g)
  iter,       \* i, RDMA writes completed
  rc,         \* main's rc
  step        \* index of the next release call of a cleanup

vars == <<pc, alive, ptr, acqs, rels, inl, maxInline, qpState, gidSet, iter,
          rc, step>>

-----------------------------------------------------------------------------
(* main after argument parsing and resources_init (memset: no handles).    *)
Init ==
  /\ pc = "get_list"
  /\ alive = {}
  /\ ptr = {}
  /\ acqs = [r \in Res |-> 0]
  /\ rels = [r \in Res |-> 0]
  /\ inl = INLINE_MAX
  /\ maxInline = 0
  /\ qpState = "RESET"
  /\ gidSet \in BOOLEAN
  /\ iter = 0
  /\ rc = 1
  /\ step = 1

(* A creating call that returned the object r.                            *)
Created(r) ==
  /\ alive' = alive \cup {r}
  /\ ptr' = ptr \cup {r}
  /\ acqs' = [acqs EXCEPT ![r] = @ + 1]

(* A creating call that failed: goto resources_create_exit.                *)
CreateFails ==
  /\ pc' = "create_exit"
  /\ UNCHANGED <<alive, ptr, acqs>>

(* One step of resources_create that creates r and goes on to next.        *)
CreateStep(at, r, next) ==
  /\ pc = at
  /\ \/ Created(r) /\ pc' = next
     \/ CreateFails
  /\ UNCHANGED <<rels, inl, maxInline, qpState, gidSet, iter, rc, step>>

(* ibv_get_device_list: NULL, an empty list or a list with devices.       *)
GetDeviceList ==
  /\ pc = "get_list"
  /\ \/ CreateFails
     \/ Created("list") /\ pc' = "create_exit"
     \/ Created("list") /\ pc' = "find_device"
  /\ UNCHANGED <<rels, inl, maxInline, qpState, gidSet, iter, rc, step>>

(* The search for config.dev_name in the list.                            *)
FindDevice ==
  /\ pc = "find_device"
  /\ pc' \in {"open_device", "create_exit"}
  /\ UNCHANGED <<alive, ptr, acqs, rels, inl, maxInline, qpState, gidSet,
                 iter, rc, step>>

(* ibv_open_device; on success the device list is freed.                  *)
OpenDevice ==
  /\ pc = "open_device"
  /\ \/ /\ alive' = (alive \cup {"ctx"}) \ {"list"}
        /\ ptr' = (ptr \cup {"ctx"}) \ {"list"}
        /\ acqs' = [acqs EXCEPT !["ctx"] = @ + 1]
        /\ rels' = [rels EXCEPT !["list"] = @ + 1]
        /\ pc' = "query_port"
     \/ CreateFails /\ UNCHANGED rels
  /\ UNCHANGED <<inl, maxInline, qpState, gidSet, iter, rc, step>>

(* ibv_query_port.                                                         *)
QueryPort ==
  /\ pc = "query_port"
  /\ pc' \in {"alloc_pd", "create_exit"}
  /\ UNCHANGED <<alive, ptr, acqs, rels, inl, maxInline, qpState, gidSet,
                 iter, rc, step>>

AllocPd   == CreateStep("alloc_pd", "pd", "create_cq")
CreateCq  == CreateStep("create_cq", "cq", "malloc_buf")
MallocBuf == CreateStep("malloc_buf", "buf", "reg_mr")
RegMr     == CreateStep("reg_mr", "mr", "create_qp")

(* One round of the loop of ibv_create_qp with max_inline_data =          *)
(* inlineLimit, halved after each failure while it is at least 1; after   *)
(* the loop max_inline_data is what it ended at.                           *)
CreateQpTry ==
  /\ pc = "create_qp"
  /\ \/ /\ Created("qp")
        /\ maxInline' = inl
        /\ pc' = "init_obj"
        /\ UNCHANGED inl
     \/ /\ inl' = inl \div 2
        /\ pc' = IF inl' >= 1 THEN "create_qp" ELSE "create_qp_no_inline"
        /\ maxInline' = IF inl' >= 1 THEN maxInline ELSE 0
        /\ UNCHANGED <<alive, ptr, acqs>>
  /\ UNCHANGED <<rels, qpState, gidSet, iter, rc, step>>

(* The last ibv_create_qp, without inline data.                           *)
CreateQpNoInline ==
  /\ pc = "create_qp_no_inline"
  /\ \/ Created("qp") /\ pc' = "init_obj"
     \/ CreateFails
  /\ UNCHANGED <<rels, inl, maxInline, qpState, gidSet, iter, rc, step>>

(* mlx5dv_init_obj, then the BlueFlame check; resources_create returns 0.  *)
InitObj ==
  /\ pc = "init_obj"
  /\ pc' \in {"connect", "create_exit"}
  /\ UNCHANGED <<alive, ptr, acqs, rels, inl, maxInline, qpState, gidSet,
                 iter, rc, step>>

(* Whether a release call of r succeeds, given whether the call would     *)
(* succeed on its own (ok): free and ibv_free_device_list always do,       *)
(* ibv_close_device does with objects left, any other refuses an object    *)
(* still in use.                                                           *)
ReleaseOk(r, ok) ==
  \/ r \in {"buf", "list"}
  \/ ok /\ (r = "ctx" \/ Users(r, alive) = {})

(* The objects alive after a release call of r.                           *)
Released(r, ok) ==
  IF ~ReleaseOk(r, ok) THEN alive
  ELSE IF r = "ctx" THEN alive \ DeviceObjs
  ELSE alive \ {r}

(* Mutant: the handle kept after the release call.                        *)
CleanupStepNoNull ==
  /\ pc = "create_exit"
  /\ LET r == CleanupOrder[step] IN
       IF r \in ptr
       THEN \E ok \in BOOLEAN :
              /\ alive' = Released(r, ok)
              /\ rels' = [rels EXCEPT ![r] = @ + 1]
              /\ ptr' = ptr
       ELSE UNCHANGED <<alive, rels, ptr>>
  /\ step' = IF step = Len(CleanupOrder) THEN 1 ELSE step + 1
  /\ pc' = IF step = Len(CleanupOrder) THEN "destroy" ELSE pc
  /\ UNCHANGED <<acqs, inl, maxInline, qpState, gidSet, iter, rc>>

(* One call of resources_create_exit (rc is 1): if the handle is not NULL, *)
(* release the object, ignore the result and set the handle to NULL.       *)
(* After the last, resources_create returns 1 and main goes to main_exit.  *)
CleanupStep ==
  /\ pc = "create_exit"
  /\ LET r == CleanupOrder[step] IN
       IF r \in ptr
       THEN \E ok \in BOOLEAN :
              /\ alive' = Released(r, ok)
              /\ rels' = [rels EXCEPT ![r] = @ + 1]
              /\ ptr' = ptr \ {r}
       ELSE UNCHANGED <<alive, rels, ptr>>
  /\ step' = IF step = Len(CleanupOrder) THEN 1 ELSE step + 1
  /\ pc' = IF step = Len(CleanupOrder) THEN "destroy" ELSE pc
  /\ UNCHANGED <<acqs, inl, maxInline, qpState, gidSet, iter, rc>>

(* The call of connect_qp_self that fails first, if any: ibv_query_gid     *)
(* (only with -g), then the modifications to INIT, RTR and RTS.            *)
ConnectOutcomes == {"gid", "init", "rtr", "rts", "ok"}

(* The state the QP is left in by each outcome.                           *)
ReachedState ==
  [gid |-> "RESET", init |-> "RESET", rtr |-> "INIT", rts |-> "RTR",
   ok |-> "RTS"]

(* Mutant: main goes on to the writes when the move to RTS failed.        *)
ConnectIgnoreRts ==
  /\ pc = "connect"
  /\ \E o \in ConnectOutcomes :
       /\ o = "gid" => gidSet
       /\ qpState' = ReachedState[o]
       /\ pc' = IF o \in {"ok", "rts"} THEN "write" ELSE "destroy"
  /\ UNCHANGED <<alive, ptr, acqs, rels, inl, maxInline, gidSet, iter, rc,
                 step>>

(* connect_qp_self: each failure returns at once, and main then goes to    *)
(* main_exit; on success main starts the writes.                          *)
Connect ==
  /\ pc = "connect"
  /\ \E o \in ConnectOutcomes :
       /\ o = "gid" => gidSet
       /\ qpState' = ReachedState[o]
       /\ pc' = IF o = "ok" THEN "write" ELSE "destroy"
  /\ UNCHANGED <<alive, ptr, acqs, rels, inl, maxInline, gidSet, iter, rc,
                 step>>

(* Mutant: the loop runs while i <= repeat_count.                         *)
LocalWriteOffByOne ==
  /\ pc = "write"
  /\ \/ /\ iter' = iter + 1
        /\ pc' = IF iter + 1 > REPEAT THEN "destroy" ELSE "write"
        /\ rc' = IF iter + 1 > REPEAT THEN 0 ELSE rc
     \/ /\ pc' = "destroy"
        /\ UNCHANGED <<iter, rc>>
  /\ UNCHANGED <<alive, ptr, acqs, rels, inl, maxInline, qpState, gidSet,
                 step>>

(* One iteration of main's loop: local_write succeeds, and after the last  *)
(* one rc = 0; or it fails and main goes to main_exit.                     *)
LocalWrite ==
  /\ pc = "write"
  /\ \/ /\ iter' = iter + 1
        /\ pc' = IF iter + 1 = REPEAT THEN "destroy" ELSE "write"
        /\ rc' = IF iter + 1 = REPEAT THEN 0 ELSE rc
     \/ /\ pc' = "destroy"
        /\ UNCHANGED <<iter, rc>>
  /\ UNCHANGED <<alive, ptr, acqs, rels, inl, maxInline, qpState, gidSet,
                 step>>

(* Mutant: a failure of ibv_close_device not counted in rc.               *)
DestroyStepIgnoreClose ==
  /\ pc = "destroy"
  /\ LET r == DestroyOrder[step] IN
       IF r \in ptr
       THEN \E ok \in BOOLEAN :
              /\ alive' = Released(r, ok)
              /\ rels' = [rels EXCEPT ![r] = @ + 1]
              /\ rc' = IF ReleaseOk(r, ok) \/ r = "ctx" THEN rc ELSE 1
       ELSE UNCHANGED <<alive, rels, rc>>
  /\ step' = IF step = Len(DestroyOrder) THEN 1 ELSE step + 1
  /\ pc' = IF step = Len(DestroyOrder) THEN "end" ELSE pc
  /\ UNCHANGED <<ptr, acqs, inl, maxInline, qpState, gidSet, iter>>

(* One call of resources_destroy, from main_exit: if the handle is not     *)
(* NULL, release the object; a failure makes resources_destroy, and so     *)
(* main, return 1, and the next call is made all the same.  The handles    *)
(* are left as they are.  After the last, main returns rc.                 *)
DestroyStep ==
  /\ pc = "destroy"
  /\ LET r == DestroyOrder[step] IN
       IF r \in ptr
       THEN \E ok \in BOOLEAN :
              /\ alive' = Released(r, ok)
              /\ rels' = [rels EXCEPT ![r] = @ + 1]
              /\ rc' = IF ReleaseOk(r, ok) THEN rc ELSE 1
       ELSE UNCHANGED <<alive, rels, rc>>
  /\ step' = IF step = Len(DestroyOrder) THEN 1 ELSE step + 1
  /\ pc' = IF step = Len(DestroyOrder) THEN "end" ELSE pc
  /\ UNCHANGED <<ptr, acqs, inl, maxInline, qpState, gidSet, iter>>

Next ==
  \/ GetDeviceList \/ FindDevice \/ OpenDevice \/ QueryPort
  \/ AllocPd \/ CreateCq \/ MallocBuf \/ RegMr
  \/ CreateQpTry \/ CreateQpNoInline \/ InitObj \/ CleanupStep
  \/ Connect \/ LocalWrite \/ DestroyStep

(* main returns after resources_destroy: "end" has no successor.          *)
Spec == Init /\ [][Next]_vars

-----------------------------------------------------------------------------
(* Type invariant.                                                         *)
ResTypeOK ==
  /\ pc \in {"get_list", "find_device", "open_device", "query_port",
             "alloc_pd", "create_cq", "malloc_buf", "reg_mr", "create_qp",
             "create_qp_no_inline", "init_obj", "create_exit", "connect",
             "write", "destroy", "end"}
  /\ alive \subseteq Res /\ ptr \subseteq Res
  /\ acqs \in [Res -> Nat] /\ rels \in [Res -> Nat]
  /\ inl \in 0 .. INLINE_MAX /\ maxInline \in 0 .. INLINE_MAX
  /\ qpState \in QpStates /\ gidSet \in BOOLEAN
  /\ iter \in 0 .. REPEAT /\ rc \in {0, 1}
  /\ step \in 1 .. Len(CleanupOrder)

(* No object is released twice: resources_create_exit sets each handle it *)
(* released to NULL, so that main_exit's resources_destroy, which runs     *)
(* after it, skips it, whether or not the release succeeded.               *)
NoDoubleRelease == \A r \in Res : rels[r] <= acqs[r]

(* main posts RDMA writes only on a QP connect_qp_self brought to RTS,     *)
(* with the objects it uses alive.                                         *)
WritesOnRts ==
  pc = "write" => qpState = "RTS" /\ {"qp", "mr", "buf", "cq", "pd"} \subseteq alive

(* main returns 0 only if all repeat_count writes succeeded and every      *)
(* object was released: a failure of any release in resources_destroy      *)
(* turns the result into 1.                                                *)
ResultSound ==
  pc = "end" /\ rc = 0 => iter = REPEAT /\ alive = {}

(* The buffer an MR is registered over is never freed while the MR exists. *)
(* resources_destroy and resources_create_exit free res->buf after         *)
(* ibv_dereg_mr without looking at its result.                             *)
RegisteredBufferLive == "mr" \in alive => "buf" \in alive

=============================================================================
