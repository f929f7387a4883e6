--------------------------- MODULE ResourcesProofs ---------------------------
(* Proofs about the life cycle of the verbs objects (Resources), for every *)
(* repeat_count and first inline limit.                                    *)
EXTENDS Resources, TLAPS

(* The objects main holds, and that exist, at each point of                *)
(* resources_create, connect_qp_self and the write loop: the device list   *)
(* until ibv_open_device frees it, then each object from the call that     *)
(* creates it on.                                                          *)
Made ==
  LET c == {"ctx"}
      p == c \cup {"pd"}
      q == p \cup {"cq"}
      b == q \cup {"buf"}
      m == b \cup {"mr"}
      all == m \cup {"qp"}
  IN [get_list |-> {}, find_device |-> {"list"}, open_device |-> {"list"},
      query_port |-> c, alloc_pd |-> c, create_cq |-> p, malloc_buf |-> q,
      reg_mr |-> b, create_qp |-> m, create_qp_no_inline |-> m,
      init_obj |-> all, connect |-> all, write |-> all]

(* The points before the write loop, where no write was made.             *)
Creating == DOMAIN Made \ {"write"}

(* The objects resources_destroy has still to visit from its call "step".  *)
ToDestroy == {DestroyOrder[j] : j \in step .. Len(DestroyOrder)}

(* Up to the writes, main holds exactly the objects it made, and they     *)
(* exist.                                                                  *)
HeldAsMade == pc \in DOMAIN Made => alive = Made[pc] /\ ptr = Made[pc]

(* Before the writes nothing was written and the QP is still in RESET.     *)
NotStarted == pc \in Creating => iter = 0 /\ qpState = "RESET"

(* A handle main holds outside resources_destroy was not yet released.     *)
HeldUnreleased ==
  pc \notin {"destroy", "end"} => \A r \in ptr : rels[r] < acqs[r]

(* The release walks start at their first call.                            *)
StepReset == pc \notin {"create_exit", "destroy"} => step = 1

(* resources_destroy keeps its handles, and each one it has released is    *)
(* behind it in its list.                                                  *)
DestroyProgress ==
  pc = "destroy" =>
    /\ step \in 1 .. Len(DestroyOrder)
    /\ \A r \in ptr : rels[r] < acqs[r] \/ \E j \in 1 .. step - 1 : DestroyOrder[j] = r

(* The write loop runs on a QP in RTS, and before its last iteration.      *)
WriteReady == pc = "write" => qpState = "RTS" /\ iter < REPEAT

(* rc is 0 only after the last write.                                      *)
RcZero == rc = 0 => pc \in {"destroy", "end"} /\ iter = REPEAT

(* With rc still 0, every object alive is one resources_destroy has still  *)
(* to release, through a handle it holds.                                  *)
DestroyClean == pc = "destroy" /\ rc = 0 => alive \subseteq ptr \cap ToDestroy

(* With rc still 0 when main returns, nothing is left.                    *)
EndClean == pc = "end" /\ rc = 0 => alive = {}

(* The inductive strengthening of NoDoubleRelease, WritesOnRts and         *)
(* ResultSound.                                                            *)
ResIInv ==
  /\ ResTypeOK
  /\ NoDoubleRelease
  /\ HeldAsMade
  /\ NotStarted
  /\ HeldUnreleased
  /\ StepReset
  /\ DestroyProgress
  /\ WriteReady
  /\ RcZero
  /\ DestroyClean
  /\ EndClean

-----------------------------------------------------------------------------
(* The two release orders: their lengths, their entries, and that each     *)
(* object appears once in resources_destroy's.                            *)
LEMMA OrderFacts ==
  /\ Len(CleanupOrder) = 7 /\ Len(DestroyOrder) = 6
  /\ \A i \in 1 .. 7 : CleanupOrder[i] \in Res
  /\ \A i \in 1 .. 6 : DestroyOrder[i] \in Res
  /\ \A i, j \in 1 .. 6 : DestroyOrder[i] = DestroyOrder[j] => i = j
  /\ {DestroyOrder[j] : j \in 1 .. 6} = Made.write
<1>1. Len(CleanupOrder) = 7 /\ Len(DestroyOrder) = 6
  BY DEF CleanupOrder, DestroyOrder
<1>2. \A i \in 1 .. 7 : CleanupOrder[i] \in Res
  BY DEF CleanupOrder, Res
<1>3. \A i \in 1 .. 6 : DestroyOrder[i] \in Res
  BY DEF DestroyOrder, Res
<1>4. \A i, j \in 1 .. 6 : DestroyOrder[i] = DestroyOrder[j] => i = j
  BY DEF DestroyOrder
<1>5. {DestroyOrder[j] : j \in 1 .. 6} = Made.write
  BY DEF DestroyOrder, Made
<1>6. QED
  BY <1>1, <1>2, <1>3, <1>4, <1>5


(* The points of main the map Made names, and what it gives at each.       *)
LEMMA MadeFacts ==
  /\ DOMAIN Made = {"get_list", "find_device", "open_device", "query_port",
                    "alloc_pd", "create_cq", "malloc_buf", "reg_mr",
                    "create_qp", "create_qp_no_inline", "init_obj", "connect",
                    "write"}
  /\ Creating = DOMAIN Made \ {"write"}
  /\ \A x \in DOMAIN Made : Made[x] \subseteq Res
  /\ Made.get_list = {} /\ Made.find_device = {"list"}
  /\ Made.open_device = {"list"} /\ Made.query_port = {"ctx"}
  /\ Made.alloc_pd = {"ctx"} /\ Made.create_cq = {"ctx", "pd"}
  /\ Made.malloc_buf = {"ctx", "pd", "cq"}
  /\ Made.reg_mr = {"ctx", "pd", "cq", "buf"}
  /\ Made.create_qp = {"ctx", "pd", "cq", "buf", "mr"}
  /\ Made.create_qp_no_inline = {"ctx", "pd", "cq", "buf", "mr"}
  /\ Made.init_obj = {"ctx", "pd", "cq", "buf", "mr", "qp"}
  /\ Made.connect = Made.init_obj /\ Made.write = Made.init_obj
BY DEF Made, Creating, Res

(* The strengthened invariant holds when main starts.                      *)
LEMMA ResIInvInit == Init => ResIInv
<1> SUFFICES ASSUME Init PROVE ResIInv
  OBVIOUS
<1>1. REPEAT \in Nat \ {0} /\ INLINE_MAX \in Nat \ {0}
  BY ResourcesAssumption
<1>2. ResTypeOK
  BY <1>1, OrderFacts DEF Init, ResTypeOK, QpStates
<1>3. HeldAsMade /\ NotStarted
  BY MadeFacts DEF Init, HeldAsMade, NotStarted
<1>4. QED
  BY <1>2, <1>3 DEF Init, ResIInv, NoDoubleRelease, HeldUnreleased,
     StepReset, DestroyProgress, WriteReady, RcZero, DestroyClean, EndClean

(* Before resources_destroy, rc is still 1.                                *)
LEMMA RcOne ==
  ASSUME ResIInv, pc \notin {"destroy", "end"}
  PROVE  rc = 1
BY DEF ResIInv, RcZero, ResTypeOK

(* The parts of the invariant about resources_destroy, the writes and rc   *)
(* hold after a step that goes to a point before the writes, keeps rc and  *)
(* leaves main holding objects it has not released.                        *)
LEMMA EarlyParts ==
  ASSUME ResIInv, pc' \in Creating \cup {"create_exit"}, rc' = rc,
         pc \notin {"destroy", "end"}
  PROVE  DestroyProgress' /\ WriteReady' /\ RcZero' /\ DestroyClean' /\ EndClean'
<1>1. rc' = 1
  BY RcOne
<1>2. pc' \notin {"destroy", "end", "write"}
  BY MadeFacts
<1>3. QED
  BY <1>1, <1>2 DEF DestroyProgress, WriteReady, RcZero, DestroyClean, EndClean

(* A step of resources_create that creates nothing and releases nothing:  *)
(* it moves on with the same objects, or fails and goes to                 *)
(* resources_create_exit.                                                  *)
LEMMA ResIInvMove ==
  ASSUME ResIInv, pc \in Creating, pc' \in Creating \cup {"create_exit"},
         pc' \in Creating => Made[pc'] = Made[pc],
         UNCHANGED <<alive, ptr, acqs, rels, qpState, gidSet, iter, rc, step>>,
         inl' \in 0 .. INLINE_MAX, maxInline' \in 0 .. INLINE_MAX
  PROVE  ResIInv'
<1>1. pc \notin {"destroy", "end"} /\ \A x \in ptr : rels[x] < acqs[x]
  BY MadeFacts DEF ResIInv, HeldUnreleased
<1>2. ResTypeOK' /\ NoDoubleRelease'
  BY MadeFacts DEF ResIInv, ResTypeOK, NoDoubleRelease
<1>3. HeldAsMade' /\ NotStarted' /\ StepReset' /\ HeldUnreleased'
  BY <1>1, MadeFacts DEF ResIInv, HeldAsMade, NotStarted, StepReset, HeldUnreleased
<1>4. QED
  BY <1>1, <1>2, <1>3, EarlyParts DEF ResIInv

(* A step of resources_create whose call creates r: main now holds it too. *)
LEMMA ResIInvCreate ==
  ASSUME NEW r \in Res, ResIInv, pc \in Creating, Created(r),
         pc' \in Creating \cup {"create_exit"},
         pc' \in Creating => Made[pc'] = Made[pc] \cup {r},
         UNCHANGED <<rels, qpState, gidSet, iter, rc, step>>,
         inl' \in 0 .. INLINE_MAX, maxInline' \in 0 .. INLINE_MAX
  PROVE  ResIInv'
<1>1. pc \notin {"destroy", "end"} /\ \A x \in ptr : rels[x] < acqs[x]
  BY MadeFacts DEF ResIInv, HeldUnreleased
<1>2. ResTypeOK /\ NoDoubleRelease /\ HeldAsMade
  BY DEF ResIInv
<1>3. ResTypeOK'
  BY <1>2, MadeFacts DEF ResTypeOK, Created
<1>4. NoDoubleRelease'
  BY <1>2 DEF ResTypeOK, NoDoubleRelease, Created
<1>5. HeldAsMade'
  BY <1>2, MadeFacts DEF HeldAsMade, Created
<1>6. NotStarted' /\ StepReset'
  BY MadeFacts DEF ResIInv, NotStarted, StepReset
<1>7. HeldUnreleased'
  BY <1>1, <1>2 DEF HeldUnreleased, ResTypeOK, NoDoubleRelease, Created
<1>8. QED
  BY <1>1, <1>3, <1>4, <1>5, <1>6, <1>7, EarlyParts DEF ResIInv

(* The four calls of resources_create between ibv_query_port and the QP.   *)
LEMMA ResIInvCreateStep ==
  ASSUME NEW at \in Creating, NEW r \in Res, NEW next \in Creating,
         Made[next] = Made[at] \cup {r},
         ResIInv, CreateStep(at, r, next)
  PROVE  ResIInv'
<1>1. pc = at /\ UNCHANGED <<rels, inl, maxInline, qpState, gidSet, iter, rc, step>>
  BY DEF CreateStep
<1>2. inl' \in 0 .. INLINE_MAX /\ maxInline' \in 0 .. INLINE_MAX
  BY <1>1 DEF ResIInv, ResTypeOK
<1>3. CASE Created(r) /\ pc' = next
  BY <1>1, <1>2, <1>3, ResIInvCreate
<1>4. CASE CreateFails
  <2>1. pc' = "create_exit" /\ UNCHANGED <<alive, ptr, acqs>>
    BY <1>4 DEF CreateFails
  <2>2. pc \in Creating /\ pc' \in Creating \cup {"create_exit"}
        /\ (pc' \in Creating => Made[pc'] = Made[pc])
    BY <1>1, <2>1, MadeFacts
  <2>3. QED
    BY <1>1, <1>2, <2>1, <2>2, ResIInvMove
<1>5. QED
  BY <1>3, <1>4 DEF CreateStep

(* ibv_get_device_list: NULL, an empty list, or a list to search.          *)
LEMMA ResIInvGetDeviceList ==
  ASSUME ResIInv, GetDeviceList
  PROVE  ResIInv'
<1>1. pc = "get_list" /\ UNCHANGED <<rels, inl, maxInline, qpState, gidSet, iter, rc, step>>
  BY DEF GetDeviceList
<1>2. inl' \in 0 .. INLINE_MAX /\ maxInline' \in 0 .. INLINE_MAX /\ pc \in Creating
  BY <1>1, MadeFacts DEF ResIInv, ResTypeOK
<1>3. CASE CreateFails
  <2>1. pc' = "create_exit" /\ UNCHANGED <<alive, ptr, acqs>>
    BY <1>3 DEF CreateFails
  <2>2. pc' \in Creating \cup {"create_exit"} /\ (pc' \in Creating => Made[pc'] = Made[pc])
    BY <2>1, MadeFacts
  <2>3. QED
    BY <1>1, <1>2, <2>1, <2>2, ResIInvMove
<1>4. CASE Created("list") /\ pc' \in {"create_exit", "find_device"}
  <2>1. pc' \in Creating \cup {"create_exit"}
        /\ (pc' \in Creating => Made[pc'] = Made[pc] \cup {"list"})
    BY <1>1, <1>4, MadeFacts
  <2>2. "list" \in Res
    BY DEF Res
  <2>3. QED
    BY <1>1, <1>2, <1>4, <2>1, <2>2, ResIInvCreate
<1>5. QED
  BY <1>3, <1>4 DEF GetDeviceList

(* The search of the list for the device, and ibv_query_port: each moves   *)
(* on or fails without creating anything.                                  *)
LEMMA ResIInvFindQuery ==
  ASSUME ResIInv, FindDevice \/ QueryPort
  PROVE  ResIInv'
<1>1. /\ pc \in {"find_device", "query_port"}
      /\ pc' \in {"open_device", "alloc_pd", "create_exit"}
      /\ pc = "find_device" => pc' \in {"open_device", "create_exit"}
      /\ pc = "query_port" => pc' \in {"alloc_pd", "create_exit"}
      /\ UNCHANGED <<alive, ptr, acqs, rels, inl, maxInline, qpState, gidSet, iter, rc, step>>
  BY DEF FindDevice, QueryPort
<1>2. pc \in Creating /\ pc' \in Creating \cup {"create_exit"}
      /\ (pc' \in Creating => Made[pc'] = Made[pc])
  BY <1>1, MadeFacts
<1>3. inl' \in 0 .. INLINE_MAX /\ maxInline' \in 0 .. INLINE_MAX
  BY <1>1 DEF ResIInv, ResTypeOK
<1>4. QED
  BY <1>1, <1>2, <1>3, ResIInvMove

(* ibv_open_device: on success the context exists and the device list is  *)
(* freed (its one release); on failure, resources_create_exit.             *)
LEMMA ResIInvOpenDevice ==
  ASSUME ResIInv, OpenDevice
  PROVE  ResIInv'
<1>1. pc = "open_device" /\ UNCHANGED <<inl, maxInline, qpState, gidSet, iter, rc, step>>
  BY DEF OpenDevice
<1>2. alive = {"list"} /\ ptr = {"list"} /\ pc \in Creating
      /\ iter = 0 /\ qpState = "RESET" /\ step = 1
  BY <1>1, MadeFacts DEF ResIInv, HeldAsMade, NotStarted, StepReset
<1>3. rels["list"] < acqs["list"] /\ pc \notin {"destroy", "end"}
  BY <1>1, <1>2 DEF ResIInv, HeldUnreleased
<1>4. ResTypeOK /\ NoDoubleRelease
  BY DEF ResIInv
<1>5. inl' \in 0 .. INLINE_MAX /\ maxInline' \in 0 .. INLINE_MAX
  BY <1>1, <1>4 DEF ResTypeOK
<1>6. CASE /\ alive' = (alive \cup {"ctx"}) \ {"list"}
           /\ ptr' = (ptr \cup {"ctx"}) \ {"list"}
           /\ acqs' = [acqs EXCEPT !["ctx"] = @ + 1]
           /\ rels' = [rels EXCEPT !["list"] = @ + 1]
           /\ pc' = "query_port"
  <2>0. "ctx" \in Res /\ "list" \in Res
    BY DEF Res
  <2>1. alive' = {"ctx"} /\ ptr' = {"ctx"}
    BY <1>2, <1>6
  <2>2. ResTypeOK'
    BY <1>1, <1>4, <1>5, <1>6, <2>0, <2>1 DEF ResTypeOK
  <2>3. NoDoubleRelease'
    BY <1>3, <1>4, <1>6, <2>0 DEF ResTypeOK, NoDoubleRelease
  <2>4. HeldAsMade' /\ NotStarted' /\ StepReset'
    BY <1>1, <1>2, <1>6, <2>1, MadeFacts DEF HeldAsMade, NotStarted, StepReset
  <2>5. HeldUnreleased'
    BY <1>4, <1>6, <2>0, <2>1 DEF HeldUnreleased, ResTypeOK, NoDoubleRelease
  <2>6. pc' \in Creating \cup {"create_exit"}
    BY <1>6, MadeFacts
  <2>7. QED
    BY <1>1, <1>3, <2>2, <2>3, <2>4, <2>5, <2>6, EarlyParts DEF ResIInv
<1>7. CASE CreateFails /\ UNCHANGED rels
  <2>1. pc' = "create_exit" /\ UNCHANGED <<alive, ptr, acqs>>
    BY <1>7 DEF CreateFails
  <2>2. pc' \in Creating \cup {"create_exit"} /\ (pc' \in Creating => Made[pc'] = Made[pc])
    BY <2>1, MadeFacts
  <2>3. QED
    BY <1>1, <1>2, <1>5, <1>7, <2>1, <2>2, ResIInvMove
<1>8. QED
  BY <1>6, <1>7 DEF OpenDevice

(* ibv_alloc_pd, ibv_create_cq, malloc and ibv_reg_mr.                     *)
LEMMA ResIInvAllocToReg ==
  ASSUME ResIInv, AllocPd \/ CreateCq \/ MallocBuf \/ RegMr
  PROVE  ResIInv'
<1>1. /\ {"alloc_pd", "create_cq", "malloc_buf", "reg_mr", "create_qp"} \subseteq Creating
      /\ {"pd", "cq", "buf", "mr"} \subseteq Res
      /\ Made.create_cq = Made.alloc_pd \cup {"pd"}
      /\ Made.malloc_buf = Made.create_cq \cup {"cq"}
      /\ Made.reg_mr = Made.malloc_buf \cup {"buf"}
      /\ Made.create_qp = Made.reg_mr \cup {"mr"}
  BY MadeFacts DEF Res
<1>2. CASE AllocPd
  BY <1>1, <1>2, ResIInvCreateStep DEF AllocPd
<1>3. CASE CreateCq
  BY <1>1, <1>3, ResIInvCreateStep DEF CreateCq
<1>4. CASE MallocBuf
  BY <1>1, <1>4, ResIInvCreateStep DEF MallocBuf
<1>5. CASE RegMr
  BY <1>1, <1>5, ResIInvCreateStep DEF RegMr
<1>6. QED
  BY <1>2, <1>3, <1>4, <1>5

(* One round of the ibv_create_qp loop: the QP, or the halved limit and    *)
(* another round or the last try without inline data.                      *)
LEMMA ResIInvCreateQpTry ==
  ASSUME ResIInv, CreateQpTry
  PROVE  ResIInv'
<1>1. pc = "create_qp" /\ UNCHANGED <<rels, qpState, gidSet, iter, rc, step>>
  BY DEF CreateQpTry
<1>2. pc \in Creating /\ inl \in 0 .. INLINE_MAX /\ maxInline \in 0 .. INLINE_MAX
  BY <1>1, MadeFacts DEF ResIInv, ResTypeOK
<1>3. CASE Created("qp") /\ maxInline' = inl /\ pc' = "init_obj" /\ UNCHANGED inl
  <2>1. pc' \in Creating \cup {"create_exit"}
        /\ (pc' \in Creating => Made[pc'] = Made[pc] \cup {"qp"})
    BY <1>1, <1>3, MadeFacts
  <2>2. "qp" \in Res
    BY DEF Res
  <2>3. QED
    BY <1>1, <1>2, <1>3, <2>1, <2>2, ResIInvCreate
<1>4. CASE /\ inl' = inl \div 2
           /\ pc' = IF inl' >= 1 THEN "create_qp" ELSE "create_qp_no_inline"
           /\ maxInline' = IF inl' >= 1 THEN maxInline ELSE 0
           /\ UNCHANGED <<alive, ptr, acqs>>
  <2>1. inl' \in 0 .. INLINE_MAX /\ maxInline' \in 0 .. INLINE_MAX
    BY <1>2, <1>4, ResourcesAssumption
  <2>2. pc' \in {"create_qp", "create_qp_no_inline"}
    BY <1>4
  <2>3. pc' \in Creating \cup {"create_exit"} /\ (pc' \in Creating => Made[pc'] = Made[pc])
    BY <1>1, <2>2, MadeFacts
  <2>4. QED
    BY <1>1, <1>2, <1>4, <2>1, <2>3, ResIInvMove
<1>5. QED
  BY <1>3, <1>4 DEF CreateQpTry

(* The last ibv_create_qp, without inline data, and mlx5dv_init_obj.       *)
LEMMA ResIInvNoInlineInit ==
  ASSUME ResIInv, CreateQpNoInline \/ InitObj
  PROVE  ResIInv'
<1>1. inl' \in 0 .. INLINE_MAX /\ maxInline' \in 0 .. INLINE_MAX
  BY DEF ResIInv, ResTypeOK, CreateQpNoInline, InitObj
<1>2. CASE CreateQpNoInline
  <2>1. pc = "create_qp_no_inline" /\ pc \in Creating
        /\ UNCHANGED <<rels, inl, maxInline, qpState, gidSet, iter, rc, step>>
    BY <1>2, MadeFacts DEF CreateQpNoInline
  <2>2. CASE Created("qp") /\ pc' = "init_obj"
    <3>1. pc' \in Creating \cup {"create_exit"}
          /\ (pc' \in Creating => Made[pc'] = Made[pc] \cup {"qp"})
      BY <2>1, <2>2, MadeFacts
    <3>2. "qp" \in Res
      BY DEF Res
    <3>3. QED
      BY <1>1, <2>1, <2>2, <3>1, <3>2, ResIInvCreate
  <2>3. CASE CreateFails
    <3>1. pc' = "create_exit" /\ UNCHANGED <<alive, ptr, acqs>>
      BY <2>3 DEF CreateFails
    <3>2. pc' \in Creating \cup {"create_exit"} /\ (pc' \in Creating => Made[pc'] = Made[pc])
      BY <3>1, MadeFacts
    <3>3. QED
      BY <1>1, <2>1, <3>1, <3>2, ResIInvMove
  <2>4. QED
    BY <1>2, <2>2, <2>3 DEF CreateQpNoInline
<1>3. CASE InitObj
  <2>1. pc = "init_obj" /\ pc' \in {"connect", "create_exit"}
        /\ UNCHANGED <<alive, ptr, acqs, rels, inl, maxInline, qpState, gidSet, iter, rc, step>>
    BY <1>3 DEF InitObj
  <2>2. pc \in Creating /\ pc' \in Creating \cup {"create_exit"}
        /\ (pc' \in Creating => Made[pc'] = Made[pc])
    BY <2>1, MadeFacts
  <2>3. QED
    BY <1>1, <2>1, <2>2, ResIInvMove
<1>4. QED
  BY <1>2, <1>3

(* What main holds when it connects the QP and writes: the six objects     *)
(* resources_destroy releases, none of them released yet.                  *)
LEMMA HeldAtConnect ==
  ASSUME ResIInv, pc \in {"connect", "write"}
  PROVE  /\ alive = ToDestroy /\ ptr = ToDestroy /\ step = 1
         /\ \A r \in ptr : rels[r] < acqs[r]
         /\ rc = 1
<1>1. step = 1 /\ rc = 1
  BY RcOne DEF ResIInv, StepReset
<1>2. alive = Made.write /\ ptr = Made.write
  BY MadeFacts DEF ResIInv, HeldAsMade
<1>3. ToDestroy = Made.write
  BY <1>1, OrderFacts DEF ToDestroy
<1>4. QED
  BY <1>1, <1>2, <1>3 DEF ResIInv, HeldUnreleased

(* connect_qp_self: on success the writes start on a QP in RTS; on any     *)
(* failure main goes to main_exit with every handle still unreleased.      *)
LEMMA ResIInvConnect ==
  ASSUME ResIInv, Connect
  PROVE  ResIInv'
<1>1. pc = "connect"
      /\ UNCHANGED <<alive, ptr, acqs, rels, inl, maxInline, gidSet, iter, rc, step>>
  BY DEF Connect
<1>2. /\ alive = ToDestroy /\ ptr = ToDestroy /\ step = 1
      /\ \A r \in ptr : rels[r] < acqs[r]
      /\ rc = 1 /\ iter = 0
  BY <1>1, HeldAtConnect, MadeFacts DEF ResIInv, NotStarted
<1>3. PICK o \in ConnectOutcomes :
        /\ qpState' = ReachedState[o]
        /\ pc' = IF o = "ok" THEN "write" ELSE "destroy"
  BY DEF Connect
<1>4. qpState' \in QpStates
  BY <1>3 DEF ConnectOutcomes, ReachedState, QpStates
<1>5. ResTypeOK' /\ NoDoubleRelease'
  BY <1>1, <1>3, <1>4 DEF ResIInv, ResTypeOK, NoDoubleRelease
<1>6. REPEAT \in Nat \ {0}
  BY ResourcesAssumption
<1>7. CASE o = "ok"
  <2>1. pc' = "write" /\ qpState' = "RTS"
    BY <1>3, <1>7 DEF ReachedState
  <2>2. HeldAsMade' /\ NotStarted' /\ HeldUnreleased' /\ StepReset'
    BY <1>1, <1>2, <2>1, MadeFacts DEF ResIInv, HeldAsMade, HeldUnreleased, NotStarted, StepReset
  <2>3. WriteReady'
    BY <1>1, <1>2, <1>6, <2>1 DEF WriteReady
  <2>4. DestroyProgress' /\ RcZero' /\ DestroyClean' /\ EndClean'
    BY <1>1, <1>2, <2>1 DEF DestroyProgress, RcZero, DestroyClean, EndClean
  <2>5. QED
    BY <1>5, <2>2, <2>3, <2>4 DEF ResIInv
<1>8. CASE o # "ok"
  <2>1. pc' = "destroy"
    BY <1>3, <1>8
  <2>2. HeldAsMade' /\ NotStarted' /\ HeldUnreleased' /\ StepReset'
    BY <2>1, MadeFacts DEF HeldAsMade, HeldUnreleased, NotStarted, StepReset
  <2>3. DestroyProgress'
    BY <1>1, <1>2, <2>1, OrderFacts DEF DestroyProgress
  <2>4. WriteReady' /\ RcZero' /\ DestroyClean' /\ EndClean'
    BY <1>1, <1>2, <2>1 DEF WriteReady, RcZero, DestroyClean, EndClean
  <2>5. QED
    BY <1>5, <2>2, <2>3, <2>4 DEF ResIInv
<1>9. QED
  BY <1>7, <1>8

(* One iteration of main's loop: after the last successful write rc is 0   *)
(* and main goes to main_exit holding all six objects.                     *)
LEMMA ResIInvLocalWrite ==
  ASSUME ResIInv, LocalWrite
  PROVE  ResIInv'
<1>1. pc = "write"
      /\ UNCHANGED <<alive, ptr, acqs, rels, inl, maxInline, qpState, gidSet, step>>
  BY DEF LocalWrite
<1>2. /\ alive = ToDestroy /\ ptr = ToDestroy /\ step = 1
      /\ \A r \in ptr : rels[r] < acqs[r]
      /\ rc = 1 /\ qpState = "RTS" /\ iter \in 0 .. REPEAT - 1
  <2>1. /\ alive = ToDestroy /\ ptr = ToDestroy /\ step = 1
        /\ \A r \in ptr : rels[r] < acqs[r]
        /\ rc = 1
    BY <1>1, HeldAtConnect
  <2>2. qpState = "RTS" /\ iter < REPEAT /\ iter \in 0 .. REPEAT
    BY <1>1 DEF ResIInv, WriteReady, ResTypeOK
  <2>3. iter \in 0 .. REPEAT - 1
    BY <2>2, ResourcesAssumption
  <2>4. QED
    BY <2>1, <2>2, <2>3
<1>3. step \in 1 .. Len(DestroyOrder) /\ ToDestroy' = ToDestroy
  BY <1>1, <1>2, OrderFacts DEF ToDestroy
<1>0. pc' \in {"write", "destroy"}
  BY DEF LocalWrite
<1>4. HeldAsMade' /\ NotStarted' /\ StepReset' /\ HeldUnreleased'
  <2>1. alive = Made.write /\ ptr = Made.write
    BY <1>1, MadeFacts DEF ResIInv, HeldAsMade
  <2>2. QED
    BY <1>0, <1>1, <1>2, <2>1, MadeFacts DEF HeldAsMade, NotStarted, StepReset, HeldUnreleased
<1>5. NoDoubleRelease'
  BY <1>1 DEF ResIInv, NoDoubleRelease
<1>6. CASE /\ iter' = iter + 1
           /\ pc' = IF iter + 1 = REPEAT THEN "destroy" ELSE "write"
           /\ rc' = IF iter + 1 = REPEAT THEN 0 ELSE rc
  <2>1. ResTypeOK'
    BY <1>1, <1>2, <1>6, ResourcesAssumption DEF ResIInv, ResTypeOK
  <2>2. CASE iter + 1 = REPEAT
    <3>1. pc' = "destroy" /\ rc' = 0 /\ iter' = REPEAT
      BY <1>6, <2>2
    <3>2. DestroyProgress' /\ RcZero' /\ DestroyClean' /\ EndClean' /\ WriteReady'
      BY <1>1, <1>2, <1>3, <3>1 DEF DestroyProgress, RcZero, DestroyClean, EndClean, WriteReady
    <3>3. QED
      BY <1>4, <1>5, <2>1, <3>2 DEF ResIInv
  <2>3. CASE iter + 1 # REPEAT
    <3>1. pc' = "write" /\ rc' = 1 /\ iter' < REPEAT
      BY <1>2, <1>6, <2>3, ResourcesAssumption
    <3>2. DestroyProgress' /\ RcZero' /\ DestroyClean' /\ EndClean' /\ WriteReady'
      BY <1>1, <1>2, <3>1 DEF DestroyProgress, RcZero, DestroyClean, EndClean, WriteReady
    <3>3. QED
      BY <1>4, <1>5, <2>1, <3>2 DEF ResIInv
  <2>4. QED
    BY <2>2, <2>3
<1>7. CASE pc' = "destroy" /\ UNCHANGED <<iter, rc>>
  <2>1. ResTypeOK'
    BY <1>1, <1>7 DEF ResIInv, ResTypeOK
  <2>2. DestroyProgress' /\ RcZero' /\ DestroyClean' /\ EndClean' /\ WriteReady'
    BY <1>1, <1>2, <1>3, <1>7 DEF DestroyProgress, RcZero, DestroyClean, EndClean, WriteReady
  <2>3. QED
    BY <1>4, <1>5, <2>1, <2>2 DEF ResIInv
<1>8. QED
  BY <1>6, <1>7 DEF LocalWrite

(* A release call takes at most the object and, for ibv_close_device, the  *)
(* objects of the device; when it succeeds the object is gone.             *)
LEMMA ReleasedFacts ==
  ASSUME NEW r \in Res, NEW ok \in BOOLEAN
  PROVE  /\ Released(r, ok) \subseteq alive
         /\ ReleaseOk(r, ok) => Released(r, ok) \subseteq alive \ {r}
BY DEF Released, DeviceObjs

(* After a call of resources_create_exit the invariant holds again if main *)
(* holds only objects it has not released, whether it goes on with the    *)
(* next call or, after the last, to resources_destroy.                     *)
LEMMA CleanupParts ==
  ASSUME ResIInv, pc = "create_exit", pc' \in {"create_exit", "destroy"},
         pc' = "destroy" => step' = 1,
         step' \in 1 .. Len(CleanupOrder), rc' = 1,
         ResTypeOK', NoDoubleRelease',
         \A x \in ptr' : rels'[x] < acqs'[x]
  PROVE  ResIInv'
<1>1. HeldAsMade' /\ NotStarted' /\ StepReset' /\ HeldUnreleased'
  BY MadeFacts DEF HeldAsMade, NotStarted, StepReset, HeldUnreleased
<1>2. DestroyProgress'
  BY OrderFacts DEF DestroyProgress
<1>3. QED
  BY <1>1, <1>2 DEF ResIInv, WriteReady, RcZero, DestroyClean, EndClean

(* One call of resources_create_exit: the handle, if not NULL, is released *)
(* once and set to NULL.                                                   *)
LEMMA ResIInvCleanupStep ==
  ASSUME ResIInv, CleanupStep
  PROVE  ResIInv'
<1> DEFINE r == CleanupOrder[step]
<1>1. /\ pc = "create_exit" /\ step \in 1 .. Len(CleanupOrder) /\ rc = 1
      /\ \A x \in ptr : rels[x] < acqs[x]
  BY RcOne DEF CleanupStep, ResIInv, ResTypeOK, HeldUnreleased
<1>2. UNCHANGED <<acqs, inl, maxInline, qpState, gidSet, iter, rc>>
  BY DEF CleanupStep
<1>3. /\ step' = IF step = Len(CleanupOrder) THEN 1 ELSE step + 1
      /\ pc' = IF step = Len(CleanupOrder) THEN "destroy" ELSE pc
  BY DEF CleanupStep
<1>4. /\ step' \in 1 .. Len(CleanupOrder)
      /\ pc' \in {"create_exit", "destroy"}
      /\ pc' = "destroy" => step' = 1
      /\ r \in Res
  BY <1>1, <1>3, OrderFacts
<1>5. ResTypeOK /\ NoDoubleRelease
  BY DEF ResIInv
<1>6. CASE r \in ptr
  <2>1. PICK ok \in BOOLEAN :
          /\ alive' = Released(r, ok)
          /\ rels' = [rels EXCEPT ![r] = @ + 1]
          /\ ptr' = ptr \ {r}
    BY <1>6 DEF CleanupStep
  <2>2. alive' \subseteq alive
    BY <1>4, <2>1, ReleasedFacts
  <2>3. ResTypeOK'
    BY <1>2, <1>4, <1>5, <2>1, <2>2 DEF ResTypeOK
  <2>4. NoDoubleRelease'
    BY <1>1, <1>2, <1>5, <1>6, <2>1 DEF ResTypeOK, NoDoubleRelease
  <2>5. \A x \in ptr' : rels'[x] < acqs'[x]
    BY <1>1, <1>2, <1>5, <2>1 DEF ResTypeOK
  <2>6. QED
    BY <1>1, <1>2, <1>4, <2>3, <2>4, <2>5, CleanupParts
<1>7. CASE r \notin ptr
  <2>1. UNCHANGED <<alive, rels, ptr>>
    BY <1>7 DEF CleanupStep
  <2>2. ResTypeOK' /\ NoDoubleRelease'
    BY <1>2, <1>4, <1>5, <2>1 DEF ResTypeOK, NoDoubleRelease
  <2>3. \A x \in ptr' : rels'[x] < acqs'[x]
    BY <1>1, <1>2, <2>1
  <2>4. QED
    BY <1>1, <1>2, <1>4, <2>2, <2>3, CleanupParts
<1>8. QED
  BY <1>6, <1>7

(* What resources_destroy still has to visit, once past its call k.       *)
LEMMA ToDestroyTail ==
  ASSUME NEW k \in 1 .. Len(DestroyOrder)
  PROVE  {DestroyOrder[j] : j \in k .. Len(DestroyOrder)} \ {DestroyOrder[k]}
           \subseteq {DestroyOrder[j] : j \in k + 1 .. Len(DestroyOrder)}
BY OrderFacts

(* One call of resources_destroy.  The object it visits was not released   *)
(* before (each object appears once in its list, and the handles of       *)
(* objects released earlier are NULL); with rc still 0 the call succeeded  *)
(* and the object is gone.                                                 *)
LEMMA ResIInvDestroyStep ==
  ASSUME ResIInv, DestroyStep
  PROVE  ResIInv'
<1> DEFINE r == DestroyOrder[step]
           Ahead == {DestroyOrder[j] : j \in step + 1 .. Len(DestroyOrder)}
<1>1. /\ pc = "destroy" /\ step \in 1 .. Len(DestroyOrder)
      /\ \A x \in ptr : rels[x] < acqs[x] \/ \E j \in 1 .. step - 1 : DestroyOrder[j] = x
      /\ rc = 0 => alive \subseteq ptr \cap ToDestroy /\ iter = REPEAT
  BY DEF DestroyStep, ResIInv, DestroyProgress, DestroyClean, RcZero
<1>2. UNCHANGED <<ptr, acqs, inl, maxInline, qpState, gidSet, iter>>
  BY DEF DestroyStep
<1>3. /\ step' = IF step = Len(DestroyOrder) THEN 1 ELSE step + 1
      /\ pc' = IF step = Len(DestroyOrder) THEN "end" ELSE pc
  BY DEF DestroyStep
<1>4. r \in Res /\ Len(DestroyOrder) = 6
      /\ ToDestroy \ {r} \subseteq Ahead
  BY <1>1, OrderFacts, ToDestroyTail DEF ToDestroy
<1>5. ResTypeOK /\ NoDoubleRelease
  BY DEF ResIInv
<1>6. /\ alive' \subseteq alive /\ rels' \in [Res -> Nat] /\ NoDoubleRelease'
      /\ rc' \in {0, 1}
      /\ rc' = 0 => rc = 0 /\ alive' \subseteq ptr \cap Ahead
      /\ \A x \in ptr : rels'[x] < acqs[x] \/ \E j \in 1 .. step : DestroyOrder[j] = x
  <2>1. CASE r \in ptr
    <3>1. PICK ok \in BOOLEAN :
            /\ alive' = Released(r, ok)
            /\ rels' = [rels EXCEPT ![r] = @ + 1]
            /\ rc' = IF ReleaseOk(r, ok) THEN rc ELSE 1
      BY <2>1 DEF DestroyStep
    <3>2. rels[r] < acqs[r]
      <4>1. ~\E j \in 1 .. step - 1 : DestroyOrder[j] = r
        BY <1>1, OrderFacts
      <4>2. QED
        BY <1>1, <2>1, <4>1
    <3>3. alive' \subseteq alive /\ (ReleaseOk(r, ok) => alive' \subseteq alive \ {r})
      BY <1>4, <3>1, ReleasedFacts
    <3>4. rels' \in [Res -> Nat] /\ NoDoubleRelease'
      BY <1>2, <1>4, <1>5, <3>1, <3>2 DEF ResTypeOK, NoDoubleRelease
    <3>5. rc' \in {0, 1} /\ (rc' = 0 => rc = 0 /\ alive' \subseteq ptr \cap Ahead)
      BY <1>1, <1>4, <1>5, <3>1, <3>3 DEF ResTypeOK
    <3>6. \A x \in ptr : rels'[x] < acqs[x] \/ \E j \in 1 .. step : DestroyOrder[j] = x
      BY <1>1, <1>5, <3>1 DEF ResTypeOK
    <3>7. QED
      BY <3>3, <3>4, <3>5, <3>6
  <2>2. CASE r \notin ptr
    <3>1. UNCHANGED <<alive, rels, rc>>
      BY <2>2 DEF DestroyStep
    <3>2. rc = 0 => alive \subseteq ptr \cap Ahead
      BY <1>1, <1>4, <2>2
    <3>3. \A x \in ptr : rels'[x] < acqs[x] \/ \E j \in 1 .. step : DestroyOrder[j] = x
      BY <1>1, <3>1
    <3>4. QED
      BY <1>2, <1>5, <3>1, <3>2, <3>3 DEF ResTypeOK, NoDoubleRelease
  <2>3. QED
    BY <2>1, <2>2
<1>7. ResTypeOK'
  <2>1. step' \in 1 .. Len(CleanupOrder) /\ pc' \in {"destroy", "end"}
    BY <1>1, <1>3, OrderFacts
  <2>2. QED
    BY <1>2, <1>5, <1>6, <2>1 DEF ResTypeOK
<1>8. HeldAsMade' /\ NotStarted' /\ HeldUnreleased' /\ WriteReady'
  BY <1>1, <1>3, MadeFacts DEF HeldAsMade, NotStarted, HeldUnreleased, WriteReady
<1>9. RcZero'
  BY <1>1, <1>2, <1>3, <1>6 DEF RcZero
<1>10. CASE step = Len(DestroyOrder)
  <2>1. pc' = "end" /\ step' = 1 /\ Ahead = {}
    BY <1>3, <1>4, <1>10
  <2>2. StepReset' /\ DestroyProgress' /\ DestroyClean'
    BY <2>1 DEF StepReset, DestroyProgress, DestroyClean
  <2>3. EndClean'
    BY <1>6, <2>1 DEF EndClean
  <2>4. QED
    BY <1>6, <1>7, <1>8, <1>9, <2>2, <2>3 DEF ResIInv
<1>11. CASE step # Len(DestroyOrder)
  <2>1. pc' = "destroy" /\ step' = step + 1 /\ step' \in 1 .. Len(DestroyOrder)
    BY <1>1, <1>3, <1>11
  <2>2. ToDestroy' = Ahead
    BY <2>1 DEF ToDestroy
  <2>3. DestroyProgress'
    <3>1. 1 .. step' - 1 = 1 .. step
      BY <1>1, <2>1
    <3>2. \A x \in ptr' : rels'[x] < acqs'[x] \/ \E j \in 1 .. step' - 1 : DestroyOrder[j] = x
      BY <1>2, <1>6, <3>1
    <3>3. QED
      BY <2>1, <3>2 DEF DestroyProgress
  <2>4. DestroyClean'
    BY <1>2, <1>6, <2>1, <2>2 DEF DestroyClean
  <2>5. StepReset' /\ EndClean'
    BY <2>1 DEF StepReset, EndClean
  <2>6. QED
    BY <1>6, <1>7, <1>8, <1>9, <2>3, <2>4, <2>5 DEF ResIInv
<1>12. QED
  BY <1>10, <1>11

(* A stuttering step keeps the strengthened invariant.                     *)
LEMMA ResIInvStutter ==
  ASSUME ResIInv, UNCHANGED vars
  PROVE  ResIInv'
BY DEF vars, ResIInv, ResTypeOK, NoDoubleRelease, HeldAsMade, NotStarted,
   HeldUnreleased, StepReset, DestroyProgress, WriteReady, RcZero,
   DestroyClean, EndClean, ToDestroy

(* Every step of main keeps the strengthened invariant.                    *)
LEMMA ResIInvNext == ResIInv /\ [Next]_vars => ResIInv'
<1> SUFFICES ASSUME ResIInv, [Next]_vars PROVE ResIInv'
  OBVIOUS
<1>1. CASE GetDeviceList
  BY <1>1, ResIInvGetDeviceList
<1>2. CASE FindDevice \/ QueryPort
  BY <1>2, ResIInvFindQuery
<1>3. CASE OpenDevice
  BY <1>3, ResIInvOpenDevice
<1>4. CASE AllocPd \/ CreateCq \/ MallocBuf \/ RegMr
  BY <1>4, ResIInvAllocToReg
<1>5. CASE CreateQpTry
  BY <1>5, ResIInvCreateQpTry
<1>6. CASE CreateQpNoInline \/ InitObj
  BY <1>6, ResIInvNoInlineInit
<1>7. CASE CleanupStep
  BY <1>7, ResIInvCleanupStep
<1>8. CASE Connect
  BY <1>8, ResIInvConnect
<1>9. CASE LocalWrite
  BY <1>9, ResIInvLocalWrite
<1>10. CASE DestroyStep
  BY <1>10, ResIInvDestroyStep
<1>11. CASE UNCHANGED vars
  BY <1>11, ResIInvStutter
<1>12. QED
  BY <1>1, <1>2, <1>3, <1>4, <1>5, <1>6, <1>7, <1>8, <1>9, <1>10, <1>11 DEF Next

(* The strengthened invariant holds in every state of main.                *)
LEMMA ResIInvAlways == Spec => []ResIInv
BY ResIInvInit, ResIInvNext, PTL DEF Spec

(* Type correctness of main's state: every counter stays in its range,     *)
(* the write loop's i never passes repeat_count.                           *)
THEOREM ResTypeCorrect == Spec => []ResTypeOK
<1>1. ResIInv => ResTypeOK
  BY DEF ResIInv
<1>2. QED
  BY <1>1, ResIInvAlways, PTL

(* No verbs object, buffer or device list is released twice: the handles  *)
(* resources_create_exit sets to NULL are skipped by main_exit's           *)
(* resources_destroy, whatever each release call returned.                 *)
THEOREM ReleasedOnce == Spec => []NoDoubleRelease
<1>1. ResIInv => NoDoubleRelease
  BY DEF ResIInv
<1>2. QED
  BY <1>1, ResIInvAlways, PTL

(* main posts RDMA writes only once connect_qp_self has brought the QP to  *)
(* RTS, and only with the QP, MR, buffer, CQ and PD alive.                 *)
THEOREM WritesOnlyOnRts == Spec => []WritesOnRts
<1>1. ResIInv => WritesOnRts
  <2> SUFFICES ASSUME ResIInv, pc = "write"
               PROVE  qpState = "RTS" /\ {"qp", "mr", "buf", "cq", "pd"} \subseteq alive
    BY DEF WritesOnRts
  <2>1. alive = Made.write
    BY MadeFacts DEF ResIInv, HeldAsMade
  <2>2. QED
    BY <2>1, MadeFacts DEF ResIInv, WriteReady
<1>2. QED
  BY <1>1, ResIInvAlways, PTL

(* main returns 0 only when all repeat_count writes succeeded and every    *)
(* object was released: any failed release in resources_destroy makes it  *)
(* return 1.                                                               *)
THEOREM ResultIsSound == Spec => []ResultSound
<1>1. ResIInv => ResultSound
  BY DEF ResIInv, RcZero, EndClean, ResultSound
<1>2. QED
  BY <1>1, ResIInvAlways, PTL

====
