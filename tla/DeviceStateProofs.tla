-------------------------- MODULE DeviceStateProofs --------------------------
(***************************************************************************)
(* Proofs about the device state and the prepare count of DeviceLifecycle, *)
(* and about the driver handle each driver call receives, built on the    *)
(* refcount invariant IInv of DeviceLifecycleProofs.                        *)
(***************************************************************************)
EXTENDS DeviceLifecycleProofs

(* The client stages reached through a successful device_prepare.         *)
PreparedStages == {"prepared", "started", "stopped"}

(* The device states at or after PREPARED in enum device_state.           *)
PreparedStates == {"PREPARED", "STARTED", "STOPPED"}

(* What the stages say about the state and the prepare count:             *)
(*  - the first preparer calls pcm_prepare with refcnt.prepare still 0;    *)
(*  - a session that has prepared is counted in refcnt.prepare, which     *)
(*    is reset only by the last close;                                     *)
(*  - a non-zero prepare count means the device is prepared (or further)  *)
(*    and some session still holds it;                                     *)
(*  - a non-zero start count means the device is STARTED.                  *)
PInv ==
    /\ \A u \in Clients : pc[u] = "prepare_pcm" => refcnt.prepare = 0
    /\ \A u \in Clients : cs[u] \in PreparedStages => refcnt.prepare # 0
    /\ refcnt.prepare # 0 =>
           /\ state \in PreparedStates
           /\ \E u \in Clients : cs[u] # "idle"
    /\ refcnt.start # 0 => state = "STARTED"

(* No prepare count wraps: fewer prepares accumulate while the device     *)
(* stays open than the width of refcnt.prepare can count.                 *)
NoPrepareWrap == MaxPrepare < CounterMod

(* A refcount is non-zero exactly when some session is counted in it.     *)
LEMMA CountsNonZero ==
    ASSUME WellBehaved, IInv
    PROVE  /\ refcnt.open # 0 <=> HeldBy # {}
           /\ refcnt.start # 0 <=> StartedBy # {}
<1>1. refcnt.open = Cardinality(HeldBy) /\ refcnt.start = Cardinality(StartedBy)
  BY DEF IInv, RefcountMatchesClients, HeldBy, StartedBy
<1>2. IsFiniteSet(HeldBy) /\ IsFiniteSet(StartedBy)
  BY SessionSetBound DEF HeldBy, StartedBy
<1>3. QED
  BY <1>1, <1>2, FS_EmptySet

(* The first opener's driver call runs while no session holds the device. *)
LEMMA AllIdleAtOpen ==
    ASSUME WellBehaved, IInv, NEW t \in Clients, pc[t] = "open_pcm"
    PROVE  \A u \in Clients : cs[u] = "idle"
<1>1. \A u \in Clients \ {t} : pc[u] = "idle"
  BY WindowAlone DEF IInv, Windows
<1>2. Closing = {} /\ refcnt.open = 0 /\ cs[t] = "idle"
  BY <1>1 DEF Closing, IInv, Control
<1>3. HeldBy = {}
  BY <1>2, CountsNonZero
<1>4. QED
  BY <1>2, <1>3 DEF HeldBy

(* The state ranks of the prepared states.                                 *)
LEMMA RankPrepared ==
    ASSUME NEW s \in DevStates
    PROVE  Rank[s] >= Rank["PREPARED"] <=> s \in PreparedStates
BY DEF Rank, DevStates, PreparedStates

(* The calloc'd device object: nothing prepared or started.               *)
LEMMA InitPInv == Init => PInv
BY DEF Init, PInv, PreparedStages

(* The driver call of a thread other than the first preparer leaves the   *)
(* first conjunct of PInv vacuous: every other thread is outside a call.  *)
LEMMA NoPreparerAfter ==
    ASSUME IInv, NEW t \in Clients, pc[t] \in Windows,
           pc' = [pc EXCEPT ![t] = "idle"]
    PROVE  \A u \in Clients : pc'[u] # "prepare_pcm"
BY WindowAlone DEF IInv, TypeOK

(* device_open: the caller is idle and takes no prepared stage; the state *)
(* and the prepare and start counts are left alone.                        *)
LEMMA OpenStepP ==
    ASSUME WellBehaved, IInv, PInv, NEW t \in Clients, device_open(t)
    PROVE  PInv'
<1>1. \A u \in Clients : pc[u] = "idle"
  BY LockFreeAllIdle DEF device_open, Call, IInv
<1>2. /\ pc'[t] \in {"idle", "open_pcm"}
      /\ cs[t] = "idle" /\ cs'[t] \in {"idle", "opened"}
      /\ \A u \in Clients \ {t} : pc'[u] = pc[u] /\ cs'[u] = cs[u]
  BY <1>1 DEF device_open, MayOpen, IInv, TypeOK
<1>3. /\ state' = state
      /\ refcnt'.prepare = refcnt.prepare /\ refcnt'.start = refcnt.start
  BY DEF device_open, IInv, TypeOK
<1>4. QED
  BY <1>1, <1>2, <1>3 DEF PInv, PreparedStages

(* The first opener's driver call: nobody holds the device, so nothing is *)
(* prepared or started, and OPENED is what the state should become.       *)
LEMMA OpenPcmStepP ==
    ASSUME WellBehaved, IInv, PInv, NEW t \in Clients, device_open_pcm(t)
    PROVE  PInv'
<1>1. \A u \in Clients : cs[u] = "idle"
  BY AllIdleAtOpen DEF device_open_pcm
<1>2. refcnt.prepare = 0
  BY <1>1 DEF PInv
<1>3. refcnt.start = 0
  <2>1. StartedBy = {}
    BY <1>1 DEF StartedBy
  <2>2. QED
    BY <2>1, CountsNonZero
<1>4. /\ refcnt'.prepare = 0 /\ refcnt'.start = 0
      /\ cs'[t] \in {"idle", "opened"}
      /\ \A u \in Clients \ {t} : cs'[u] = cs[u]
  <2>1. CASE /\ refcnt' = [refcnt EXCEPT !.open = Inc(@)]
             /\ cs' = [cs EXCEPT ![t] = "opened"]
    <3>1. refcnt'.prepare = 0 /\ refcnt'.start = 0
      BY <1>2, <1>3, <2>1, Zenon DEF IInv, TypeOK
    <3>2. cs'[t] = "opened" /\ \A u \in Clients \ {t} : cs'[u] = cs[u]
      BY <2>1 DEF IInv, TypeOK
    <3>3. QED
      BY <3>1, <3>2
  <2>2. CASE UNCHANGED <<refcnt, cs>>
    BY <1>1, <1>2, <1>3, <2>2 DEF IInv, TypeOK
  <2>3. QED
    BY <2>1, <2>2 DEF device_open_pcm
<1>5. \A u \in Clients : pc'[u] # "prepare_pcm"
  BY NoPreparerAfter DEF device_open_pcm, Windows
<1>6. QED
  BY <1>1, <1>4, <1>5 DEF PInv, PreparedStages

(* device_prepare: a later preparer counts itself (the count does not     *)
(* wrap), the first one takes the lock with the count still 0.            *)
LEMMA PrepareStepP ==
    ASSUME WellBehaved, NoPrepareWrap, IInv, PInv, NEW t \in Clients,
           device_prepare(t)
    PROVE  PInv'
<1>1. \A u \in Clients : pc[u] = "idle"
  BY LockFreeAllIdle DEF device_prepare, Call, IInv
<1>2. /\ cs[t] \in {"opened", "stopped"}
      /\ refcnt.prepare \in Nat /\ refcnt.prepare < MaxPrepare
      /\ state' = state /\ refcnt'.start = refcnt.start
  BY DEF device_prepare, MayPrepare, IInv, TypeOK, Counter
<1>3. CASE refcnt.prepare # 0
  <2>1. refcnt'.prepare = refcnt.prepare + 1
    <3>1. refcnt' = [refcnt EXCEPT !.prepare = Inc(@)]
      BY <1>3 DEF device_prepare
    <3>2. refcnt.prepare + 1 < CounterMod
      BY <1>2, ConstantsAssumption DEF NoPrepareWrap
    <3>3. Inc(refcnt.prepare) = refcnt.prepare + 1
      BY <1>2, <3>2, IncExact
    <3>4. QED
      BY <3>1, <3>3 DEF IInv, TypeOK
  <2>2. /\ cs' = [cs EXCEPT ![t] = "prepared"]
        /\ pc' = pc
    BY <1>3 DEF device_prepare
  <2>3. state \in PreparedStates
    BY <1>3 DEF PInv
  <2>4. QED
    BY <1>1, <1>2, <2>1, <2>2, <2>3 DEF PInv, PreparedStages, IInv, TypeOK
<1>4. CASE refcnt.prepare = 0
  <2>1. /\ pc' = [pc EXCEPT ![t] = "prepare_pcm"]
        /\ UNCHANGED <<refcnt, cs>>
    BY <1>4 DEF device_prepare
  <2>2. QED
    BY <1>1, <1>2, <1>4, <2>1 DEF PInv, IInv, TypeOK
<1>5. QED
  BY <1>3, <1>4

(* The first preparer's driver call: with the prepare count 0 no session *)
(* has prepared, so none is started either; success makes the device      *)
(* PREPARED and counts the caller.                                         *)
LEMMA PreparePcmStepP ==
    ASSUME WellBehaved, IInv, PInv, NEW t \in Clients, device_prepare_pcm(t)
    PROVE  PInv'
<1>1. refcnt.prepare = 0
  BY DEF device_prepare_pcm, PInv
<1>2. \A u \in Clients : cs[u] \notin PreparedStages
  BY <1>1 DEF PInv
<1>3. refcnt.start = 0
  <2>1. StartedBy = {}
    BY <1>2 DEF StartedBy, PreparedStages
  <2>2. QED
    BY <2>1, CountsNonZero
<1>4. \A u \in Clients : pc'[u] # "prepare_pcm"
  BY NoPreparerAfter DEF device_prepare_pcm, Windows
<1>5. CASE /\ state' = "PREPARED"
           /\ refcnt' = [refcnt EXCEPT !.prepare = Inc(@)]
           /\ cs' = [cs EXCEPT ![t] = "prepared"]
  <2>1. refcnt'.prepare = 1 /\ refcnt'.start = 0
    BY <1>1, <1>3, <1>5, ConstantsAssumption DEF Inc, IInv, TypeOK
  <2>2. cs'[t] = "prepared"
    BY <1>5 DEF IInv, TypeOK
  <2>3. QED
    BY <1>4, <1>5, <2>1, <2>2 DEF PInv, PreparedStates
<1>6. CASE UNCHANGED <<state, refcnt, cs>>
  BY <1>1, <1>2, <1>3, <1>4, <1>6 DEF PInv
<1>7. QED
  BY <1>5, <1>6 DEF device_prepare_pcm

(* device_start: a counted start needs a prepared device and a prepared   *)
(* caller, and leaves the device STARTED (it already was if others had    *)
(* started it).                                                             *)
LEMMA StartStepP ==
    ASSUME WellBehaved, IInv, PInv, NEW t \in Clients, device_start(t)
    PROVE  PInv'
<1>1. /\ \A u \in Clients : pc[u] = "idle"
      /\ pc' = pc
      /\ cs[t] \in {"prepared", "stopped"}
  BY LockFreeAllIdle DEF device_start, Call, MayStart, WellBehaved, IInv
<1>2. CASE UNCHANGED <<state, refcnt, cs>>
  BY <1>1, <1>2 DEF PInv
<1>3. CASE /\ Rank[state] >= Rank["PREPARED"]
           /\ state' = IF refcnt.start # 0 THEN state ELSE "STARTED"
           /\ refcnt' = [refcnt EXCEPT !.start = Inc(@)]
           /\ cs' = [cs EXCEPT ![t] = "started"]
  <2>1. state' = "STARTED"
    BY <1>3 DEF PInv
  <2>2. refcnt'.prepare = refcnt.prepare /\ refcnt.prepare # 0
    BY <1>1, <1>3, Zenon DEF IInv, TypeOK, PInv, PreparedStages
  <2>3. cs'[t] = "started" /\ \A u \in Clients \ {t} : cs'[u] = cs[u]
    BY <1>3 DEF IInv, TypeOK
  <2>4. QED
    BY <1>1, <2>1, <2>2, <2>3 DEF PInv, PreparedStates
<1>4. QED
  BY <1>2, <1>3 DEF device_start

(* device_stop by a started session: the state stays STARTED while the     *)
(* count is non-zero; the last stopper enters its driver call at 0.       *)
LEMMA StopStepP ==
    ASSUME WellBehaved, IInv, PInv, NEW t \in Clients, device_stop(t)
    PROVE  PInv'
<1>1. /\ \A u \in Clients : pc[u] = "idle"
      /\ cs[t] = "started"
  BY LockFreeAllIdle DEF device_stop, Call, MayStop, WellBehaved, IInv
<1>2. /\ state' = state
      /\ refcnt'.prepare = refcnt.prepare
      /\ refcnt'.start # 0 => refcnt.start # 0
      /\ \A u \in Clients : pc'[u] # "prepare_pcm"
      /\ cs'[t] \in {"started", "stopped"}
      /\ \A u \in Clients \ {t} : cs'[u] = cs[u]
  <2>1. CASE refcnt.start = 0
    BY <1>1, <2>1 DEF device_stop
  <2>2. CASE /\ refcnt' = [refcnt EXCEPT !.start = Dec(@)]
             /\ Dec(refcnt.start) = 0
             /\ pc' = [pc EXCEPT ![t] = "stop_pcm"]
             /\ UNCHANGED cs
    <3>1. refcnt'.prepare = refcnt.prepare /\ refcnt'.start = 0
      BY <2>2, Zenon DEF IInv, TypeOK
    <3>2. QED
      BY <1>1, <2>2, <3>1 DEF device_stop, IInv, TypeOK
  <2>3. CASE /\ refcnt.start # 0
             /\ refcnt' = [refcnt EXCEPT !.start = Dec(@)]
             /\ cs' = [cs EXCEPT ![t] = Stopped(@)]
             /\ UNCHANGED pc
    <3>1. refcnt'.prepare = refcnt.prepare
      BY <2>3, Zenon DEF IInv, TypeOK
    <3>2. QED
      BY <1>1, <2>3, <3>1 DEF device_stop, IInv, TypeOK, Stopped
  <2>4. QED
    BY <2>1, <2>2, <2>3 DEF device_stop
<1>3. refcnt.prepare # 0
  BY <1>1 DEF PInv, PreparedStages
<1>4. QED
  BY <1>1, <1>2, <1>3 DEF PInv, PreparedStages

(* The last stopper's driver call: the device becomes STOPPED with no     *)
(* session started, and the caller moves to the stopped stage.             *)
LEMMA StopPcmStepP ==
    ASSUME WellBehaved, IInv, PInv, NEW t \in Clients, device_stop_pcm(t)
    PROVE  PInv'
<1>1. cs[t] = "started" /\ refcnt.start = 0
  BY DEF device_stop_pcm, IInv, Control
<1>2. refcnt.prepare # 0
  BY <1>1 DEF PInv, PreparedStages
<1>3. /\ state' = "STOPPED" /\ refcnt' = refcnt
      /\ cs'[t] = "stopped" /\ \A u \in Clients \ {t} : cs'[u] = cs[u]
  BY <1>1 DEF device_stop_pcm, Stopped, IInv, TypeOK
<1>4. \A u \in Clients : pc'[u] # "prepare_pcm"
  BY NoPreparerAfter DEF device_stop_pcm, Windows
<1>5. QED
  BY <1>1, <1>2, <1>3, <1>4 DEF PInv, PreparedStates

(* A close that is not the last leaves another session holding the        *)
(* device: the count was above 1 and counts the caller.                    *)
LEMMA OtherHolder ==
    ASSUME WellBehaved, IInv, NEW t \in Clients, t \in HeldBy,
           Dec(refcnt.open) # 0
    PROVE  \E u \in HeldBy : u # t
<1>1. refcnt.open = Cardinality(HeldBy)
  BY DEF IInv, RefcountMatchesClients, HeldBy
<1>2. refcnt.open # 1
  BY ConstantsAssumption DEF Dec
<1>3. HeldBy # {t}
  BY <1>1, <1>2, FS_Singleton
<1>4. QED
  BY <1>3

(* device_close by a session holding the device: the caller goes idle    *)
(* unless it is the last closer, which enters its driver call; another    *)
(* session still holds the device when the count stays non-zero.          *)
LEMMA CloseStepP ==
    ASSUME WellBehaved, IInv, PInv, NEW t \in Clients, device_close(t)
    PROVE  PInv'
<1>1. /\ \A u \in Clients : pc[u] = "idle"
      /\ Closing = {}
      /\ cs[t] \in {"opened", "prepared", "stopped"}
  BY LockFreeAllIdle DEF device_close, Call, MayClose, WellBehaved, IInv
<1>2. /\ state' = state
      /\ refcnt'.prepare = refcnt.prepare /\ refcnt'.start = refcnt.start
  BY Zenon DEF device_close, IInv, TypeOK
<1>3. CASE /\ Dec(refcnt.open) = 0
           /\ pc' = [pc EXCEPT ![t] = "close_pcm"]
           /\ UNCHANGED cs
  BY <1>1, <1>2, <1>3 DEF PInv, IInv, TypeOK
<1>4. CASE /\ Dec(refcnt.open) # 0
           /\ cs' = [cs EXCEPT ![t] = "idle"]
           /\ UNCHANGED pc
  <2>1. t \in HeldBy
    BY <1>1 DEF HeldBy
  <2>2. PICK u \in HeldBy : u # t
    BY <1>4, <2>1, OtherHolder
  <2>3. u \in Clients /\ cs'[u] # "idle"
    BY <1>1, <1>4, <2>2 DEF HeldBy, IInv, TypeOK
  <2>4. \A v \in Clients : cs'[v] \in PreparedStages => cs[v] \in PreparedStages
    BY <1>4 DEF IInv, TypeOK, PreparedStages
  <2>5. QED
    BY <1>1, <1>2, <1>4, <2>3, <2>4 DEF PInv
<1>5. QED
  BY <1>3, <1>4 DEF device_close

(* The last closer's driver call: every session is idle afterwards and    *)
(* the prepare and start counts are reset.                                 *)
LEMMA ClosePcmStepP ==
    ASSUME WellBehaved, IInv, PInv, NEW t \in Clients, device_close_pcm(t)
    PROVE  PInv'
<1>1. \A u \in Clients : cs'[u] = "idle"
  <2>1. ReleaseStep
    BY ClosePcmRelease
  <2>2. liveHandles' < liveHandles
    BY DEF device_close_pcm, IInv, TypeOK
  <2>3. QED
    BY <2>1, <2>2 DEF ReleaseStep
<1>2. refcnt'.prepare = 0 /\ refcnt'.start = 0
  BY Zenon DEF device_close_pcm, IInv, TypeOK
<1>3. \A u \in Clients : pc'[u] # "prepare_pcm"
  BY NoPreparerAfter DEF device_close_pcm, Windows
<1>4. QED
  BY <1>1, <1>2, <1>3 DEF PInv, PreparedStages

(* Every step of a well-behaved configuration preserves PInv.             *)
LEMMA NextPInv ==
    ASSUME WellBehaved, NoPrepareWrap, IInv, PInv, [Next]_vars
    PROVE  PInv'
<1>1. CASE Next
  <2>1. PICK t \in Clients :
          \/ device_open(t)    \/ device_open_pcm(t)
          \/ device_open_snd_pcm(t)
          \/ device_prepare(t) \/ device_prepare_pcm(t)
          \/ device_start(t)
          \/ device_stop(t)    \/ device_stop_pcm(t)
          \/ device_close(t)   \/ device_close_pcm(t)
          \/ device_set_params(t)
          \/ device_set_params_free(t) \/ device_set_params_null(t)
          \/ device_set_params_alloc(t)
    BY <1>1 DEF Next
  <2>2. QED
    BY <2>1, OpenStepP, OpenPcmStepP, PrepareStepP, PreparePcmStepP,
       StartStepP, StopStepP, StopPcmStepP, CloseStepP, ClosePcmStepP,
       SetParamsStep, AlsaOpenStep
<1>2. CASE UNCHANGED vars
  BY <1>2 DEF vars, PInv
<1>3. QED
  BY <1>1, <1>2

(* IInv and PInv together hold in every reachable state.                  *)
LEMMA AlwaysStateInv ==
    ASSUME WellBehaved, NoPrepareWrap
    PROVE  Spec => [](IInv /\ PInv)
<1>1. Init => IInv /\ PInv
  BY InitIInv, InitPInv
<1>2. IInv /\ PInv /\ [Next]_vars => IInv' /\ PInv'
  BY NextIInv, NextPInv
<1>3. QED
  BY <1>1, <1>2, PTL DEF Spec

(* The invariants give DeviceInvariants.                                   *)
LEMMA DeviceInvariantsFromInv ==
    ASSUME WellBehaved, IInv, PInv
    PROVE  DeviceInvariants
<1>1. ASSUME Closing = {}, refcnt.prepare # 0
      PROVE  refcnt.open # 0
  <2>1. PICK u \in Clients : cs[u] # "idle"
    BY <1>1 DEF PInv
  <2>2. u \in HeldBy
    BY <1>1, <2>1 DEF HeldBy
  <2>3. QED
    BY <2>2, CountsNonZero
<1>2. ASSUME Closing = {}, refcnt.open = 0
      PROVE  refcnt.prepare = 0 /\ refcnt.start = 0
  <2>1. HeldBy = {}
    BY <1>2, CountsNonZero
  <2>2. \A u \in Clients : cs[u] = "idle"
    BY <1>2, <2>1 DEF HeldBy
  <2>3. refcnt.prepare = 0
    BY <2>2 DEF PInv
  <2>4. StartedBy = {}
    BY <2>2 DEF StartedBy
  <2>5. QED
    BY <2>3, <2>4, CountsNonZero
<1>3. refcnt.start # 0 => state = "STARTED"
  BY DEF PInv
<1>4. QED
  BY <1>1, <1>2, <1>3 DEF DeviceInvariants

(* The invariants give StartNeverRefused.                                  *)
LEMMA StartNeverRefusedFromInv ==
    ASSUME IInv, PInv
    PROVE  StartNeverRefused
<1>1. SUFFICES ASSUME NEW t \in Clients, cs[t] \in {"prepared", "stopped"}
               PROVE  Rank[state] >= Rank["PREPARED"]
  BY DEF StartNeverRefused
<1>2. state \in PreparedStates /\ state \in DevStates
  BY <1>1 DEF PInv, PreparedStages, IInv, TypeOK
<1>3. QED
  BY <1>2, RankPrepared

(* For protocol-following sessions of the tinyalsa build, with no          *)
(* device_set_params caller and fewer prepares per open than the width of *)
(* refcnt.prepare: a non-zero prepare or start count is only seen while   *)
(* the device is open, and a non-zero start count means STARTED (the      *)
(* invariants stated for struct device_obj's refcnt).                      *)
THEOREM DeviceInvariantsCorrect ==
    ASSUME WellBehaved, NoPrepareWrap
    PROVE  Spec => []DeviceInvariants
<1>1. IInv /\ PInv => DeviceInvariants
  BY DeviceInvariantsFromInv
<1>2. QED
  BY <1>1, AlwaysStateInv, PTL

(* Under the same hypotheses device_start never refuses (-EINVAL on a     *)
(* state below PREPARED) a session that has prepared the device and not  *)
(* closed it, whatever the other sessions did meanwhile: device_start of  *)
(* a stopped session after another one's stop and prepare included.      *)
THEOREM StartNeverRefusedCorrect ==
    ASSUME WellBehaved, NoPrepareWrap
    PROVE  Spec => []StartNeverRefused
<1>1. IInv /\ PInv => StartNeverRefused
  BY StartNeverRefusedFromInv
<1>2. QED
  BY <1>1, AlwaysStateInv, PTL

(* For protocol-following sessions of the tinyalsa build with no           *)
(* device_set_params caller, exactly one PCM handle is open while a        *)
(* session holds the device or the last device_close is closing it, and   *)
(* dev_obj->pcm points at it (RefcountsCorrect, stated on its own).       *)
THEOREM SingleDriverHandleCorrect ==
    ASSUME WellBehaved
    PROVE  Spec => []SingleDriverHandle
BY RefcountsCorrect, PTL

(* Under the same hypotheses no lifecycle call returns with              *)
(* dev_obj->lock held: the lock is held only by a thread inside a driver *)
(* call of device_open/prepare/stop/close.                                *)
THEOREM NoLockLeakCorrect ==
    ASSUME WellBehaved
    PROVE  Spec => []NoLockLeak
BY RefcountsCorrect, PTL

(* The refcount invariant gives DriverCallsOnLiveHandle: a thread inside  *)
(* a driver call holds or is releasing an open of the device, so the      *)
(* handle is live.                                                          *)
LEMMA LiveHandleFromIInv ==
    ASSUME WellBehaved, IInv
    PROVE  DriverCallsOnLiveHandle
<1>1. SUFFICES ASSUME NEW t \in Clients,
                      pc[t] \in {"prepare_pcm", "stop_pcm", "close_pcm"}
               PROVE  pcm = "live"
  BY DEF DriverCallsOnLiveHandle
<1>2. refcnt.open # 0 \/ Closing # {}
  <2>1. CASE pc[t] = "close_pcm"
    BY <2>1 DEF Closing
  <2>2. CASE pc[t] \in {"prepare_pcm", "stop_pcm"}
    <3>1. t \in HeldBy
      BY <2>2 DEF IInv, Control, HeldBy, Closing
    <3>2. QED
      BY <3>1, CountsNonZero
  <2>3. QED
    BY <1>1, <2>1, <2>2
<1>3. QED
  BY <1>2 DEF IInv, SingleDriverHandle

(* For protocol-following sessions of the tinyalsa build with no           *)
(* device_set_params caller, pcm_prepare, pcm_stop and pcm_close are only  *)
(* ever called on the handle the first device_open stored, never on a     *)
(* NULL dev_obj->pcm or one the last device_close already closed.         *)
THEOREM DriverCallsCorrect ==
    ASSUME WellBehaved
    PROVE  Spec => []DriverCallsOnLiveHandle
<1>1. IInv => DriverCallsOnLiveHandle
  BY LiveHandleFromIInv
<1>2. QED
  BY <1>1, AlwaysIInv, PTL

-----------------------------------------------------------------------------
(* Refinement: the device object implements the abstract session          *)
(* specification DeviceSessions under the mapping Abs of DeviceLifecycle.  *)

(* A step that changes cs and pc only at t moves only t into or out of    *)
(* the counted sets.                                                       *)
LEMMA OnlyT ==
    ASSUME NEW t \in Clients,
           cs \in [Clients -> Stages], pc \in [Clients -> PCs],
           cs' \in [Clients -> Stages], pc' \in [Clients -> PCs],
           \A u \in Clients \ {t} : cs'[u] = cs[u] /\ pc'[u] = pc[u]
    PROVE  /\ HeldBy' = (HeldBy \ {t}) \cup
                        (IF cs'[t] # "idle" /\ pc'[t] # "close_pcm" THEN {t} ELSE {})
           /\ StartedBy' = (StartedBy \ {t}) \cup
                        (IF cs'[t] = "started" /\ pc'[t] # "stop_pcm" THEN {t} ELSE {})
BY DEF HeldBy, StartedBy, Closing, Stopping

LEMMA InitAbs == Init => Abs!Init
BY DEF Init, Abs!Init, HeldBy, StartedBy, Closing, Stopping

LEMMA OpenAbs ==
    ASSUME WellBehaved, IInv, NEW t \in Clients, device_open(t)
    PROVE  [Abs!Next]_Abs!vars
<1>. USE DEF IInv
<1>1. cs[t] = "idle" /\ pc[t] = "idle" /\ UNCHANGED pcm
  BY DEF device_open, Call, MayOpen
<1>2. CASE refcnt.open # 0
  <2>1. cs' = [cs EXCEPT ![t] = "opened"] /\ pc' = pc
    BY <1>2 DEF device_open
  <2>2. HeldBy' = HeldBy \cup {t} /\ StartedBy' = StartedBy /\ t \notin HeldBy
    BY <1>1, <2>1, OnlyT DEF TypeOK, HeldBy, StartedBy, Closing, Stopping
  <2>3. pcm = "live"
    BY <1>2, CountsNonZero DEF SingleDriverHandle
  <2>4. Abs!Open(t)
    BY <1>1, <2>2, <2>3 DEF Abs!Open
  <2>5. QED
    BY <2>4 DEF Abs!Next
<1>3. CASE refcnt.open = 0
  <2>1. cs' = cs /\ pc' = [pc EXCEPT ![t] = "open_pcm"]
    BY <1>3 DEF device_open
  <2>2. HeldBy' = HeldBy /\ StartedBy' = StartedBy
    BY <1>1, <2>1 DEF TypeOK, HeldBy, StartedBy, Closing, Stopping
  <2>3. QED
    BY <1>1, <2>2 DEF Abs!vars
<1>4. QED
  BY <1>2, <1>3

LEMMA OpenPcmAbs ==
    ASSUME WellBehaved, IInv, NEW t \in Clients, device_open_pcm(t)
    PROVE  [Abs!Next]_Abs!vars
<1>. USE DEF IInv
<1>1. pc[t] = "open_pcm" /\ cs[t] = "idle" /\ pc' = [pc EXCEPT ![t] = "idle"]
  BY DEF device_open_pcm, Control
<1>2. CASE cs' = [cs EXCEPT ![t] = "opened"] /\ pcm' = "live"
  <2>1. HeldBy' = HeldBy \cup {t} /\ StartedBy' = StartedBy /\ t \notin HeldBy
    BY <1>1, <1>2 DEF TypeOK, HeldBy, StartedBy, Closing, Stopping
  <2>2. QED
    BY <1>2, <2>1 DEF Abs!Next, Abs!Open
<1>3. CASE UNCHANGED <<pcm, cs>>
  <2>1. HeldBy' = HeldBy /\ StartedBy' = StartedBy
    BY <1>1, <1>3 DEF TypeOK, HeldBy, StartedBy, Closing, Stopping
  <2>2. QED
    BY <1>3, <2>1 DEF Abs!vars
<1>4. QED
  BY <1>2, <1>3 DEF device_open_pcm

(* device_prepare and pcm_prepare move a holder between stages that are   *)
(* counted alike: the abstract state does not change.                     *)
LEMMA PrepareAbs ==
    ASSUME IInv, NEW t \in Clients, device_prepare(t) \/ device_prepare_pcm(t)
    PROVE  UNCHANGED Abs!vars
<1>. USE DEF IInv
<1>1. CASE device_prepare(t)
  <2>1. cs[t] \in {"opened", "stopped"} /\ pc[t] = "idle" /\ UNCHANGED pcm
    BY <1>1 DEF device_prepare, MayPrepare, Call
  <2>2. \/ cs' = [cs EXCEPT ![t] = "prepared"] /\ pc' = pc
        \/ cs' = cs /\ pc' = [pc EXCEPT ![t] = "prepare_pcm"]
    BY <1>1 DEF device_prepare
  <2>3. HeldBy' = HeldBy /\ StartedBy' = StartedBy
    BY <2>1, <2>2 DEF TypeOK, HeldBy, StartedBy, Closing, Stopping
  <2>4. QED
    BY <2>1, <2>3 DEF Abs!vars
<1>2. CASE device_prepare_pcm(t)
  <2>1. pc[t] = "prepare_pcm" /\ cs[t] \in {"opened", "stopped"} /\ UNCHANGED pcm
        /\ pc' = [pc EXCEPT ![t] = "idle"]
    BY <1>2 DEF device_prepare_pcm, Control
  <2>2. cs' = [cs EXCEPT ![t] = "prepared"] \/ cs' = cs
    BY <1>2 DEF device_prepare_pcm
  <2>3. HeldBy' = HeldBy /\ StartedBy' = StartedBy
    BY <2>1, <2>2 DEF TypeOK, HeldBy, StartedBy, Closing, Stopping
  <2>4. QED
    BY <2>1, <2>3 DEF Abs!vars
<1>3. QED
  BY <1>1, <1>2

LEMMA StartAbs ==
    ASSUME WellBehaved, IInv, NEW t \in Clients, device_start(t)
    PROVE  [Abs!Next]_Abs!vars
<1>. USE DEF IInv
<1>1. cs[t] \in {"prepared", "stopped"} /\ pc[t] = "idle" /\ UNCHANGED <<pcm, pc>>
  BY DEF device_start, MayStart, Call, WellBehaved
<1>2. CASE cs' = [cs EXCEPT ![t] = "started"]
  <2>1. HeldBy' = HeldBy /\ StartedBy' = StartedBy \cup {t}
        /\ t \in HeldBy \ StartedBy
    BY <1>1, <1>2 DEF TypeOK, HeldBy, StartedBy, Closing, Stopping
  <2>2. QED
    BY <1>1, <2>1 DEF Abs!Next, Abs!Start
<1>3. CASE UNCHANGED cs
  <2>1. HeldBy' = HeldBy /\ StartedBy' = StartedBy
    BY <1>1, <1>3 DEF HeldBy, StartedBy, Closing, Stopping
  <2>2. QED
    BY <1>1, <2>1 DEF Abs!vars
<1>4. QED
  BY <1>2, <1>3 DEF device_start

LEMMA StopAbs ==
    ASSUME WellBehaved, IInv, NEW t \in Clients, device_stop(t) \/ device_stop_pcm(t)
    PROVE  [Abs!Next]_Abs!vars
<1>. USE DEF IInv
<1>1. CASE device_stop(t)
  <2>1. cs[t] = "started" /\ pc[t] = "idle" /\ UNCHANGED pcm
    BY <1>1 DEF device_stop, MayStop, Call, WellBehaved
  <2>2. CASE UNCHANGED <<cs, pc>>
    <3>1. HeldBy' = HeldBy /\ StartedBy' = StartedBy
      BY <2>2 DEF HeldBy, StartedBy, Closing, Stopping
    <3>2. QED
      BY <2>1, <3>1 DEF Abs!vars
  <2>3. CASE cs' = cs /\ pc' = [pc EXCEPT ![t] = "stop_pcm"]
    <3>1. HeldBy' = HeldBy /\ StartedBy' = StartedBy \ {t} /\ t \in StartedBy
      BY <2>1, <2>3 DEF TypeOK, HeldBy, StartedBy, Closing, Stopping
    <3>2. QED
      BY <2>1, <3>1 DEF Abs!Next, Abs!Stop
  <2>4. CASE cs' = [cs EXCEPT ![t] = Stopped(cs[t])] /\ pc' = pc
    <3>1. cs' = [cs EXCEPT ![t] = "stopped"]
      BY <2>1, <2>4 DEF Stopped
    <3>2. HeldBy' = HeldBy /\ StartedBy' = StartedBy \ {t} /\ t \in StartedBy
      BY <2>1, <2>4, <3>1 DEF TypeOK, HeldBy, StartedBy, Closing, Stopping
    <3>3. QED
      BY <2>1, <3>2 DEF Abs!Next, Abs!Stop
  <2>5. QED
    BY <1>1, <2>2, <2>3, <2>4 DEF device_stop
<1>2. CASE device_stop_pcm(t)
  <2>1. pc[t] = "stop_pcm" /\ cs[t] = "started" /\ UNCHANGED pcm
        /\ pc' = [pc EXCEPT ![t] = "idle"] /\ cs' = [cs EXCEPT ![t] = "stopped"]
    BY <1>2 DEF device_stop_pcm, Control, Stopped
  <2>2. HeldBy' = HeldBy /\ StartedBy' = StartedBy
    BY <2>1 DEF TypeOK, HeldBy, StartedBy, Closing, Stopping
  <2>3. QED
    BY <2>1, <2>2 DEF Abs!vars
<1>3. QED
  BY <1>1, <1>2

LEMMA CloseAbs ==
    ASSUME WellBehaved, IInv, NEW t \in Clients, device_close(t)
    PROVE  [Abs!Next]_Abs!vars
<1>. USE DEF IInv
<1>1. cs[t] \in {"opened", "prepared", "stopped"} /\ pc[t] = "idle" /\ UNCHANGED pcm
  BY DEF device_close, MayClose, Call, WellBehaved
<1>2. t \in HeldBy \ StartedBy
  BY <1>1 DEF HeldBy, StartedBy, Closing
<1>3. CASE cs' = cs /\ pc' = [pc EXCEPT ![t] = "close_pcm"]
  <2>1. HeldBy' = HeldBy \ {t} /\ StartedBy' = StartedBy
    BY <1>1, <1>3 DEF TypeOK, HeldBy, StartedBy, Closing, Stopping
  <2>2. QED
    BY <1>1, <1>2, <2>1 DEF Abs!Next, Abs!Close
<1>4. CASE cs' = [cs EXCEPT ![t] = "idle"] /\ pc' = pc
  <2>1. HeldBy' = HeldBy \ {t} /\ StartedBy' = StartedBy
    BY <1>1, <1>4 DEF TypeOK, HeldBy, StartedBy, Closing, Stopping
  <2>2. QED
    BY <1>1, <1>2, <2>1 DEF Abs!Next, Abs!Close
<1>5. QED
  BY <1>3, <1>4 DEF device_close

(* The last closer's pcm_close is the abstract CloseDriver: nobody holds  *)
(* the device any more, and the handle was open.                          *)
LEMMA ClosePcmAbs ==
    ASSUME WellBehaved, IInv, NEW t \in Clients, device_close_pcm(t)
    PROVE  [Abs!Next]_Abs!vars
<1>. USE DEF IInv
<1>1. pc[t] = "close_pcm" /\ cs[t] \in {"opened", "prepared", "stopped"}
      /\ refcnt.open = 0
      /\ pc' = [pc EXCEPT ![t] = "idle"] /\ cs' = [cs EXCEPT ![t] = "idle"]
      /\ pcm' = "dangling"
  BY DEF device_close_pcm, Control
<1>2. HeldBy' = HeldBy /\ StartedBy' = StartedBy
  BY <1>1 DEF TypeOK, HeldBy, StartedBy, Closing, Stopping
<1>3. HeldBy = {}
  BY <1>1, CountsNonZero
<1>4. pcm = "live"
  BY <1>1 DEF SingleDriverHandle, Closing
<1>5. QED
  BY <1>1, <1>2, <1>3, <1>4 DEF Abs!Next, Abs!CloseDriver

LEMMA NextAbs ==
    ASSUME WellBehaved, IInv, [Next]_vars
    PROVE  [Abs!Next]_Abs!vars
<1>1. CASE Next
  <2>1. PICK t \in Clients :
          \/ device_open(t)    \/ device_open_pcm(t)
          \/ device_open_snd_pcm(t)
          \/ device_prepare(t) \/ device_prepare_pcm(t)
          \/ device_start(t)
          \/ device_stop(t)    \/ device_stop_pcm(t)
          \/ device_close(t)   \/ device_close_pcm(t)
          \/ device_set_params(t)
          \/ device_set_params_free(t) \/ device_set_params_null(t)
          \/ device_set_params_alloc(t)
    BY <1>1 DEF Next
  <2>2. QED
    BY <2>1, OpenAbs, OpenPcmAbs, PrepareAbs, StartAbs, StopAbs, CloseAbs,
       ClosePcmAbs, SetParamsStep, AlsaOpenStep
<1>2. CASE UNCHANGED vars
  BY <1>2 DEF vars, Abs!vars, HeldBy, StartedBy, Closing, Stopping
<1>3. QED
  BY <1>1, <1>2

(* For protocol-following sessions of the tinyalsa build with no          *)
(* device_set_params caller, the device object implements the abstract    *)
(* session specification: device_open takes a hold on an open driver      *)
(* handle, device_start/device_stop start and stop a holder, device_close *)
(* drops the hold, and the last closer's pcm_close happens only when no   *)
(* session holds the device.                                               *)
THEOREM Refinement ==
    ASSUME WellBehaved
    PROVE  Spec => ImplementsSessions
<1>1. Init => Abs!Init
  BY InitAbs
<1>2. IInv /\ [Next]_vars => [Abs!Next]_Abs!vars
  BY NextAbs
<1>3. QED
  BY <1>1, <1>2, AlwaysIInv, PTL DEF Spec, ImplementsSessions, Abs!Spec
=============================================================================
