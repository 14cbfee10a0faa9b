------------------------ MODULE DeviceLifecycleProofs ------------------------
(***************************************************************************)
(* Proofs about DeviceLifecycle, for every set of client threads and every *)
(* counter width.                                                          *)
(***************************************************************************)
EXTENDS DeviceLifecycle, FiniteSetTheorems, TLAPS

(* The refcounts stay within their width: Inc and Dec wrap modulo         *)
(* CounterMod like the unsigned fields of struct device_obj.               *)
(* update_sysfs_fd leaves sysfsFd a Boolean.                                *)
LEMMA SysfsBoolean ==
    ASSUME sysfsFd \in BOOLEAN, update_sysfs_fd
    PROVE  sysfsFd' \in BOOLEAN
BY Zenon DEF update_sysfs_fd

LEMMA CounterClosed ==
    ASSUME NEW x \in Counter
    PROVE  Inc(x) \in Counter /\ Dec(x) \in Counter
BY ConstantsAssumption DEF Counter, Inc, Dec

(* The step part of TypeCorrect.                                           *)
LEMMA TypeStep == TypeOK /\ [Next]_vars => TypeOK'
<1> SUFFICES ASSUME TypeOK, [Next]_vars PROVE TypeOK'
  OBVIOUS
<1>. USE DEF TypeOK, PCs, Stages, DevStates
<1>1. ASSUME NEW t \in Clients, device_open(t) PROVE TypeOK'
  BY <1>1, CounterClosed DEF device_open, Call
<1>2. ASSUME NEW t \in Clients, device_open_pcm(t) PROVE TypeOK'
  BY <1>2, CounterClosed, SysfsBoolean DEF device_open_pcm
<1>3. ASSUME NEW t \in Clients, device_prepare(t) PROVE TypeOK'
  BY <1>3, CounterClosed DEF device_prepare, Call
<1>4. ASSUME NEW t \in Clients, device_prepare_pcm(t) PROVE TypeOK'
  BY <1>4, CounterClosed DEF device_prepare_pcm
<1>5. ASSUME NEW t \in Clients, device_start(t) PROVE TypeOK'
  BY <1>5, CounterClosed DEF device_start, Call
<1>6. ASSUME NEW t \in Clients, device_stop(t) PROVE TypeOK'
  BY <1>6, CounterClosed DEF device_stop, Call, Stopped
<1>7. ASSUME NEW t \in Clients, device_stop_pcm(t) PROVE TypeOK'
  BY <1>7 DEF device_stop_pcm, Stopped
<1>8. ASSUME NEW t \in Clients, device_close(t) PROVE TypeOK'
  BY <1>8, CounterClosed DEF device_close, Call
<1>9. ASSUME NEW t \in Clients, device_close_pcm(t) PROVE TypeOK'
  <2>1. refcnt' \in [open : Counter, prepare : Counter, start : Counter]
    <3>1. 0 \in Counter
      BY ConstantsAssumption DEF Counter
    <3>2. QED
      BY <1>9, <3>1, Zenon DEF device_close_pcm
  <2>2. QED
    BY <1>9, <2>1, SysfsBoolean DEF device_close_pcm
<1>10. ASSUME NEW t \in Clients, device_set_params(t) PROVE TypeOK'
  BY <1>10 DEF device_set_params, UnlockUnowned
<1>11. ASSUME NEW t \in Clients, device_set_params_free(t) PROVE TypeOK'
  BY <1>11 DEF device_set_params_free
<1>12. ASSUME NEW t \in Clients, device_set_params_alloc(t) PROVE TypeOK'
  BY <1>12 DEF device_set_params_alloc, UnlockUnowned
<1>13. ASSUME NEW t \in Clients, device_set_params_null(t) PROVE TypeOK'
  BY <1>13 DEF device_set_params_null
<1>14. ASSUME NEW t \in Clients, device_open_snd_pcm(t) PROVE TypeOK'
  BY <1>14, CounterClosed, SysfsBoolean DEF device_open_snd_pcm
<1>15. CASE UNCHANGED vars
  BY <1>15 DEF vars
<1>16. QED
  BY <1>1, <1>2, <1>3, <1>4, <1>5, <1>6, <1>7, <1>8, <1>9, <1>10,
     <1>11, <1>12, <1>13, <1>14, <1>15 DEF Next

(* The initial state is well typed.                                       *)
LEMMA InitType == Init => TypeOK
<1> SUFFICES ASSUME Init PROVE TypeOK
  OBVIOUS
<1>1. refcnt \in [open : Counter, prepare : Counter, start : Counter]
  BY ConstantsAssumption DEF Init, Counter
<1>2. pc \in [Clients -> PCs] /\ cs \in [Clients -> Stages]
  BY DEF Init, PCs, Stages
<1>3. state \in DevStates /\ lock \in Clients \cup {NoThread}
  BY DEF Init, DevStates
<1>4. /\ pcm \in {"null", "live", "dangling"}
      /\ params \in {"null", "live", "freed"}
      /\ paramBlobs \in Int
  BY DEF Init
<1>8. doubleFree \in BOOLEAN
  BY Zenon DEF Init
<1>5. liveHandles \in Int
  BY DEF Init
<1>6. sysfsFd \in BOOLEAN
  BY DEF Init
<1>7. QED
  BY <1>1, <1>2, <1>3, <1>4, <1>5, <1>6, <1>8, Zenon DEF TypeOK

(* Type correctness: every lifecycle call, every driver outcome and        *)
(* device_set_params keep the device object and the threads well typed.   *)
THEOREM TypeCorrect == Spec => []TypeOK
<1>1. Init => TypeOK
  BY InitType
<1>2. TypeOK /\ [Next]_vars => TypeOK'
  BY TypeStep
<1>3. QED
  BY <1>1, <1>2, PTL DEF Spec

-----------------------------------------------------------------------------
(* The sessions the refcount theorem is about: nobody calls                 *)
(* device_set_params concurrently, every session keeps to the protocol     *)
(* (no out-of-order or unmatched calls), the build is the tinyalsa one,    *)
(* and there are fewer sessions than the refcount width can count.         *)
WellBehaved ==
    /\ ParamSetters = {}
    /\ Unchecked = {}
    /\ Unmatched = {}
    /\ AlsaLib = FALSE
    /\ IsFiniteSet(Clients)
    /\ Cardinality(Clients) < CounterMod

(* The driver-call windows, in which a thread holds dev_obj->lock.         *)
Windows == {"open_pcm", "prepare_pcm", "stop_pcm", "close_pcm"}

(* What each thread inside a driver call knows about the device: it holds  *)
(* the lock, and the refcount test that sent it there still holds.         *)
Control ==
    \A u \in Clients :
        /\ pc[u] \in {"idle"} \cup Windows
        /\ pc[u] \in Windows => lock = u
        /\ pc[u] = "open_pcm" => cs[u] = "idle" /\ refcnt.open = 0
        /\ pc[u] = "prepare_pcm" => cs[u] \in {"opened", "stopped"}
        /\ pc[u] = "stop_pcm" => cs[u] = "started" /\ refcnt.start = 0
        /\ pc[u] = "close_pcm" =>
               cs[u] \in {"opened", "prepared", "stopped"} /\ refcnt.open = 0

(* Any set of sessions is finite and smaller than the refcount width.      *)
LEMMA SessionSetBound ==
    ASSUME WellBehaved, NEW S \in SUBSET Clients
    PROVE  /\ IsFiniteSet(S)
           /\ Cardinality(S) \in Nat
           /\ Cardinality(S) < CounterMod
<1>1. IsFiniteSet(S) /\ Cardinality(S) <= Cardinality(Clients)
  BY FS_Subset DEF WellBehaved
<1>2. Cardinality(S) \in Nat
  BY <1>1, FS_CardinalityType
<1>3. Cardinality(Clients) \in Nat
  BY FS_CardinalityType DEF WellBehaved
<1>4. QED
  BY <1>1, <1>2, <1>3, ConstantsAssumption DEF WellBehaved

(* Below the width, Inc and Dec are plain +1 and -1.                        *)
LEMMA IncExact ==
    ASSUME NEW x \in Nat, x + 1 < CounterMod
    PROVE  Inc(x) = x + 1
BY ConstantsAssumption DEF Inc

LEMMA DecExact ==
    ASSUME NEW x \in Nat, x >= 1, x < CounterMod
    PROVE  Dec(x) = x - 1
BY ConstantsAssumption DEF Dec

(* With the lock free, no thread is inside a driver call.                   *)
LEMMA LockFreeAllIdle ==
    ASSUME TypeOK, Control, lock = NoThread
    PROVE  /\ \A u \in Clients : pc[u] = "idle"
           /\ Closing = {}
           /\ Stopping = {}
<1>1. \A u \in Clients : pc[u] = "idle"
  BY ConstantsAssumption DEF Control, Windows, TypeOK
<1>2. QED
  BY <1>1 DEF Closing, Stopping

(* A thread inside a driver call is the only one.                            *)
LEMMA WindowAlone ==
    ASSUME TypeOK, Control, NEW t \in Clients, pc[t] \in Windows
    PROVE  \A u \in Clients \ {t} : pc[u] = "idle"
BY DEF Control, Windows, TypeOK

(* The inductive invariant: RefcountMatchesClients, SingleDriverHandle and *)
(* NoLockLeak are not inductive alone; they need the control facts above.  *)
IInv ==
    /\ TypeOK
    /\ Control
    /\ NoLockLeak
    /\ RefcountMatchesClients
    /\ SingleDriverHandle


(* The initial state: no session holds the device, no handle exists.       *)
LEMMA InitIInv == Init => IInv
<1> SUFFICES ASSUME Init PROVE IInv
  OBVIOUS
<1>1. TypeOK
  BY InitType
<1>2. HeldBy = {} /\ StartedBy = {}
  BY DEF Init, HeldBy, StartedBy, Closing, Stopping
<1>3. RefcountMatchesClients
  BY <1>2, FS_EmptySet DEF Init, RefcountMatchesClients, HeldBy, StartedBy
<1>4. Control /\ NoLockLeak
  BY DEF Init, Control, NoLockLeak, Windows
<1>5. SingleDriverHandle
  BY DEF Init, SingleDriverHandle, Closing
<1>6. QED
  BY <1>1, <1>3, <1>4, <1>5 DEF IInv

(* device_open, both paths.                                                 *)
LEMMA OpenStep ==
    ASSUME WellBehaved, IInv, NEW t \in Clients, device_open(t)
    PROVE  IInv'
<1>. USE DEF IInv
<1>1. TypeOK'
  BY TypeStep DEF Next
<1>2. /\ \A u \in Clients : pc[u] = "idle"
      /\ Closing = {} /\ Stopping = {}
      /\ cs[t] = "idle"
  BY LockFreeAllIdle DEF device_open, Call, MayOpen
<1>3. CASE refcnt.open # 0
  <2>1. /\ refcnt' = [refcnt EXCEPT !.open = Inc(@)]
        /\ cs' = [cs EXCEPT ![t] = "opened"]
        /\ UNCHANGED <<lock, pc, state, pcm, liveHandles>>
    BY <1>3 DEF device_open
  <2>2. Closing' = {} /\ Stopping' = {}
    BY <1>2, <2>1 DEF Closing, Stopping
  <2>3. HeldBy' = HeldBy \cup {t} /\ t \notin HeldBy
    BY <1>2, <2>1, <2>2 DEF HeldBy, TypeOK
  <2>4. StartedBy' = StartedBy
    BY <1>2, <2>1, <2>2 DEF StartedBy, TypeOK
  <2>5. refcnt'.open = Cardinality(HeldBy') /\ refcnt'.open = refcnt.open + 1
    <3>1. Cardinality(HeldBy') = Cardinality(HeldBy) + 1
      BY <2>3, SessionSetBound, FS_AddElement DEF HeldBy
    <3>2. Cardinality(HeldBy') < CounterMod /\ Cardinality(HeldBy) \in Nat
      BY SessionSetBound DEF HeldBy
    <3>3. refcnt.open = Cardinality(HeldBy)
      BY DEF RefcountMatchesClients, HeldBy
    <3>4. QED
      BY <2>1, <3>1, <3>2, <3>3, IncExact DEF TypeOK
  <2>6. refcnt'.start = Cardinality(StartedBy')
    BY <2>1, <2>4 DEF RefcountMatchesClients, StartedBy, TypeOK
  <2>7. SingleDriverHandle'
    BY <1>3, <2>1, <2>2, <2>5 DEF SingleDriverHandle, TypeOK, Counter
  <2>8. QED
    BY <1>1, <1>2, <2>1, <2>5, <2>6, <2>7
       DEF Control, NoLockLeak, RefcountMatchesClients, HeldBy, StartedBy
<1>4. CASE refcnt.open = 0
  <2>1. /\ lock' = t
        /\ pc' = [pc EXCEPT ![t] = "open_pcm"]
        /\ UNCHANGED <<refcnt, cs, state, pcm, liveHandles>>
    BY <1>4 DEF device_open
  <2>2. Closing' = {} /\ Stopping' = {}
    BY <1>2, <2>1 DEF Closing, Stopping, TypeOK
  <2>3. Control'
    BY <1>2, <1>4, <2>1 DEF Control, Windows, TypeOK
  <2>4. NoLockLeak'
    BY <2>1 DEF NoLockLeak, TypeOK
  <2>5. RefcountMatchesClients' /\ SingleDriverHandle'
    BY <1>2, <2>1, <2>2 DEF RefcountMatchesClients, SingleDriverHandle
  <2>6. QED
    BY <1>1, <2>3, <2>4, <2>5
<1>5. QED
  BY <1>3, <1>4

(* device_open's driver call, success and failure.                         *)
LEMMA OpenPcmStep ==
    ASSUME WellBehaved, IInv, NEW t \in Clients, device_open_pcm(t)
    PROVE  IInv'
<1>. USE DEF IInv
<1>1. TypeOK'
  BY TypeStep DEF Next
<1>2. /\ \A u \in Clients \ {t} : pc[u] = "idle"
      /\ cs[t] = "idle" /\ refcnt.open = 0
  BY WindowAlone DEF device_open_pcm, Windows, Control
<1>3. /\ Closing = {} /\ Stopping = {}
      /\ pc' = [pc EXCEPT ![t] = "idle"] /\ lock' = NoThread
  BY <1>2 DEF device_open_pcm, Closing, Stopping
<1>4. /\ Closing' = {} /\ Stopping' = {}
      /\ \A u \in Clients : pc'[u] = "idle"
  BY <1>2, <1>3 DEF Closing, Stopping, TypeOK
<1>5. Control' /\ NoLockLeak'
  BY <1>3, <1>4 DEF Control, NoLockLeak, Windows
<1>6. liveHandles = 0 /\ HeldBy = {}
  <2>1. liveHandles = 0
    BY <1>2, <1>3 DEF SingleDriverHandle
  <2>2. Cardinality(HeldBy) = 0
    BY <1>2 DEF RefcountMatchesClients, HeldBy
  <2>3. HeldBy = {}
    BY <2>2, SessionSetBound, FS_EmptySet DEF HeldBy
  <2>4. QED
    BY <2>1, <2>3
<1>7. CASE /\ liveHandles' = liveHandles + 1
           /\ pcm' = "live"
           /\ refcnt' = [refcnt EXCEPT !.open = Inc(@)]
           /\ cs' = [cs EXCEPT ![t] = "opened"]
  <2>1. HeldBy' = {t}
    BY <1>3, <1>4, <1>6, <1>7 DEF HeldBy, TypeOK
  <2>2. Cardinality(HeldBy') = 1 /\ refcnt'.open = 1
    <3>1. Cardinality(HeldBy') = 1
      BY <2>1, FS_Singleton
    <3>2. Inc(0) = 1
      BY IncExact, ConstantsAssumption
    <3>3. refcnt'.open = Inc(refcnt.open)
      BY <1>7 DEF TypeOK
    <3>4. QED
      BY <1>2, <3>1, <3>2, <3>3
  <2>3. StartedBy' = StartedBy
    BY <1>2, <1>3, <1>4, <1>7 DEF StartedBy, TypeOK
  <2>4. refcnt'.start = refcnt.start
    BY <1>7 DEF TypeOK
  <2>5. RefcountMatchesClients'
    BY <2>2, <2>3, <2>4 DEF RefcountMatchesClients, HeldBy, StartedBy
  <2>6. SingleDriverHandle'
    BY <1>6, <1>7, <2>2 DEF SingleDriverHandle
  <2>7. QED
    BY <1>1, <1>5, <2>5, <2>6
<1>8. CASE UNCHANGED <<liveHandles, pcm, sysfsFd, state, refcnt, cs>>
  <2>1. RefcountMatchesClients'
    BY <1>3, <1>4, <1>8 DEF RefcountMatchesClients
  <2>2. SingleDriverHandle'
    BY <1>2, <1>4, <1>6, <1>8 DEF SingleDriverHandle
  <2>3. QED
    BY <1>1, <1>5, <2>1, <2>2
<1>9. QED
  BY <1>7, <1>8 DEF device_open_pcm

(* device_prepare, both paths.                                              *)
LEMMA PrepareStep ==
    ASSUME WellBehaved, IInv, NEW t \in Clients, device_prepare(t)
    PROVE  IInv'
<1>. USE DEF IInv
<1>1. TypeOK'
  BY TypeStep DEF Next
<1>2. /\ \A u \in Clients : pc[u] = "idle"
      /\ Closing = {} /\ Stopping = {}
      /\ cs[t] \in {"opened", "stopped"}
  BY LockFreeAllIdle DEF device_prepare, Call, MayPrepare
<1>3. CASE /\ refcnt' = [refcnt EXCEPT !.prepare = Inc(@)]
           /\ cs' = [cs EXCEPT ![t] = "prepared"]
           /\ UNCHANGED <<lock, pc>>
  <2>1. HeldBy' = HeldBy /\ StartedBy' = StartedBy
    BY <1>2, <1>3 DEF HeldBy, StartedBy, Closing, Stopping, TypeOK
  <2>2. refcnt'.open = refcnt.open /\ refcnt'.start = refcnt.start
    BY <1>3 DEF TypeOK
  <2>3. Control' /\ NoLockLeak'
    BY <1>2, <1>3 DEF Control, NoLockLeak, device_prepare
  <2>4. QED
    BY <1>1, <1>3, <2>1, <2>2, <2>3
       DEF RefcountMatchesClients, SingleDriverHandle, device_prepare, HeldBy,
           StartedBy, Closing
<1>4. CASE /\ lock' = t
           /\ pc' = [pc EXCEPT ![t] = "prepare_pcm"]
           /\ UNCHANGED <<refcnt, cs>>
  <2>1. Closing' = {} /\ Stopping' = {}
    BY <1>2, <1>4 DEF Closing, Stopping, TypeOK
  <2>2. Control' /\ NoLockLeak'
    BY <1>2, <1>4 DEF Control, NoLockLeak, Windows, TypeOK
  <2>3. QED
    BY <1>1, <1>2, <1>4, <2>1, <2>2
       DEF RefcountMatchesClients, SingleDriverHandle, device_prepare
<1>5. QED
  BY <1>3, <1>4 DEF device_prepare

(* device_prepare's driver call, success and failure.                      *)
LEMMA PreparePcmStep ==
    ASSUME WellBehaved, IInv, NEW t \in Clients, device_prepare_pcm(t)
    PROVE  IInv'
<1>. USE DEF IInv
<1>1. TypeOK'
  BY TypeStep DEF Next
<1>2. /\ \A u \in Clients \ {t} : pc[u] = "idle"
      /\ cs[t] \in {"opened", "stopped"}
  BY WindowAlone DEF device_prepare_pcm, Windows, Control
<1>3. /\ Closing = {} /\ Stopping = {}
      /\ Closing' = {} /\ Stopping' = {}
      /\ \A u \in Clients : pc'[u] = "idle"
      /\ lock' = NoThread
  BY <1>2 DEF device_prepare_pcm, Closing, Stopping, TypeOK
<1>4. Control' /\ NoLockLeak'
  BY <1>3 DEF Control, NoLockLeak, Windows
<1>5. /\ \A u \in Clients : cs'[u] # "idle" <=> cs[u] # "idle"
      /\ \A u \in Clients : cs'[u] = "started" <=> cs[u] = "started"
      /\ refcnt'.open = refcnt.open /\ refcnt'.start = refcnt.start
      /\ UNCHANGED <<liveHandles, pcm>>
  BY <1>2 DEF device_prepare_pcm, TypeOK
<1>6. HeldBy' = HeldBy /\ StartedBy' = StartedBy
  BY <1>3, <1>5 DEF HeldBy, StartedBy
<1>7. QED
  BY <1>1, <1>3, <1>4, <1>5, <1>6
     DEF RefcountMatchesClients, SingleDriverHandle, HeldBy, StartedBy

(* device_start, both paths: an out-of-order start is refused, and a      *)
(* counted start adds exactly the caller to the started sessions.          *)
LEMMA StartStep ==
    ASSUME WellBehaved, IInv, NEW t \in Clients, device_start(t)
    PROVE  IInv'
<1>. USE DEF IInv
<1>1. TypeOK'
  BY TypeStep DEF Next
<1>2. /\ \A u \in Clients : pc[u] = "idle"
      /\ Closing = {} /\ Stopping = {}
      /\ cs[t] \in {"prepared", "stopped"}
      /\ Closing' = {} /\ Stopping' = {}
  BY LockFreeAllIdle DEF device_start, Call, MayStart, WellBehaved,
                         Closing, Stopping
<1>3. Control' /\ NoLockLeak'
  BY <1>2 DEF device_start, Control, NoLockLeak
<1>4. CASE UNCHANGED <<state, refcnt, cs>>
  BY <1>1, <1>2, <1>3, <1>4
     DEF RefcountMatchesClients, SingleDriverHandle, device_start, HeldBy,
         StartedBy
<1>5. CASE /\ refcnt' = [refcnt EXCEPT !.start = Inc(@)]
           /\ cs' = [cs EXCEPT ![t] = "started"]
  <2>1. HeldBy' = HeldBy
    BY <1>2, <1>5 DEF HeldBy, TypeOK
  <2>2. StartedBy' = StartedBy \cup {t} /\ t \notin StartedBy
    BY <1>2, <1>5 DEF StartedBy, TypeOK
  <2>3. /\ IsFiniteSet(StartedBy)
        /\ Cardinality(StartedBy') = Cardinality(StartedBy) + 1
        /\ Cardinality(StartedBy') < CounterMod
    BY <2>2, SessionSetBound, FS_AddElement DEF StartedBy
  <2>4. refcnt'.start = refcnt.start + 1 /\ refcnt'.open = refcnt.open
    BY <1>5, <2>3, IncExact, SessionSetBound DEF RefcountMatchesClients, TypeOK,
                                                 StartedBy
  <2>5. QED
    BY <1>1, <1>2, <1>3, <2>1, <2>3, <2>4
       DEF RefcountMatchesClients, SingleDriverHandle, device_start, HeldBy,
           StartedBy
<1>6. QED
  BY <1>4, <1>5 DEF device_start

(* device_stop, by a started session: the count is never 0, so the stop   *)
(* is counted, and the last stopper enters the driver call.                *)
LEMMA StopStep ==
    ASSUME WellBehaved, IInv, NEW t \in Clients, device_stop(t)
    PROVE  IInv'
<1>. USE DEF IInv
<1>1. TypeOK'
  BY TypeStep DEF Next
<1>2. /\ \A u \in Clients : pc[u] = "idle"
      /\ Closing = {} /\ Stopping = {}
      /\ cs[t] = "started"
  BY LockFreeAllIdle DEF device_stop, Call, MayStop, WellBehaved
<1>3. /\ t \in StartedBy
      /\ IsFiniteSet(StartedBy)
      /\ Cardinality(StartedBy \ {t}) = Cardinality(StartedBy) - 1
      /\ Cardinality(StartedBy) >= 1
      /\ Cardinality(StartedBy) < CounterMod
  <2>1. t \in StartedBy /\ StartedBy \in SUBSET Clients
    BY <1>2 DEF StartedBy
  <2>2. IsFiniteSet(StartedBy) /\ Cardinality(StartedBy) \in Nat
        /\ Cardinality(StartedBy) < CounterMod
    BY <2>1, SessionSetBound
  <2>3. Cardinality(StartedBy \ {t}) = Cardinality(StartedBy) - 1
    BY <2>1, <2>2, FS_RemoveElement
  <2>4. Cardinality(StartedBy) # 0
    BY <2>1, <2>2, FS_EmptySet
  <2>5. QED
    BY <2>1, <2>2, <2>3, <2>4
<1>4. /\ refcnt.start # 0
      /\ refcnt'.start = refcnt.start - 1
      /\ refcnt'.open = refcnt.open
      /\ Dec(refcnt.start) = refcnt.start - 1
  <2>1. refcnt.start = Cardinality(StartedBy)
    BY DEF RefcountMatchesClients, StartedBy
  <2>2. refcnt.start \in Nat /\ refcnt.start >= 1 /\ refcnt.start < CounterMod
    BY <1>3, <2>1, FS_CardinalityType
  <2>3. Dec(refcnt.start) = refcnt.start - 1
    BY <2>2, DecExact
  <2>4. refcnt.start # 0 /\ refcnt' = [refcnt EXCEPT !.start = Dec(@)]
    BY <2>2 DEF device_stop
  <2>5. QED
    BY <2>2, <2>3, <2>4 DEF TypeOK
<1>5. HeldBy' = HeldBy /\ refcnt'.open = refcnt.open
  BY <1>2, <1>4 DEF HeldBy, Closing, device_stop, Stopped, TypeOK
<1>6. CASE /\ Dec(refcnt.start) = 0
           /\ lock' = t
           /\ pc' = [pc EXCEPT ![t] = "stop_pcm"]
           /\ UNCHANGED cs
  <2>1. Stopping' = {t} /\ Closing' = {}
    BY <1>2, <1>6 DEF Stopping, Closing, TypeOK
  <2>2. StartedBy' = StartedBy \ {t}
    BY <1>2, <1>6, <2>1 DEF StartedBy
  <2>3. Control' /\ NoLockLeak'
    BY <1>2, <1>4, <1>6 DEF Control, NoLockLeak, Windows, TypeOK
  <2>4. QED
    BY <1>1, <1>2, <1>3, <1>4, <1>5, <2>1, <2>2, <2>3
       DEF RefcountMatchesClients, SingleDriverHandle, device_stop, HeldBy,
           StartedBy
<1>7. CASE /\ Dec(refcnt.start) # 0
           /\ cs' = [cs EXCEPT ![t] = Stopped(@)]
           /\ UNCHANGED <<lock, pc>>
  <2>1. Stopping' = {} /\ Closing' = {}
    BY <1>2, <1>7 DEF Stopping, Closing
  <2>2. StartedBy' = StartedBy \ {t}
    BY <1>2, <1>7, <2>1 DEF StartedBy, Stopped, TypeOK
  <2>3. Control' /\ NoLockLeak'
    BY <1>2, <1>7 DEF Control, NoLockLeak
  <2>4. QED
    BY <1>1, <1>2, <1>3, <1>4, <1>5, <2>1, <2>2, <2>3
       DEF RefcountMatchesClients, SingleDriverHandle, device_stop, HeldBy,
           StartedBy
<1>8. QED
  BY <1>4, <1>6, <1>7 DEF device_stop

(* device_stop's driver call: the last stopper leaves as "stopped".        *)
LEMMA StopPcmStep ==
    ASSUME WellBehaved, IInv, NEW t \in Clients, device_stop_pcm(t)
    PROVE  IInv'
<1>. USE DEF IInv
<1>1. TypeOK'
  BY TypeStep DEF Next
<1>2. /\ \A u \in Clients \ {t} : pc[u] = "idle"
      /\ cs[t] = "started"
  BY WindowAlone DEF device_stop_pcm, Windows, Control
<1>3. /\ Closing = {} /\ Stopping = {t}
      /\ Closing' = {} /\ Stopping' = {}
      /\ \A u \in Clients : pc'[u] = "idle"
      /\ lock' = NoThread
  BY <1>2 DEF device_stop_pcm, Closing, Stopping, TypeOK
<1>4. Control' /\ NoLockLeak'
  BY <1>3 DEF Control, NoLockLeak, Windows
<1>5. HeldBy' = HeldBy /\ StartedBy' = StartedBy
  BY <1>2, <1>3 DEF device_stop_pcm, HeldBy, StartedBy, Stopped, TypeOK
<1>6. QED
  BY <1>1, <1>4, <1>5, <1>3
     DEF RefcountMatchesClients, SingleDriverHandle, device_stop_pcm, HeldBy,
         StartedBy

(* device_close by an open session: the count is never 0 before the       *)
(* decrement, and the last closer enters the driver call still counted as *)
(* holding the handle.                                                      *)
LEMMA CloseStep ==
    ASSUME WellBehaved, IInv, NEW t \in Clients, device_close(t)
    PROVE  IInv'
<1>. USE DEF IInv
<1>1. TypeOK'
  BY TypeStep DEF Next
<1>2. /\ \A u \in Clients : pc[u] = "idle"
      /\ Closing = {} /\ Stopping = {}
      /\ cs[t] \in {"opened", "prepared", "stopped"}
  BY LockFreeAllIdle DEF device_close, Call, MayClose, WellBehaved
<1>3. /\ t \in HeldBy
      /\ Cardinality(HeldBy \ {t}) = Cardinality(HeldBy) - 1
  <2>1. t \in HeldBy /\ HeldBy \in SUBSET Clients
    BY <1>2 DEF HeldBy
  <2>2. IsFiniteSet(HeldBy)
    BY <2>1, SessionSetBound
  <2>3. QED
    BY <2>1, <2>2, FS_RemoveElement
<1>4. /\ refcnt.open # 0
      /\ refcnt'.open = refcnt.open - 1
      /\ refcnt'.start = refcnt.start
      /\ Dec(refcnt.open) = refcnt.open - 1
  <2>1. refcnt.open = Cardinality(HeldBy)
    BY <1>2 DEF RefcountMatchesClients, HeldBy
  <2>2. /\ Cardinality(HeldBy) \in Nat
        /\ Cardinality(HeldBy) < CounterMod
        /\ Cardinality(HeldBy) # 0
    BY <1>3, SessionSetBound, FS_EmptySet DEF HeldBy
  <2>3. Dec(refcnt.open) = refcnt.open - 1
    BY <2>1, <2>2, DecExact
  <2>4. QED
    BY <2>1, <2>2, <2>3 DEF device_close, TypeOK
<1>5. StartedBy' = StartedBy /\ Stopping' = {}
  BY <1>2 DEF device_close, StartedBy, Stopping, TypeOK
<1>6. UNCHANGED <<liveHandles, pcm>> /\ liveHandles = 1 /\ pcm = "live"
  BY <1>2, <1>4 DEF device_close, SingleDriverHandle
<1>7. CASE /\ Dec(refcnt.open) = 0
           /\ lock' = t
           /\ pc' = [pc EXCEPT ![t] = "close_pcm"]
           /\ UNCHANGED cs
  <2>1. Closing' = {t}
    BY <1>2, <1>7 DEF Closing, TypeOK
  <2>2. HeldBy' = HeldBy \ {t}
    BY <1>2, <1>7, <2>1 DEF HeldBy
  <2>3. Control' /\ NoLockLeak'
    BY <1>2, <1>4, <1>7 DEF Control, NoLockLeak, Windows, TypeOK
  <2>4. RefcountMatchesClients'
    BY <1>2, <1>3, <1>4, <1>5, <2>1, <2>2
       DEF RefcountMatchesClients, HeldBy, StartedBy
  <2>5. SingleDriverHandle'
    BY <1>6, <2>1 DEF SingleDriverHandle
  <2>6. QED
    BY <1>1, <2>3, <2>4, <2>5
<1>8. CASE /\ Dec(refcnt.open) # 0
           /\ cs' = [cs EXCEPT ![t] = "idle"]
           /\ UNCHANGED <<lock, pc>>
  <2>1. Closing' = {}
    BY <1>2, <1>8 DEF Closing
  <2>2. HeldBy' = HeldBy \ {t}
    BY <1>2, <1>8, <2>1 DEF HeldBy, TypeOK
  <2>3. Control' /\ NoLockLeak'
    BY <1>2, <1>8 DEF Control, NoLockLeak
  <2>4. RefcountMatchesClients'
    BY <1>2, <1>3, <1>4, <1>5, <2>1, <2>2
       DEF RefcountMatchesClients, HeldBy, StartedBy
  <2>5. SingleDriverHandle'
    BY <1>4, <1>6, <1>8 DEF SingleDriverHandle
  <2>6. QED
    BY <1>1, <2>3, <2>4, <2>5
<1>9. QED
  BY <1>7, <1>8 DEF device_close

(* device_close's driver call: no session holds the device any more, so   *)
(* resetting the prepare and start counts loses none, and the one live    *)
(* driver handle is released.                                               *)
LEMMA ClosePcmStep ==
    ASSUME WellBehaved, IInv, NEW t \in Clients, device_close_pcm(t)
    PROVE  IInv'
<1>. USE DEF IInv
<1>1. TypeOK'
  BY TypeStep DEF Next
<1>2. /\ \A u \in Clients \ {t} : pc[u] = "idle"
      /\ cs[t] \in {"opened", "prepared", "stopped"} /\ refcnt.open = 0
  BY WindowAlone DEF device_close_pcm, Windows, Control
<1>3. /\ Closing = {t} /\ Stopping = {}
      /\ Closing' = {} /\ Stopping' = {}
      /\ \A u \in Clients : pc'[u] = "idle"
      /\ lock' = NoThread
  BY <1>2 DEF device_close_pcm, Closing, Stopping, TypeOK
<1>4. Control' /\ NoLockLeak'
  BY <1>3 DEF Control, NoLockLeak, Windows
<1>5. \A u \in Clients \ {t} : cs[u] = "idle"
  <2>1. Cardinality(HeldBy) = 0
    BY <1>2, <1>3 DEF RefcountMatchesClients, HeldBy
  <2>2. HeldBy = {}
    BY <2>1, SessionSetBound, FS_EmptySet DEF HeldBy
  <2>3. QED
    BY <1>3, <2>2 DEF HeldBy
<1>6. \A u \in Clients : cs'[u] = "idle"
  BY <1>5 DEF device_close_pcm, TypeOK
<1>7. /\ {u \in Clients : cs'[u] # "idle"} \ Closing' = {}
      /\ {u \in Clients : cs'[u] = "started"} \ Stopping' = {}
  BY <1>6
<1>8. refcnt'.open = 0 /\ refcnt'.start = 0
  BY <1>2 DEF device_close_pcm, TypeOK
<1>9. RefcountMatchesClients'
  BY <1>7, <1>8, FS_EmptySet DEF RefcountMatchesClients
<1>10. SingleDriverHandle'
  <2>1. liveHandles = 1
    BY <1>3 DEF SingleDriverHandle
  <2>2. QED
    BY <1>3, <1>8, <2>1 DEF device_close_pcm, SingleDriverHandle
<1>11. QED
  BY <1>1, <1>4, <1>9, <1>10

(* device_set_params is called by no client of a well-behaved            *)
(* configuration, so neither of its later steps can be reached.            *)
LEMMA SetParamsStep ==
    ASSUME WellBehaved, IInv, NEW t \in Clients,
           device_set_params(t) \/ device_set_params_free(t)
           \/ device_set_params_null(t) \/ device_set_params_alloc(t)
    PROVE  FALSE
BY DEF WellBehaved, device_set_params, device_set_params_free,
       device_set_params_null, device_set_params_alloc, IInv, Control, Windows

(* The alsa-lib device_open is not the build of a well-behaved            *)
(* configuration.                                                          *)
LEMMA AlsaOpenStep ==
    ASSUME WellBehaved, NEW t \in Clients, device_open_snd_pcm(t)
    PROVE  FALSE
BY DEF WellBehaved, device_open_snd_pcm

(* A stuttering step leaves the invariant as it is.                         *)
LEMMA StutterStep ==
    ASSUME IInv, UNCHANGED vars
    PROVE  IInv'
BY DEF vars, IInv, TypeOK, Control, Windows, NoLockLeak,
       RefcountMatchesClients, SingleDriverHandle, Closing, Stopping

(* Every step of the device lifecycle preserves the inductive invariant.    *)
LEMMA NextIInv ==
    ASSUME WellBehaved, IInv, [Next]_vars
    PROVE  IInv'
<1>1. CASE Next
  <2>1. PICK t \in Clients :
          \/ device_open(t)    \/ device_open_pcm(t)
          \/ device_open_snd_pcm(t)
          \/ device_prepare(t) \/ device_prepare_pcm(t)
          \/ device_start(t)
          \/ device_stop(t)    \/ device_stop_pcm(t)
          \/ device_close(t)   \/ device_close_pcm(t)
          \/ device_set_params(t)
          \/ device_set_params_free(t) \/ device_set_params_null(t)
          \/ device_set_params_alloc(t)
    BY <1>1 DEF Next
  <2>2. QED
    BY <2>1, OpenStep, OpenPcmStep, PrepareStep, PreparePcmStep, StartStep,
       StopStep, StopPcmStep, CloseStep, ClosePcmStep, SetParamsStep,
       AlsaOpenStep
<1>2. CASE UNCHANGED vars
  BY <1>2, StutterStep
<1>3. QED
  BY <1>1, <1>2

(* The inductive invariant holds in every reachable state.                 *)
LEMMA AlwaysIInv ==
    ASSUME WellBehaved
    PROVE  Spec => []IInv
<1>1. Init => IInv
  BY InitIInv
<1>2. IInv /\ [Next]_vars => IInv'
  BY NextIInv
<1>3. QED
  BY <1>1, <1>2, PTL DEF Spec

(* For callers that follow the session protocol and a device_set_params   *)
(* that no one calls, in the tinyalsa build, the refcounts of struct      *)
(* device_obj count exactly the sessions that opened and started the      *)
(* device, exactly one PCM handle is live while any session holds it, and *)
(* no lifecycle call returns with dev_obj->lock held, for every number of *)
(* clients below the counter width.                                        *)
THEOREM RefcountsCorrect ==
    ASSUME WellBehaved
    PROVE  Spec => [](RefcountMatchesClients /\ SingleDriverHandle /\ NoLockLeak)
<1>1. IInv => RefcountMatchesClients /\ SingleDriverHandle /\ NoLockLeak
  BY DEF IInv
<1>2. QED
  BY <1>1, AlwaysIInv, PTL

(* The last stopper's driver call leaves no session started.                *)
LEMMA StopPcmRelease ==
    ASSUME WellBehaved, IInv, NEW t \in Clients, device_stop_pcm(t)
    PROVE  ReleaseStep
<1>1. /\ \A u \in Clients \ {t} : pc[u] = "idle"
      /\ cs[t] = "started" /\ refcnt.start = 0
  BY WindowAlone DEF device_stop_pcm, Windows, Control, IInv
<1>2. Stopping = {t}
  BY <1>1 DEF Stopping, device_stop_pcm
<1>3. StartedBy = {}
  <2>1. Cardinality(StartedBy) = 0
    BY <1>1, <1>2 DEF IInv, RefcountMatchesClients, StartedBy
  <2>2. QED
    BY <2>1, SessionSetBound, FS_EmptySet DEF StartedBy
<1>4. \A u \in Clients \ {t} : cs[u] # "started"
  BY <1>2, <1>3 DEF StartedBy
<1>5. \A u \in Clients : cs'[u] # "started"
  <2>1. cs' = [cs EXCEPT ![t] = "stopped"]
    BY <1>1 DEF device_stop_pcm, Stopped
  <2>2. QED
    BY <1>4, <2>1 DEF IInv, TypeOK
<1>6. QED
  BY <1>5 DEF ReleaseStep, device_stop_pcm, IInv, TypeOK

(* The last closer's driver call leaves every session idle.                 *)
LEMMA ClosePcmRelease ==
    ASSUME WellBehaved, IInv, NEW t \in Clients, device_close_pcm(t)
    PROVE  ReleaseStep
<1>1. /\ \A u \in Clients \ {t} : pc[u] = "idle"
      /\ refcnt.open = 0
  BY WindowAlone DEF device_close_pcm, Windows, Control, IInv
<1>2. Closing = {t}
  BY <1>1 DEF Closing, device_close_pcm, IInv, TypeOK
<1>3. HeldBy = {}
  <2>1. Cardinality(HeldBy) = 0
    BY <1>1, <1>2 DEF IInv, RefcountMatchesClients, HeldBy
  <2>2. QED
    BY <2>1, SessionSetBound, FS_EmptySet DEF HeldBy
<1>4. \A u \in Clients : cs'[u] = "idle"
  BY <1>2, <1>3 DEF HeldBy, device_close_pcm, IInv, TypeOK
<1>5. QED
  BY <1>4 DEF ReleaseStep

(* No other step moves the device to STOPPED or closes a driver handle.   *)
LEMMA OtherRelease ==
    ASSUME IInv, NEW t \in Clients,
           \/ device_open(t)    \/ device_open_pcm(t)
           \/ device_prepare(t) \/ device_prepare_pcm(t)
           \/ device_start(t)   \/ device_stop(t)    \/ device_close(t)
    PROVE  ReleaseStep
<1>1. liveHandles \in Int
  BY DEF IInv, TypeOK
<1>2. CASE device_open_pcm(t)
  BY <1>1, <1>2 DEF device_open_pcm, ReleaseStep
<1>3. CASE device_prepare_pcm(t)
  BY <1>1, <1>3 DEF device_prepare_pcm, ReleaseStep
<1>4. CASE device_start(t)
  BY <1>1, <1>4 DEF device_start, ReleaseStep
<1>5. CASE device_open(t) \/ device_prepare(t) \/ device_stop(t)
           \/ device_close(t)
  BY <1>1, <1>5 DEF device_open, device_prepare, device_stop, device_close,
                    ReleaseStep
<1>6. QED
  BY <1>2, <1>3, <1>4, <1>5

(* The last device_stop moves the device to STOPPED only once no session  *)
(* is started, and the last device_close closes the PCM handle only once  *)
(* no session holds the device: the release steps of the code never pull  *)
(* the hardware from under a session that still uses it.                   *)
THEOREM ReleaseSafe ==
    ASSUME WellBehaved
    PROVE  Spec => ReleaseOnlyWhenUnused
<1>1. IInv /\ [Next]_vars => [ReleaseStep]_vars
  <2>. SUFFICES ASSUME IInv, Next PROVE ReleaseStep
    OBVIOUS
  <2>1. PICK t \in Clients :
          \/ device_open(t)    \/ device_open_pcm(t)
          \/ device_open_snd_pcm(t)
          \/ device_prepare(t) \/ device_prepare_pcm(t)
          \/ device_start(t)
          \/ device_stop(t)    \/ device_stop_pcm(t)
          \/ device_close(t)   \/ device_close_pcm(t)
          \/ device_set_params(t)
          \/ device_set_params_free(t) \/ device_set_params_null(t)
          \/ device_set_params_alloc(t)
    BY DEF Next
  <2>2. QED
    BY <2>1, StopPcmRelease, ClosePcmRelease, OtherRelease, SetParamsStep,
       AlsaOpenStep
<1>2. QED
  BY <1>1, AlwaysIInv, PTL DEF ReleaseOnlyWhenUnused, Spec

=============================================================================
