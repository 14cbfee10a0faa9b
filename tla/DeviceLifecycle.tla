--------------------------- MODULE DeviceLifecycle ---------------------------
(***************************************************************************)
(* One AGM device object (struct device_obj, src/service/src/device.c)     *)
(* shared by several client threads (one per audio session).  The five    *)
(* lifecycle calls device_open / device_prepare / device_start /          *)
(* device_stop / device_close run under dev_obj->lock; a call that has to *)
(* talk to the PCM driver keeps the lock across that call, so it is split *)
(* into the step that takes the lock and decides (the refcount test), and *)
(* the step that performs the driver call, writes the object and unlocks. *)
(* device_set_params is modelled as written: it unlocks a mutex it never  *)
(* took, twice.                                                            *)
(***************************************************************************)
EXTENDS Integers, FiniteSets

CONSTANTS
    Clients,       \* the client threads (audio sessions) using the device
    ParamSetters,  \* the clients that also call device_set_params
    Unchecked,     \* the clients that also make calls out of protocol order
    Unmatched,     \* the clients that also close a device they did not open
    AlsaLib,       \* DEVICE_USES_ALSALIB: device_open is the alsa-lib one
    NoThread,      \* "nobody holds dev_obj->lock"
    CounterMod,    \* 2^width of the refcnt fields; they wrap modulo it
    MaxPrepare,    \* bound: device_prepare calls counted in one open period
    MaxHandles     \* bound: driver handles the alsa-lib open may leave open

ASSUME ConstantsAssumption ==
    /\ ParamSetters \subseteq Clients
    /\ Unchecked \subseteq Clients
    /\ Unmatched \subseteq Clients
    /\ AlsaLib \in BOOLEAN
    /\ NoThread \notin Clients
    /\ CounterMod \in Nat /\ CounterMod > 1
    /\ MaxPrepare \in 1 .. CounterMod
    /\ MaxHandles \in Nat \ {0}

VARIABLES
    lock,         \* holder of dev_obj->lock, or NoThread
    state,        \* dev_obj->state
    refcnt,       \* dev_obj->refcnt: [open, prepare, start]
    pcm,          \* what dev_obj->pcm points to: "null", "live" or "dangling"
    liveHandles,  \* number of PCM driver handles opened and not yet closed
    sysfsFd,      \* sysfs_fd >= 0: the notification node has been opened
    params,       \* the blob dev_obj->params points to: "null", "live", "freed"
    paramBlobs,   \* number of params blobs allocated and not yet freed
    doubleFree,   \* a params blob has been freed a second time
    pc,           \* where each client thread is inside a device call
    cs            \* what each client has achieved on the device (its stage)

vars == <<lock, state, refcnt, pcm, liveHandles, sysfsFd, params, paramBlobs,
          doubleFree, pc, cs>>

-----------------------------------------------------------------------------
(* enum device_state, in declaration order (agm/device.h).                 *)
DevStates == {"CLOSED", "OPENED", "PREPARED", "STARTED", "STOPPED"}

Rank == [s \in DevStates |->
            CASE s = "CLOSED"   -> 0 [] s = "OPENED"  -> 1
              [] s = "PREPARED" -> 2 [] s = "STARTED" -> 3
              [] s = "STOPPED"  -> 4]

Counter == 0 .. (CounterMod - 1)

Inc(x) == (x + 1) % CounterMod
Dec(x) == (x - 1) % CounterMod

(* The client stages.  "idle" = has no open of the device.                *)
Stages == {"idle", "opened", "prepared", "started", "stopped"}

(* Program points of a thread inside a call; "idle" = in no call.          *)
PCs == {"idle", "open_pcm", "prepare_pcm", "stop_pcm", "close_pcm",
        "sp_free", "sp_null", "sp_alloc"}

(* update_sysfs_fd: the node is opened lazily on first use; opening may   *)
(* fail (permissions not yet set up) and is then retried on the next use. *)
(* The write itself is best effort and changes no modelled state.         *)
update_sysfs_fd ==
    sysfsFd' \in IF sysfsFd THEN {TRUE} ELSE BOOLEAN

-----------------------------------------------------------------------------
Init ==
    /\ lock = NoThread
    /\ state = "CLOSED"
    /\ refcnt = [open |-> 0, prepare |-> 0, start |-> 0]
    /\ pcm = "null"
    /\ liveHandles = 0
    /\ sysfsFd = FALSE
    /\ params = "null"
    /\ paramBlobs = 0
    /\ doubleFree = FALSE
    /\ pc = [t \in Clients |-> "idle"]
    /\ cs = [t \in Clients |-> "idle"]

(* Which calls a client makes from which stage.  Every client follows the *)
(* open / prepare / start / stop / close protocol, may prepare again      *)
(* after a stop, and the prepares while the device stays open are capped  *)
(* at MaxPrepare; an Unmatched client also closes without an open, and *)
(* an Unchecked client                                      *)
(* also starts before preparing, stops without having started and closes  *)
(* while started.                                                          *)
MayOpen(t)    == cs[t] = "idle"
MayPrepare(t) == cs[t] \in {"opened", "stopped"} /\ refcnt.prepare < MaxPrepare
MayStart(t)   == \/ cs[t] \in {"prepared", "stopped"}
                 \/ t \in Unchecked /\ cs[t] = "opened"
MayStop(t)    == \/ cs[t] = "started"
                 \/ t \in Unchecked /\ cs[t] \in {"opened", "prepared", "stopped"}
MayClose(t)   == \/ cs[t] \in {"opened", "prepared", "stopped"}
                 \/ t \in Unchecked /\ cs[t] = "started"
                 \/ t \in Unmatched /\ cs[t] = "idle"

Call(t) == pc[t] = "idle" /\ lock = NoThread

(* The stage of a client after a successful device_stop of its own.       *)
Stopped(s) == IF s = "started" THEN "stopped" ELSE s

-----------------------------------------------------------------------------
(* Plausible bugs of the code below, each checked to be caught by a        *)
(* property (see PROJECT.json "mutants").                                  *)

(* device_open's "already opened" path forgets refcnt.open++.             *)
device_open_noinc(t) ==
    /\ Call(t) /\ MayOpen(t)
    /\ \/ /\ refcnt.open # 0
          /\ cs' = [cs EXCEPT ![t] = "opened"]
          /\ UNCHANGED <<lock, pc, refcnt>>
       \/ /\ refcnt.open = 0
          /\ lock' = t
          /\ pc' = [pc EXCEPT ![t] = "open_pcm"]
          /\ UNCHANGED <<refcnt, cs>>
    /\ UNCHANGED <<state, pcm, liveHandles, sysfsFd, params, paramBlobs,
                   doubleFree>>

(* device_open_pcm returns on pcm_open failure without unlocking.         *)
device_open_pcm_leak(t) ==
    /\ pc[t] = "open_pcm"
    /\ pc' = [pc EXCEPT ![t] = "idle"]
    /\ \/ /\ liveHandles' = liveHandles + 1
          /\ pcm' = "live"
          /\ update_sysfs_fd
          /\ state' = "OPENED"
          /\ refcnt' = [refcnt EXCEPT !.open = Inc(@)]
          /\ cs' = [cs EXCEPT ![t] = "opened"]
          /\ lock' = NoThread
       \/ UNCHANGED <<liveHandles, pcm, sysfsFd, state, refcnt, cs, lock>>
    /\ UNCHANGED <<params, paramBlobs, doubleFree>>

(* device_prepare_pcm's error path skips pthread_mutex_unlock.             *)
device_prepare_pcm_leak(t) ==
    /\ pc[t] = "prepare_pcm"
    /\ pc' = [pc EXCEPT ![t] = "idle"]
    /\ \/ /\ state' = "PREPARED"
          /\ refcnt' = [refcnt EXCEPT !.prepare = Inc(@)]
          /\ cs' = [cs EXCEPT ![t] = "prepared"]
          /\ lock' = NoThread
       \/ UNCHANGED <<state, refcnt, cs, lock>>
    /\ UNCHANGED <<pcm, liveHandles, sysfsFd, params, paramBlobs,
                   doubleFree>>

(* device_stop calls pcm_stop on every stop, not only the last one.       *)
device_stop_always(t) ==
    /\ Call(t) /\ MayStop(t)
    /\ \/ /\ refcnt.start = 0
          /\ UNCHANGED <<lock, refcnt, pc, cs>>
       \/ /\ refcnt.start # 0
          /\ refcnt' = [refcnt EXCEPT !.start = Dec(@)]
          /\ lock' = t
          /\ pc' = [pc EXCEPT ![t] = "stop_pcm"]
          /\ UNCHANGED cs
    /\ UNCHANGED <<state, pcm, liveHandles, sysfsFd, params, paramBlobs,
                   doubleFree>>

(* device_close tests the count before decrementing (refcnt.open-- == 0). *)
device_close_postdec(t) ==
    /\ Call(t) /\ MayClose(t)
    /\ refcnt' = [refcnt EXCEPT !.open = Dec(@)]
    /\ \/ /\ refcnt.open = 0
          /\ lock' = t
          /\ pc' = [pc EXCEPT ![t] = "close_pcm"]
          /\ UNCHANGED cs
       \/ /\ refcnt.open # 0
          /\ cs' = [cs EXCEPT ![t] = "idle"]
          /\ UNCHANGED <<lock, pc>>
    /\ UNCHANGED <<state, pcm, liveHandles, sysfsFd, params, paramBlobs,
                   doubleFree>>

(* device_close sets DEV_CLOSED outside the "last closer" branch.          *)
device_close_state(t) ==
    /\ Call(t) /\ MayClose(t)
    /\ refcnt' = [refcnt EXCEPT !.open = Dec(@)]
    /\ \/ /\ Dec(refcnt.open) = 0
          /\ lock' = t
          /\ pc' = [pc EXCEPT ![t] = "close_pcm"]
          /\ UNCHANGED <<cs, state>>
       \/ /\ Dec(refcnt.open) # 0
          /\ cs' = [cs EXCEPT ![t] = "idle"]
          /\ state' = "CLOSED"
          /\ UNCHANGED <<lock, pc>>
    /\ UNCHANGED <<pcm, liveHandles, sysfsFd, params, paramBlobs,
                   doubleFree>>

(* device_close_pcm forgets to reset refcnt.prepare.                       *)
device_close_pcm_noreset(t) ==
    /\ pc[t] = "close_pcm"
    /\ update_sysfs_fd
    /\ liveHandles' = liveHandles - 1
    /\ pcm' = "dangling"
    /\ state' = "CLOSED"
    /\ refcnt' = [refcnt EXCEPT !.start = 0]
    /\ cs' = [cs EXCEPT ![t] = "idle"]
    /\ lock' = NoThread
    /\ pc' = [pc EXCEPT ![t] = "idle"]
    /\ UNCHANGED <<params, paramBlobs, doubleFree>>

(* device_set_params drops the previous blob without free().              *)
device_set_params_free_skip(t) ==
    /\ pc[t] = "sp_free"
    /\ pc' = [pc EXCEPT ![t] = "sp_null"]
    /\ UNCHANGED <<lock, state, refcnt, pcm, liveHandles, sysfsFd, params,
                   paramBlobs, doubleFree, cs>>

-----------------------------------------------------------------------------
(* device_open, up to the driver call: a later opener only counts itself. *)
device_open(t) ==
    /\ Call(t) /\ MayOpen(t)
    /\ \/ /\ refcnt.open # 0
          /\ refcnt' = [refcnt EXCEPT !.open = Inc(@)]
          /\ cs' = [cs EXCEPT ![t] = "opened"]
          /\ UNCHANGED <<lock, pc>>
       \/ /\ refcnt.open = 0
          /\ lock' = t
          /\ pc' = [pc EXCEPT ![t] = "open_pcm"]
          /\ UNCHANGED <<refcnt, cs>>
    /\ UNCHANGED <<state, pcm, liveHandles, sysfsFd, params, paramBlobs,
                   doubleFree>>

(* device_open, the first opener: pcm_open either fails (nothing changes) *)
(* or opens a handle, notifies "enabled" and records the open.            *)
device_open_pcm(t) ==
    /\ ~AlsaLib
    /\ pc[t] = "open_pcm"
    /\ \/ /\ liveHandles' = liveHandles + 1
          /\ pcm' = "live"
          /\ update_sysfs_fd
          /\ state' = "OPENED"
          /\ refcnt' = [refcnt EXCEPT !.open = Inc(@)]
          /\ cs' = [cs EXCEPT ![t] = "opened"]
       \/ UNCHANGED <<liveHandles, pcm, sysfsFd, state, refcnt, cs>>
    /\ lock' = NoThread
    /\ pc' = [pc EXCEPT ![t] = "idle"]
    /\ UNCHANGED <<params, paramBlobs, doubleFree>>

(* device_open of the alsa-lib build, the first opener: snd_pcm_open may  *)
(* fail; once it has opened the handle, snd_pcm_hw_params_any or          *)
(* snd_pcm_hw_params may fail, and that path goes to done without         *)
(* snd_pcm_close: the handle stays open and nothing records it.           *)
device_open_snd_pcm(t) ==
    /\ AlsaLib
    /\ pc[t] = "open_pcm"
    /\ \/ /\ liveHandles' = liveHandles + 1
          /\ pcm' = "live"
          /\ update_sysfs_fd
          /\ state' = "OPENED"
          /\ refcnt' = [refcnt EXCEPT !.open = Inc(@)]
          /\ cs' = [cs EXCEPT ![t] = "opened"]
       \/ /\ liveHandles < MaxHandles
          /\ liveHandles' = liveHandles + 1
          /\ UNCHANGED <<pcm, sysfsFd, state, refcnt, cs>>
       \/ UNCHANGED <<liveHandles, pcm, sysfsFd, state, refcnt, cs>>
    /\ lock' = NoThread
    /\ pc' = [pc EXCEPT ![t] = "idle"]
    /\ UNCHANGED <<params, paramBlobs, doubleFree>>

(* device_prepare, up to the driver call.                                  *)
device_prepare(t) ==
    /\ Call(t) /\ MayPrepare(t)
    /\ \/ /\ refcnt.prepare # 0
          /\ refcnt' = [refcnt EXCEPT !.prepare = Inc(@)]
          /\ cs' = [cs EXCEPT ![t] = "prepared"]
          /\ UNCHANGED <<lock, pc>>
       \/ /\ refcnt.prepare = 0
          /\ lock' = t
          /\ pc' = [pc EXCEPT ![t] = "prepare_pcm"]
          /\ UNCHANGED <<refcnt, cs>>
    /\ UNCHANGED <<state, pcm, liveHandles, sysfsFd, params, paramBlobs,
                   doubleFree>>

(* device_prepare: pcm_prepare fails (nothing recorded) or succeeds.      *)
device_prepare_pcm(t) ==
    /\ pc[t] = "prepare_pcm"
    /\ \/ /\ state' = "PREPARED"
          /\ refcnt' = [refcnt EXCEPT !.prepare = Inc(@)]
          /\ cs' = [cs EXCEPT ![t] = "prepared"]
       \/ UNCHANGED <<state, refcnt, cs>>
    /\ lock' = NoThread
    /\ pc' = [pc EXCEPT ![t] = "idle"]
    /\ UNCHANGED <<pcm, liveHandles, sysfsFd, params, paramBlobs,
                   doubleFree>>

(* device_start: no driver call; refused before the device is prepared.   *)
device_start(t) ==
    /\ Call(t) /\ MayStart(t)
    /\ \/ /\ Rank[state] < Rank["PREPARED"]
          /\ UNCHANGED <<state, refcnt, cs>>
       \/ /\ Rank[state] >= Rank["PREPARED"]
          /\ state' = IF refcnt.start # 0 THEN state ELSE "STARTED"
          /\ refcnt' = [refcnt EXCEPT !.start = Inc(@)]
          /\ cs' = [cs EXCEPT ![t] = "started"]
    /\ UNCHANGED <<lock, pcm, liveHandles, sysfsFd, params, paramBlobs,
                   doubleFree, pc>>

(* device_stop, up to the driver call: the last stopper keeps the lock.   *)
device_stop(t) ==
    /\ Call(t) /\ MayStop(t)
    /\ \/ /\ refcnt.start = 0
          /\ UNCHANGED <<lock, refcnt, pc, cs>>
       \/ /\ refcnt.start # 0
          /\ refcnt' = [refcnt EXCEPT !.start = Dec(@)]
          /\ \/ /\ Dec(refcnt.start) = 0
                /\ lock' = t
                /\ pc' = [pc EXCEPT ![t] = "stop_pcm"]
                /\ UNCHANGED cs
             \/ /\ Dec(refcnt.start) # 0
                /\ cs' = [cs EXCEPT ![t] = Stopped(@)]
                /\ UNCHANGED <<lock, pc>>
    /\ UNCHANGED <<state, pcm, liveHandles, sysfsFd, params, paramBlobs,
                   doubleFree>>

(* device_stop, last stopper: pcm_stop's error is only logged; the state  *)
(* becomes STOPPED either way.                                             *)
device_stop_pcm(t) ==
    /\ pc[t] = "stop_pcm"
    /\ state' = "STOPPED"
    /\ cs' = [cs EXCEPT ![t] = Stopped(@)]
    /\ lock' = NoThread
    /\ pc' = [pc EXCEPT ![t] = "idle"]
    /\ UNCHANGED <<refcnt, pcm, liveHandles, sysfsFd, params, paramBlobs,
                   doubleFree>>

(* device_close, up to the driver call: --refcnt.open, and the last       *)
(* closer keeps the lock.                                                   *)
device_close(t) ==
    /\ Call(t) /\ MayClose(t)
    /\ refcnt' = [refcnt EXCEPT !.open = Dec(@)]
    /\ \/ /\ Dec(refcnt.open) = 0
          /\ lock' = t
          /\ pc' = [pc EXCEPT ![t] = "close_pcm"]
          /\ UNCHANGED cs
       \/ /\ Dec(refcnt.open) # 0
          /\ cs' = [cs EXCEPT ![t] = "idle"]
          /\ UNCHANGED <<lock, pc>>
    /\ UNCHANGED <<state, pcm, liveHandles, sysfsFd, params, paramBlobs,
                   doubleFree>>

(* device_close, last closer: notify "disabled", pcm_close (which frees   *)
(* the handle even when it reports an error; dev_obj->pcm is left         *)
(* pointing at it), state CLOSED, prepare and start counts reset.         *)
device_close_pcm(t) ==
    /\ pc[t] = "close_pcm"
    /\ update_sysfs_fd
    /\ liveHandles' = liveHandles - 1
    /\ pcm' = "dangling"
    /\ state' = "CLOSED"
    /\ refcnt' = [refcnt EXCEPT !.prepare = 0, !.start = 0]
    /\ cs' = [cs EXCEPT ![t] = "idle"]
    /\ lock' = NoThread
    /\ pc' = [pc EXCEPT ![t] = "idle"]
    /\ UNCHANGED <<params, paramBlobs, doubleFree>>

(* pthread_mutex_unlock on the default (normal) mutex does not check the  *)
(* owner: the outcome is that the mutex is released, or (a checking      *)
(* build) that nothing happens.                                            *)
UnlockUnowned == lock' \in {NoThread, lock}

(* device_set_params: the opening pthread_mutex_unlock, taken by no lock. *)
device_set_params(t) ==
    /\ t \in ParamSetters
    /\ pc[t] = "idle"
    /\ UnlockUnowned
    /\ pc' = [pc EXCEPT ![t] = "sp_free"]
    /\ UNCHANGED <<state, refcnt, pcm, liveHandles, sysfsFd, params, paramBlobs,
                   doubleFree, cs>>

(* device_set_params: if (dev_obj->params) free(dev_obj->params).  With  *)
(* no lock held the blob may already have been freed by another caller.  *)
device_set_params_free(t) ==
    /\ pc[t] = "sp_free"
    /\ params' = IF params = "null" THEN "null" ELSE "freed"
    /\ paramBlobs' = IF params = "live" THEN paramBlobs - 1 ELSE paramBlobs
    /\ doubleFree' = (doubleFree \/ params = "freed")
    /\ pc' = [pc EXCEPT ![t] = "sp_null"]
    /\ UNCHANGED <<lock, state, refcnt, pcm, liveHandles, sysfsFd, cs>>

(* device_set_params: dev_obj->params = NULL; params_size = 0.            *)
device_set_params_null(t) ==
    /\ pc[t] = "sp_null"
    /\ params' = "null"
    /\ pc' = [pc EXCEPT ![t] = "sp_alloc"]
    /\ UNCHANGED <<lock, state, refcnt, pcm, liveHandles, sysfsFd, paramBlobs,
                   doubleFree, cs>>

(* device_set_params: dev_obj->params = calloc(...) (NULL on failure),    *)
(* the copy, and the closing unlock.  The store overwrites whatever blob  *)
(* another caller put there meanwhile.                                     *)
device_set_params_alloc(t) ==
    /\ pc[t] = "sp_alloc"
    /\ \/ /\ params' = "live"
          /\ paramBlobs' = paramBlobs + 1
       \/ /\ params' = "null"
          /\ UNCHANGED paramBlobs
    /\ UnlockUnowned
    /\ pc' = [pc EXCEPT ![t] = "idle"]
    /\ UNCHANGED <<state, refcnt, pcm, liveHandles, sysfsFd, doubleFree, cs>>

Next ==
    \E t \in Clients :
        \/ device_open(t)    \/ device_open_pcm(t)  \/ device_open_snd_pcm(t)
        \/ device_prepare(t) \/ device_prepare_pcm(t)
        \/ device_start(t)
        \/ device_stop(t)    \/ device_stop_pcm(t)
        \/ device_close(t)   \/ device_close_pcm(t)
        \/ device_set_params(t)
        \/ device_set_params_free(t) \/ device_set_params_null(t)
        \/ device_set_params_alloc(t)

Spec == Init /\ [][Next]_vars

-----------------------------------------------------------------------------
TypeOK ==
    /\ lock \in Clients \cup {NoThread}
    /\ state \in DevStates
    /\ refcnt \in [open : Counter, prepare : Counter, start : Counter]
    /\ pcm \in {"null", "live", "dangling"}
    /\ liveHandles \in Int
    /\ sysfsFd \in BOOLEAN
    /\ params \in {"null", "live", "freed"}
    /\ paramBlobs \in Int
    /\ doubleFree \in BOOLEAN
    /\ pc \in [Clients -> PCs]
    /\ cs \in [Clients -> Stages]

(* Threads inside the last-closer and last-stopper driver calls.           *)
Closing  == {t \in Clients : pc[t] = "close_pcm"}
Stopping == {t \in Clients : pc[t] = "stop_pcm"}

(* The sessions refcnt.open and refcnt.start count.                        *)
HeldBy    == {u \in Clients : cs[u] # "idle"} \ Closing
StartedBy == {u \in Clients : cs[u] = "started"} \ Stopping

(* The reference counts count the clients: refcnt.open is the number of   *)
(* sessions holding an open of the device, refcnt.start the number that   *)
(* have it started (the last closer/stopper has already decremented).      *)
(* It is what device_open/device_close/device_start/device_stop rely on   *)
(* for "first opener pays, last releaser closes".                          *)
RefcountMatchesClients ==
    /\ refcnt.open = Cardinality({t \in Clients : cs[t] # "idle"} \ Closing)
    /\ refcnt.start = Cardinality({t \in Clients : cs[t] = "started"} \ Stopping)

(* The invariants of the refcounts stated for struct device_obj: prepare  *)
(* and start counts are non-zero only while the device is open (outside   *)
(* the last closer's driver call), and a non-zero start count means the   *)
(* device is STARTED.                                                       *)
DeviceInvariants ==
    /\ Closing = {} => (refcnt.prepare # 0 => refcnt.open # 0)
    /\ Closing = {} => (refcnt.open = 0 => refcnt.prepare = 0 /\ refcnt.start = 0)
    /\ refcnt.start # 0 => state = "STARTED"

(* Exactly one PCM driver handle exists while any session holds the       *)
(* device open (or the last closer is closing it), none otherwise, and     *)
(* dev_obj->pcm points at it: concurrent device_open calls open the driver *)
(* once, and the last device_close closes it.                              *)
SingleDriverHandle ==
    /\ liveHandles = IF refcnt.open # 0 \/ Closing # {} THEN 1 ELSE 0
    /\ (pcm = "live") = (liveHandles # 0)

(* A session that has prepared the device (and possibly stopped it) is    *)
(* never refused by device_start's "not yet prepared" check, whatever the  *)
(* other sessions did in between.                                           *)
StartNeverRefused ==
    \A t \in Clients :
        cs[t] \in {"prepared", "stopped"} => Rank[state] >= Rank["PREPARED"]

(* No lifecycle call returns with dev_obj->lock held: the lock is held    *)
(* only by a thread that is inside a driver call.                          *)
NoLockLeak ==
    lock # NoThread => pc[lock] \in {"open_pcm", "prepare_pcm", "stop_pcm", "close_pcm"}

(* The last device_stop and the last device_close act on the hardware    *)
(* only when no other session still uses it: a step that moves the state *)
(* to STOPPED leaves no session started, and a step that closes the PCM   *)
(* handle leaves no session holding the device.                            *)
ReleaseStep ==
    /\ (state' = "STOPPED" /\ state # "STOPPED")
          => \A t \in Clients : cs'[t] # "started"
    /\ liveHandles' < liveHandles
          => \A t \in Clients : cs'[t] = "idle"

ReleaseOnlyWhenUnused == [][ReleaseStep]_vars

(* The PCM driver is only ever called on the handle device_open stored:  *)
(* pcm_prepare, pcm_stop and pcm_close never receive a NULL dev_obj->pcm  *)
(* or the one the last device_close already closed.                       *)
DriverCallsOnLiveHandle ==
    \A t \in Clients :
        pc[t] \in {"prepare_pcm", "stop_pcm", "close_pcm"} => pcm = "live"

(* The params blob is owned by the device object (spec: replaced wholesale *)
(* on each set, old blob freed first): no blob device_set_params allocated *)
(* is lost or freed twice, so the only one allocated is the one            *)
(* dev_obj->params points to.                                              *)
ParamsOwned ==
    /\ ~doubleFree
    /\ paramBlobs = IF params = "live" THEN 1 ELSE 0

(* The refinement mapping to the abstract session specification: the     *)
(* holders are the sessions refcnt.open counts, the starters those        *)
(* refcnt.start counts, and the abstract driver handle is dev_obj->pcm    *)
(* pointing at an open handle.                                             *)
Abs == INSTANCE DeviceSessions
           WITH Sessions <- Clients, holders <- HeldBy,
                starters <- StartedBy, handle <- (pcm = "live")

(* Every behaviour of the device object is one of the abstract            *)
(* specification: device_open takes a hold and leaves the handle open,    *)
(* device_close gives up a hold without touching the handle, and the last *)
(* closer's pcm_close happens only once nobody holds the device.          *)
ImplementsSessions == Abs!Spec
=============================================================================
