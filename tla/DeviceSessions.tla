---------------------------- MODULE DeviceSessions ---------------------------
(***************************************************************************)
(* What the reference counting of struct device_obj (device.c) promises   *)
(* the audio sessions sharing one device, with the locking, the refcount  *)
(* arithmetic and the driver calls abstracted away: a session opens and   *)
(* closes the device, starts and stops it in between, and one driver      *)
(* handle is open whenever some session holds the device.  The handle is *)
(* opened by the open that finds no holder and closed, later and on its   *)
(* own, once no session holds the device any more.  DeviceLifecycle       *)
(* implements this specification (DeviceLifecycle!ImplementsSessions).    *)
(***************************************************************************)
CONSTANT Sessions

VARIABLES
    holders,   \* the sessions holding an open of the device
    starters,  \* the sessions that have the device started
    handle     \* a PCM driver handle is open

vars == <<holders, starters, handle>>

Init ==
    /\ holders = {}
    /\ starters = {}
    /\ handle = FALSE

(* A session opens the device; the driver handle is open afterwards.      *)
Open(s) ==
    /\ s \notin holders
    /\ holders' = holders \cup {s}
    /\ handle' = TRUE
    /\ UNCHANGED starters

Start(s) ==
    /\ s \in holders \ starters
    /\ starters' = starters \cup {s}
    /\ UNCHANGED <<holders, handle>>

Stop(s) ==
    /\ s \in starters
    /\ starters' = starters \ {s}
    /\ UNCHANGED <<holders, handle>>

(* A session that is not running the device gives up its open; the      *)
(* handle stays open.                                                      *)
Close(s) ==
    /\ s \in holders \ starters
    /\ holders' = holders \ {s}
    /\ UNCHANGED <<starters, handle>>

(* The handle is closed once nobody holds the device.                     *)
CloseDriver ==
    /\ holders = {}
    /\ handle
    /\ handle' = FALSE
    /\ UNCHANGED <<holders, starters>>

Next ==
    \/ \E s \in Sessions : Open(s) \/ Start(s) \/ Stop(s) \/ Close(s)
    \/ CloseDriver

Spec == Init /\ [][Next]_vars

(* The promise: a session holding the device always finds the driver     *)
(* handle open, and only a holder has the device started.                 *)
HandleWhileHeld ==
    /\ holders # {} => handle
    /\ starters \subseteq holders
=============================================================================
