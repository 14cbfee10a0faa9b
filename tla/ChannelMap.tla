----------------------------- MODULE ChannelMap -----------------------------
(***************************************************************************)
(* device_get_channel_map, called concurrently by client threads with no  *)
(* lock: the lazy open of the process-wide mixer handle, the two buffers  *)
(* it allocates (mixer_str and payload) and their release on every path.  *)
(* Both builds are modelled: tinyalsa (mixer_get_ctl_by_name,             *)
(* mixer_ctl_get_array) and alsa-lib (snd_ctl_elem_info,                  *)
(* snd_ctl_elem_read), chosen by the constant AlsaLib.                    *)
(*                                                                         *)
(* A mixer handle is named by the thread whose open created it.  The card *)
(* id comes from device_get_snd_card_id, which reads device_list[0]; after *)
(* a successful discovery that entry is live (DeviceRegistry's             *)
(* RegistryExact), so its -EINVAL branch is not taken here.                *)
(***************************************************************************)
EXTENDS FiniteSets

CONSTANTS
    Threads,    \* client threads calling device_get_channel_map
    AlsaLib,    \* DEVICE_USES_ALSALIB
    None        \* the NULL mixer

ASSUME ChannelMapAssumption == AlsaLib \in BOOLEAN /\ None \notin Threads

VARIABLES
    mixer,      \* the static mixer handle
    opened,     \* mixer handles ever opened
    pc,         \* where each thread is in its call
    str,        \* the thread's mixer_str: "none", "alloc" or "freed"
    payload     \* the thread's payload: "none", "alloc", "freed" or "caller"

vars == <<mixer, opened, pc, str, payload>>

Init ==
    /\ mixer = None
    /\ opened = {}
    /\ pc = [t \in Threads |-> "idle"]
    /\ str = [t \in Threads |-> "none"]
    /\ payload = [t \in Threads |-> "none"]

(* Return from the call, freeing mixer_str if it was allocated (done:).   *)
Return(t) ==
    /\ pc' = [pc EXCEPT ![t] = "idle"]
    /\ str' = [str EXCEPT ![t] = IF @ = "alloc" THEN "freed" ELSE @]

(* The payload on a failed lookup or read: err_get_ctl frees it in the    *)
(* tinyalsa build; the alsa-lib build jumps to done, or falls through an  *)
(* err_get_ctl label with no free, and keeps it.                           *)
ErrorPathPayload(t) ==
    payload' = [payload EXCEPT ![t] = IF AlsaLib THEN @ ELSE "freed"]

-----------------------------------------------------------------------------
(* Plausible bugs of the code below, each checked to be caught by a        *)
(* property (see PROJECT.json "mutants").                                  *)

(* The control lookup failing returns without free(payload).               *)
get_channel_map_lookup_nofree(t) ==
    /\ pc[t] = "lookup"
    /\ \/ /\ pc' = [pc EXCEPT ![t] = "read"]
          /\ UNCHANGED <<str, payload>>
       \/ /\ Return(t)
          /\ UNCHANGED payload
    /\ UNCHANGED <<mixer, opened>>

-----------------------------------------------------------------------------
(* Entry: if (mixer == NULL) is read before the open, with no lock.       *)
get_channel_map_check(t) ==
    /\ pc[t] = "idle"
    /\ pc' = [pc EXCEPT ![t] = IF mixer = None THEN "open" ELSE "alloc_str"]
    /\ str' = [str EXCEPT ![t] = "none"]
    /\ payload' = [payload EXCEPT ![t] = "none"]
    /\ UNCHANGED <<mixer, opened>>

(* mixer = mixer_open(card_id) (snd_ctl_open(&mixer, ...)): on success the *)
(* static is overwritten whatever another thread stored meanwhile.  On    *)
(* failure the call returns -EINVAL; tinyalsa's assignment has stored     *)
(* NULL over any handle another thread opened, while snd_ctl_open, outside *)
(* this repository, may or may not have written its out-parameter.        *)
get_channel_map_open(t) ==
    /\ pc[t] = "open"
    /\ \/ /\ mixer' = t
          /\ opened' = opened \cup {t}
          /\ pc' = [pc EXCEPT ![t] = "alloc_str"]
       \/ /\ pc' = [pc EXCEPT ![t] = "idle"]
          /\ mixer' \in IF AlsaLib THEN {mixer, None} ELSE {None}
          /\ UNCHANGED opened
    /\ UNCHANGED <<str, payload>>

(* mixer_str = calloc(...): on failure return -ENOMEM.                     *)
get_channel_map_alloc_str(t) ==
    /\ pc[t] = "alloc_str"
    /\ \/ /\ str' = [str EXCEPT ![t] = "alloc"]
          /\ pc' = [pc EXCEPT ![t] = "alloc_payload"]
       \/ /\ pc' = [pc EXCEPT ![t] = "idle"]
          /\ UNCHANGED str
    /\ UNCHANGED <<mixer, opened, payload>>

(* payload = calloc(16, ...): on failure goto done.                         *)
get_channel_map_alloc_payload(t) ==
    /\ pc[t] = "alloc_payload"
    /\ \/ /\ payload' = [payload EXCEPT ![t] = "alloc"]
          /\ pc' = [pc EXCEPT ![t] = "lookup"]
          /\ UNCHANGED str
       \/ /\ Return(t)
          /\ UNCHANGED payload
    /\ UNCHANGED <<mixer, opened>>

(* The control lookup by name (mixer_get_ctl_by_name, snd_ctl_elem_info): *)
(* on failure return through the build's error path.                       *)
get_channel_map_lookup(t) ==
    /\ pc[t] = "lookup"
    /\ \/ /\ pc' = [pc EXCEPT ![t] = "read"]
          /\ UNCHANGED <<str, payload>>
       \/ /\ Return(t)
          /\ ErrorPathPayload(t)
    /\ UNCHANGED <<mixer, opened>>

(* Reading the 16-word array: on success *chmap = payload (the caller     *)
(* owns it); on failure the build's error path.                            *)
get_channel_map_read(t) ==
    /\ pc[t] = "read"
    /\ Return(t)
    /\ \/ payload' = [payload EXCEPT ![t] = "caller"]
       \/ ErrorPathPayload(t)
    /\ UNCHANGED <<mixer, opened>>

Next ==
    \E t \in Threads :
        \/ get_channel_map_check(t)
        \/ get_channel_map_open(t)
        \/ get_channel_map_alloc_str(t)
        \/ get_channel_map_alloc_payload(t)
        \/ get_channel_map_lookup(t)
        \/ get_channel_map_read(t)

Spec == Init /\ [][Next]_vars

-----------------------------------------------------------------------------
TypeOK ==
    /\ mixer \in Threads \cup {None}
    /\ opened \in SUBSET Threads
    /\ pc \in [Threads -> {"idle", "open", "alloc_str", "alloc_payload",
                           "lookup", "read"}]
    /\ str \in [Threads -> {"none", "alloc", "freed"}]
    /\ payload \in [Threads -> {"none", "alloc", "freed", "caller"}]

(* Every call of device_get_channel_map returns having released what it  *)
(* allocated, except the payload it hands to the caller on success (spec: *)
(* partial allocations are released before returning).                     *)
NoBufferLeak ==
    \A t \in Threads :
        pc[t] = "idle" => /\ str[t] # "alloc"
                          /\ payload[t] # "alloc"

(* The process-wide mixer is opened once: every handle any call opened is *)
(* the one the static mixer holds, so none is lost (spec: the handle is   *)
(* reused and never reopened while valid).                                 *)
NoMixerLeak ==
    opened \subseteq {mixer}
=============================================================================
