--------------------------- MODULE DeviceRegistry ---------------------------
(***************************************************************************)
(* The device registry of device.c: parse_snd_card's two passes over      *)
(* /proc/asound/pcm, device_init's retry loop on EAGAIN, the lookups       *)
(* device_get_obj and device_get_aif_info_list, and device_deinit.        *)
(*                                                                         *)
(* Discovery runs on one thread; the kernel registering sound cards is the *)
(* other actor: each registration adds a line to /proc/asound/pcm.  A      *)
(* device object is named by the attempt that allocated it and the line it *)
(* was parsed from; device_list is a function over the slots that any      *)
(* capacity the code can reach fits in.                                    *)
(***************************************************************************)
EXTENDS Naturals, FiniteSets

CONSTANTS
    MaxLines,           \* lines /proc/asound/pcm can reach
    MaxRetry,           \* MAX_RETRY
    Null,               \* a NULL device_obj pointer
    Faults,             \* fopen and calloc may fail
    RegisterAnyTime,    \* a card may register while parse_snd_card reads
    DeinitAfterFailure  \* device_deinit may follow a failed device_init

ASSUME RegistryAssumption ==
    /\ MaxLines \in Nat /\ MaxRetry \in Nat \ {0}
    /\ Faults \in BOOLEAN /\ RegisterAnyTime \in BOOLEAN
    /\ DeinitAfterFailure \in BOOLEAN
    /\ Null \notin Nat \X Nat

VARIABLES
    lines,      \* lines in /proc/asound/pcm
    num,        \* num_audio_intfs
    list,       \* the device_list allocation: "null", "live" or "freed"
    cap,        \* its length, as passed to calloc
    slot,       \* its entries
    objs,       \* the heap state of every device object
    pc,         \* where the discovery thread is
    retries,    \* device_init's retries
    ret,        \* the last return code of parse_snd_card
    pos,        \* lines the parsing pass has read
    count,      \* parse_snd_card's count
    probed,     \* lines whose probe passed in the current attempt
    di,         \* device_deinit's list_count
    lastRead    \* what the last lookup by a client read

vars == <<lines, num, list, cap, slot, objs, pc, retries, ret, pos, count,
          probed, di, lastRead>>

SlotBound == MaxLines * MaxRetry
Slots     == 0..(SlotBound - 1)
Objects   == (1..MaxRetry) \X (1..MaxLines)
Attempt   == MaxRetry - retries + 1

Init ==
    /\ lines \in 0..MaxLines
    /\ num = 0
    /\ list = "null" /\ cap = 0
    /\ slot = [i \in Slots |-> Null]
    /\ objs = [o \in Objects |-> "none"]
    /\ pc = "boot"
    /\ retries = MaxRetry
    /\ ret = "ok"
    /\ pos = 0 /\ count = 0 /\ probed = {} /\ di = 0
    /\ lastRead = "none"

-----------------------------------------------------------------------------
(* Plausible bugs of the code below, each checked to be caught by a        *)
(* property (see PROJECT.json "mutants").                                  *)

(* device_list allocated one entry short.                                   *)
parse_snd_card_alloc_short ==
    /\ pc = "alloc"
    /\ list' = "live" /\ cap' = IF num > 0 THEN num - 1 ELSE 0
    /\ slot' = [i \in Slots |-> Null]
    /\ pos' = 0 /\ count' = 0 /\ probed' = {}
    /\ pc' = "parse"
    /\ UNCHANGED <<ret, lines, num, objs, retries, di, lastRead>>

(* A failed probe skips the line without free(dev_obj).                     *)
parse_snd_card_line_leak ==
    LET o == <<Attempt, pos + 1>> IN
    /\ pc = "parse" /\ pos < lines
    /\ \/ /\ objs' = [objs EXCEPT ![o] = "live"]
          /\ pos' = pos + 1
          /\ UNCHANGED <<slot, count, probed, ret, pc>>
       \/ /\ objs' = [objs EXCEPT ![o] = "live"]
          /\ slot' = [slot EXCEPT ![count] = o]
          /\ count' = count + 1
          /\ probed' = probed \cup {pos + 1}
          /\ pos' = pos + 1
          /\ UNCHANGED <<ret, pc>>
    /\ UNCHANGED <<lines, num, list, cap, retries, di, lastRead>>

(* Success leaves num_audio_intfs at the line count (no "= count").        *)
parse_snd_card_eof_nocount ==
    /\ pc = "parse" /\ pos >= lines
    /\ \/ /\ count = 0
          /\ ret' = "EAGAIN"
          /\ pc' = "free_device"
       \/ /\ count # 0
          /\ ret' = "ok"
          /\ pc' = "returned"
    /\ UNCHANGED <<num, lines, list, cap, slot, objs, retries, pos, count,
                   probed, di, lastRead>>

(* The end of /proc/asound/pcm is noticed one read too late.              *)
parse_snd_card_eof_late ==
    /\ pc = "parse" /\ pos > lines
    /\ \/ /\ count = 0
          /\ ret' = "EAGAIN"
          /\ pc' = "free_device"
          /\ UNCHANGED num
       \/ /\ count # 0
          /\ num' = count
          /\ ret' = "ok"
          /\ pc' = "returned"
    /\ UNCHANGED <<lines, list, cap, slot, objs, retries, pos, count, probed,
                   di, lastRead>>

-----------------------------------------------------------------------------
(* device_init: retries = MAX_RETRY and the first call of parse_snd_card.  *)
device_init ==
    /\ pc = "boot"
    /\ retries' = MaxRetry
    /\ pc' = "open"
    /\ UNCHANGED <<lines, num, list, cap, slot, objs, ret, pos, count, probed,
                   di, lastRead>>

(* parse_snd_card: fopen, then the counting pass, which adds to the       *)
(* static num_audio_intfs that nothing resets.                              *)
parse_snd_card_count ==
    /\ pc = "open"
    /\ \/ /\ Faults
          /\ ret' = "ENODEV"
          /\ pc' = "returned"
          /\ UNCHANGED num
       \/ /\ num' = num + lines
          /\ pc' = "alloc"
          /\ UNCHANGED ret
    /\ UNCHANGED <<lines, list, cap, slot, objs, retries, pos, count, probed,
                   di, lastRead>>

(* parse_snd_card: device_list = calloc(num_audio_intfs, ...), then rewind. *)
parse_snd_card_alloc ==
    /\ pc = "alloc"
    /\ \/ /\ Faults
          /\ list' = "null" /\ cap' = 0
          /\ ret' = "ENOMEM"
          /\ pc' = "returned"
          /\ UNCHANGED <<slot, pos, count, probed>>
       \/ /\ list' = "live" /\ cap' = num
          /\ slot' = [i \in Slots |-> Null]
          /\ pos' = 0 /\ count' = 0 /\ probed' = {}
          /\ pc' = "parse"
          /\ UNCHANGED ret
    /\ UNCHANGED <<lines, num, objs, retries, di, lastRead>>

(* parse_snd_card: one line of the parsing pass.  calloc of the object may *)
(* fail (free everything); a failed probe frees the object and skips the  *)
(* line; a passed one is stored at device_list[count++].                   *)
parse_snd_card_line ==
    LET o == <<Attempt, pos + 1>> IN
    /\ pc = "parse" /\ pos < lines
    /\ \/ /\ Faults
          /\ ret' = "ENOMEM"
          /\ pc' = "free_device"
          /\ UNCHANGED <<slot, objs, pos, count, probed>>
       \/ /\ objs' = [objs EXCEPT ![o] = "freed"]
          /\ pos' = pos + 1
          /\ UNCHANGED <<slot, count, probed, ret, pc>>
       \/ /\ objs' = [objs EXCEPT ![o] = "live"]
          /\ slot' = [slot EXCEPT ![count] = o]
          /\ count' = count + 1
          /\ probed' = probed \cup {pos + 1}
          /\ pos' = pos + 1
          /\ UNCHANGED <<ret, pc>>
    /\ UNCHANGED <<lines, num, list, cap, retries, di, lastRead>>

(* parse_snd_card at end of file: no device found is EAGAIN (free         *)
(* everything), otherwise num_audio_intfs = count.                         *)
parse_snd_card_eof ==
    /\ pc = "parse" /\ pos >= lines
    /\ \/ /\ count = 0
          /\ ret' = "EAGAIN"
          /\ pc' = "free_device"
          /\ UNCHANGED num
       \/ /\ count # 0
          /\ num' = count
          /\ ret' = "ok"
          /\ pc' = "returned"
    /\ UNCHANGED <<lines, list, cap, slot, objs, retries, pos, count, probed,
                   di, lastRead>>

(* parse_snd_card's free_device: free the first num_audio_intfs entries   *)
(* and the list, which device_list keeps pointing at.                      *)
parse_snd_card_free ==
    /\ pc = "free_device"
    /\ LET stored == {slot[i] : i \in 0..(num - 1)} \ {Null} IN
         objs' = [o \in Objects |-> IF o \in stored THEN "freed" ELSE objs[o]]
    /\ list' = "freed"
    /\ pc' = "returned"
    /\ UNCHANGED <<lines, num, cap, slot, retries, ret, pos, count, probed,
                   di, lastRead>>

(* device_init: on EAGAIN, retries-- and sleep; any other result        *)
(* returns.                                                                 *)
device_init_retry ==
    /\ pc = "returned"
    /\ \/ /\ ret = "EAGAIN"
          /\ retries' = retries - 1
          /\ pc' = "sleep"
       \/ /\ ret # "EAGAIN"
          /\ pc' = "done"
          /\ UNCHANGED retries
    /\ UNCHANGED <<lines, num, list, cap, slot, objs, ret, pos, count, probed,
                   di, lastRead>>

(* device_init: sleep(RETRY_INTERVAL), after the last attempt too, then   *)
(* parse_snd_card again while retries > 0.                                 *)
device_init_sleep ==
    /\ pc = "sleep"
    /\ pc' = IF retries > 0 THEN "open" ELSE "done"
    /\ UNCHANGED <<lines, num, list, cap, slot, objs, retries, ret, pos, count,
                   probed, di, lastRead>>

(* The kernel registers a sound card: one more line in /proc/asound/pcm.   *)
card_registers ==
    /\ lines < MaxLines
    /\ RegisterAnyTime \/ pc \in {"boot", "sleep"}
    /\ lines' = lines + 1
    /\ UNCHANGED <<num, list, cap, slot, objs, pc, retries, ret, pos, count,
                   probed, di, lastRead>>
-----------------------------------------------------------------------------
(* What reading device_list[i] yields: an access outside a live list, a  *)
(* NULL entry, a live object or a freed one.                                *)
ReadSlot(i) ==
    IF list # "live" \/ i >= cap THEN "invalid_read"
    ELSE IF slot[i] = Null THEN "null"
    ELSE IF objs[slot[i]] = "live" THEN "ok"
    ELSE "dangling"

(* device_get_obj: the index check is device_idx > num_audio_intfs.       *)
device_get_obj(idx) ==
    /\ pc = "done" /\ ret = "ok"
    /\ lastRead' = IF idx > num THEN "einval" ELSE ReadSlot(idx)
    /\ UNCHANGED <<lines, num, list, cap, slot, objs, pc, retries, ret, pos,
                   count, probed, di>>

(* device_get_aif_info_list: a request of 0 returns the count; otherwise  *)
(* the first min(requested, num_audio_intfs) entries are dereferenced.     *)
device_get_aif_info_list(requested) ==
    LET read == {ReadSlot(i) : i \in 0..(IF num < requested THEN num
                                                          ELSE requested) - 1}
        bad  == read \ {"ok"}
    IN
    /\ pc = "done" /\ ret = "ok"
    /\ lastRead' = IF requested = 0 \/ bad = {} THEN "ok"
                   ELSE CHOOSE r \in bad : TRUE
    /\ UNCHANGED <<lines, num, list, cap, slot, objs, pc, retries, ret, pos,
                   count, probed, di>>

(* device_deinit at service teardown.                                       *)
device_deinit ==
    /\ pc = "done"
    /\ ret = "ok" \/ DeinitAfterFailure
    /\ pc' = "deinit" /\ di' = 0
    /\ UNCHANGED <<lines, num, list, cap, slot, objs, retries, ret, pos, count,
                   probed, lastRead>>

(* device_deinit: one iteration of the loop over num_audio_intfs entries, *)
(* freeing the object's metadata, params and the object.                   *)
device_deinit_obj ==
    /\ pc = "deinit" /\ di < num
    /\ objs' = IF slot[di] \in Objects
                 THEN [objs EXCEPT ![slot[di]] = "freed"] ELSE objs
    /\ di' = di + 1
    /\ UNCHANGED <<lines, num, list, cap, slot, pc, retries, ret, pos, count,
                   probed, lastRead>>

(* device_deinit: free(device_list); device_list = NULL.  num_audio_intfs *)
(* keeps its value.                                                         *)
device_deinit_end ==
    /\ pc = "deinit" /\ di >= num
    /\ list' = "null" /\ cap' = 0
    /\ pc' = "gone"
    /\ UNCHANGED <<lines, num, slot, objs, retries, ret, pos, count, probed, di,
                   lastRead>>

(* The steps of the discovery thread inside device_init.                   *)
InitThread ==
    \/ device_init
    \/ parse_snd_card_count \/ parse_snd_card_alloc
    \/ parse_snd_card_line  \/ parse_snd_card_eof \/ parse_snd_card_free
    \/ device_init_retry    \/ device_init_sleep

Next ==
    \/ InitThread
    \/ card_registers
    \/ \E idx \in 0..SlotBound : device_get_obj(idx)
    \/ \E n \in 0..SlotBound : device_get_aif_info_list(n)
    \/ device_deinit \/ device_deinit_obj \/ device_deinit_end

(* The discovery thread is scheduled while it has a step to take: fopen,  *)
(* fgets, calloc and sleep all return.                                     *)
Spec == Init /\ [][Next]_vars /\ WF_vars(InitThread)

-----------------------------------------------------------------------------
TypeOK ==
    /\ lines \in 0..MaxLines
    /\ num \in 0..SlotBound
    /\ list \in {"null", "live", "freed"} /\ cap \in 0..SlotBound
    /\ slot \in [Slots -> Objects \cup {Null}]
    /\ objs \in [Objects -> {"none", "live", "freed"}]
    /\ retries \in 0..MaxRetry
    /\ ret \in {"ok", "EAGAIN", "ENODEV", "ENOMEM"}
    /\ pos \in 0..MaxLines /\ count \in 0..(MaxLines + 1)
    /\ probed \in SUBSET (1..MaxLines)
    /\ di \in 0..SlotBound
    /\ lastRead \in {"none", "einval", "ok", "null", "dangling", "invalid_read"}

(* The parsing pass never stores past the end of device_list: the number *)
(* of devices it has stored never exceeds the length the counting pass    *)
(* allocated, whatever cards register in between.                          *)
NoListOverflow ==
    pc = "parse" => count <= cap

(* When device_init returns success, device_list[0..num_audio_intfs-1]    *)
(* holds exactly the live device objects, one per line whose probe passed *)
(* in the last attempt, in file order; when it fails, no object is left   *)
(* allocated by any attempt.                                                *)
RegistryExact ==
    pc = "done" =>
        LET entries == {slot[i] : i \in 0..(num - 1)}
            live    == {o \in Objects : objs[o] = "live"}
        IN  IF ret = "ok"
            THEN /\ list = "live" /\ num <= cap /\ Null \notin entries
                 /\ live = entries
                 /\ {slot[i][2] : i \in 0..(num - 1)} = probed
                 /\ \A i, j \in 0..(num - 1) : i < j => slot[i][2] < slot[j][2]
            ELSE live = {}

(* device_deinit only dereferences live device objects inside a live      *)
(* device_list, and never frees device_list twice.                          *)
DeinitSafe ==
    pc = "deinit" =>
        /\ list # "freed"
        /\ di < num => /\ list = "live" /\ di < cap /\ slot[di] # Null
                       /\ objs[slot[di]] = "live"

(* A lookup by index after a successful device_init either rejects the    *)
(* index or reads a live device object (spec: a bad index is an            *)
(* InvalidArgument with no side effect).                                   *)
LookupsSound ==
    lastRead \in {"none", "einval", "ok"}

(* device_init returns: the retry loop is bounded by MAX_RETRY.           *)
InitReturns ==
    <>(pc \in {"done", "deinit", "gone"})
=============================================================================
