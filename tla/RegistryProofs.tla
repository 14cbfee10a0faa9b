---------------------------- MODULE RegistryProofs ---------------------------
(***************************************************************************)
(* Proofs about device discovery and teardown (DeviceRegistry): when no  *)
(* sound card registers while parse_snd_card reads /proc/asound/pcm and   *)
(* device_deinit only follows a successful device_init, the parsing pass  *)
(* never overflows device_list, a successful device_init leaves exactly   *)
(* the probed devices in it, and device_deinit only frees live objects.   *)
(* The two runs registry_card_registers_mid_parse and                     *)
(* registry_deinit_after_failed_init show what happens without either.    *)
(***************************************************************************)
EXTENDS DeviceRegistry, TLAPS

(* The environment the proofs assume.                                      *)
Quiet == ~RegisterAnyTime /\ ~DeinitAfterFailure

(* The device objects allocated and not freed, and the first n entries of *)
(* device_list.                                                             *)
Live      == {o \in Objects : objs[o] = "live"}
Stored(n) == {slot[i] : i \in 0..(n - 1)}

(* The first n entries of device_list are the objects of this attempt for *)
(* the lines probed among the first p, in file order; the rest are NULL.  *)
Parsed(n, p) ==
    /\ \A i \in 0..(n - 1) : /\ slot[i] \in Objects
                             /\ slot[i][1] = Attempt
                             /\ slot[i][2] \in 1..p
    /\ \A i, j \in 0..(n - 1) : i < j => slot[i][2] < slot[j][2]
    /\ \A i \in Slots : i >= n => slot[i] = Null
    /\ {slot[i][2] : i \in 0..(n - 1)} = probed
    /\ Live = Stored(n)

(* num_audio_intfs only grows by one file's lines per attempt.             *)
NumBound ==
    /\ pc \in {"boot", "open", "sleep"} => num <= (Attempt - 1) * MaxLines
    /\ pc \in {"alloc", "parse", "free_device", "returned"} =>
           num <= Attempt * MaxLines
    /\ pc \in {"done", "deinit", "gone"} => num <= SlotBound

(* device_init's retry counter.                                             *)
Retry ==
    /\ pc \notin {"sleep", "done", "deinit", "gone"} => retries \in 1..MaxRetry
    /\ pc = "sleep" => retries \in 0..(MaxRetry - 1)
    /\ pc = "boot" => retries = MaxRetry

(* What the discovery thread knows at each point of device_init.          *)
AtIdle  == /\ pc \in {"boot", "open", "alloc", "sleep"} => Live = {}
           /\ pc = "sleep" => ret = "EAGAIN"
AtAlloc == pc = "alloc" => lines <= num
AtParse ==
    pc = "parse" =>
        /\ list = "live" /\ cap = num /\ lines <= num
        /\ count <= pos /\ pos <= lines
        /\ Parsed(count, pos)
AtFree ==
    pc = "free_device" =>
        /\ list = "live" /\ cap = num /\ lines <= num /\ ret # "ok"
        /\ count <= lines
        /\ Parsed(count, lines)
AtReturn ==
    pc \in {"returned", "done"} =>
        IF ret = "ok"
        THEN /\ list = "live" /\ num <= cap /\ num <= lines
             /\ Parsed(num, lines)
        ELSE Live = {}
AtDeinit ==
    pc = "deinit" =>
        /\ ret = "ok" /\ list = "live" /\ num <= cap /\ di <= num
        /\ \A i \in di..(num - 1) : slot[i] \in Objects /\ objs[slot[i]] = "live"
        /\ \A i, j \in 0..(num - 1) : i # j => slot[i] # slot[j]

(* The inductive invariant of device discovery and teardown.              *)
RInv ==
    /\ TypeOK /\ NumBound /\ Retry
    /\ AtIdle /\ AtAlloc /\ AtParse /\ AtFree /\ AtReturn /\ AtDeinit

(* The number of device slots is enough for every attempt's lines.        *)
LEMMA AttemptArith ==
    ASSUME NEW a \in 1..MaxRetry
    PROVE  /\ (a - 1) * MaxLines \in Nat
           /\ a * MaxLines \in Nat
           /\ (a - 1) * MaxLines + MaxLines = a * MaxLines
           /\ MaxLines <= a * MaxLines
           /\ a * MaxLines <= SlotBound
BY RegistryAssumption DEF SlotBound

LEMMA SlotBoundNat == SlotBound \in Nat /\ MaxLines <= SlotBound
BY RegistryAssumption, AttemptArith DEF SlotBound

LEMMA InitR == Init => RInv
<1> SUFFICES ASSUME Init PROVE RInv
  OBVIOUS
<1>1. Live = {}
  BY DEF Init, Live
<1>2. TypeOK
  BY SlotBoundNat, RegistryAssumption DEF Init, TypeOK, Slots
<1>3. NumBound /\ Retry
  BY RegistryAssumption DEF Init, NumBound, Retry, Attempt
<1>4. QED
  BY <1>1, <1>2, <1>3
     DEF Init, RInv, AtIdle, AtAlloc, AtParse, AtFree, AtReturn, AtDeinit

(* A step that leaves the heap alone leaves the live objects alone.       *)
LEMMA LiveFrame ==
    ASSUME objs' = objs
    PROVE  Live' = Live
BY DEF Live

(* The conjuncts about program points the step does not reach hold        *)
(* vacuously.                                                              *)
LEMMA Vacuous ==
    /\ pc' \notin {"boot", "open", "alloc", "sleep"} => AtIdle'
    /\ pc' # "alloc" => AtAlloc'
    /\ pc' # "parse" => AtParse'
    /\ pc' # "free_device" => AtFree'
    /\ pc' \notin {"returned", "done"} => AtReturn'
    /\ pc' # "deinit" => AtDeinit'
BY DEF AtIdle, AtAlloc, AtParse, AtFree, AtReturn, AtDeinit

LEMMA DeviceInitR ==
    ASSUME RInv, device_init
    PROVE  RInv'
<1>1. pc = "boot" /\ pc' = "open" /\ retries' = MaxRetry /\ objs' = objs
      /\ UNCHANGED <<lines, num, list, cap, slot, ret, pos, count, probed, di,
                     lastRead>>
  BY DEF device_init
<1>2. num = 0
  BY <1>1, RegistryAssumption DEF RInv, NumBound, Retry, Attempt, TypeOK
<1>3. TypeOK'
  BY <1>1, RegistryAssumption DEF RInv, TypeOK
<1>4. NumBound' /\ Retry'
  BY <1>1, <1>2, RegistryAssumption DEF NumBound, Retry, Attempt
<1>5. AtIdle'
  BY <1>1, LiveFrame DEF RInv, AtIdle
<1>6. QED
  BY <1>1, <1>3, <1>4, <1>5, Vacuous DEF RInv

LEMMA CountR ==
    ASSUME RInv, parse_snd_card_count
    PROVE  RInv'
<1>1. pc = "open" /\ retries \in 1..MaxRetry /\ num <= (Attempt - 1) * MaxLines
      /\ num \in Nat /\ lines \in 0..MaxLines /\ Live = {}
  BY DEF RInv, NumBound, Retry, AtIdle, parse_snd_card_count, TypeOK
<1>2. Attempt \in 1..MaxRetry
  BY <1>1, RegistryAssumption DEF Attempt
<1>3. num + lines <= Attempt * MaxLines /\ num <= Attempt * MaxLines
  <2>1. PICK a \in 1..MaxRetry : a = Attempt
    BY <1>2
  <2>2. (a - 1) * MaxLines + MaxLines = a * MaxLines /\ (a - 1) * MaxLines \in Nat
    BY AttemptArith
  <2>3. QED
    BY <1>1, <2>1, <2>2, RegistryAssumption
<1>4. Attempt * MaxLines <= SlotBound
  <2>1. PICK a \in 1..MaxRetry : a = Attempt
    BY <1>2
  <2>2. a * MaxLines <= SlotBound
    BY AttemptArith
  <2>3. QED
    BY <2>1, <2>2
<1>5. Live' = Live /\ retries' = retries
  BY LiveFrame DEF parse_snd_card_count
<1>6. CASE Faults /\ ret' = "ENODEV" /\ pc' = "returned" /\ num' = num
  <2>1. TypeOK' /\ NumBound' /\ Retry'
    BY <1>1, <1>3, <1>4, <1>5, <1>6
       DEF RInv, TypeOK, NumBound, Retry, Attempt, parse_snd_card_count
  <2>2. AtReturn'
    BY <1>1, <1>5, <1>6 DEF AtReturn
  <2>3. QED
    BY <1>6, <2>1, <2>2, Vacuous DEF RInv
<1>7. CASE num' = num + lines /\ pc' = "alloc" /\ ret' = ret
  <2>1. TypeOK'
    <3>1. num' \in 0..SlotBound
      BY <1>1, <1>2, <1>3, <1>4, <1>7, SlotBoundNat, RegistryAssumption
    <3>2. QED
      BY <3>1 DEF RInv, TypeOK, parse_snd_card_count
  <2>2. Attempt' = Attempt
    BY <1>5 DEF Attempt
  <2>3. NumBound' /\ Retry'
    BY <1>1, <1>3, <1>5, <1>7, <2>2 DEF NumBound, Retry
  <2>4. AtIdle' /\ AtAlloc'
    BY <1>1, <1>5, <1>7 DEF AtIdle, AtAlloc, parse_snd_card_count
  <2>5. QED
    BY <1>7, <2>1, <2>3, <2>4, Vacuous DEF RInv
<1>8. QED
  BY <1>6, <1>7 DEF parse_snd_card_count

LEMMA AllocR ==
    ASSUME RInv, parse_snd_card_alloc
    PROVE  RInv'
<1>1. /\ pc = "alloc" /\ Live = {} /\ lines <= num /\ num \in 0..SlotBound
      /\ Live' = Live /\ Attempt' = Attempt
      /\ UNCHANGED <<lines, num, retries>>
  BY LiveFrame DEF RInv, AtIdle, AtAlloc, parse_snd_card_alloc, TypeOK, Attempt
<1>2. CASE /\ list' = "null" /\ cap' = 0 /\ ret' = "ENOMEM" /\ pc' = "returned"
           /\ UNCHANGED <<slot, pos, count, probed>>
  <2>1. TypeOK'
    BY <1>1, <1>2, SlotBoundNat DEF RInv, TypeOK, parse_snd_card_alloc
  <2>2. NumBound' /\ Retry' /\ AtReturn'
    BY <1>1, <1>2 DEF RInv, NumBound, Retry, AtReturn
  <2>3. QED
    BY <1>2, <2>1, <2>2, Vacuous DEF RInv
<1>3. CASE /\ list' = "live" /\ cap' = num /\ slot' = [i \in Slots |-> Null]
           /\ pos' = 0 /\ count' = 0 /\ probed' = {} /\ pc' = "parse"
  <2>1. TypeOK'
    <3>1. slot' \in [Slots -> Objects \cup {Null}] /\ cap' \in 0..SlotBound
      BY <1>1, <1>3
    <3>2. QED
      BY <1>1, <1>3, <3>1, RegistryAssumption DEF RInv, TypeOK, parse_snd_card_alloc
  <2>2. NumBound' /\ Retry'
    BY <1>1, <1>3 DEF RInv, NumBound, Retry
  <2>3. Parsed(0, 0)'
    BY <1>1, <1>3 DEF Parsed, Stored
  <2>4. AtParse'
    BY <1>1, <1>3, <2>3 DEF AtParse, RInv, TypeOK
  <2>5. QED
    BY <1>3, <2>1, <2>2, <2>4, Vacuous DEF RInv
<1>4. QED
  BY <1>2, <1>3 DEF parse_snd_card_alloc

LEMMA SleepR ==
    ASSUME RInv, device_init_sleep
    PROVE  RInv'
<1>1. /\ pc = "sleep" /\ Live' = Live /\ Attempt' = Attempt
      /\ retries \in 0..(MaxRetry - 1) /\ ret = "EAGAIN" /\ Live = {}
      /\ num <= (Attempt - 1) * MaxLines
      /\ UNCHANGED <<lines, num, list, cap, slot, objs, retries, ret, pos, count,
                     probed, di, lastRead>>
  BY LiveFrame DEF RInv, Retry, AtIdle, NumBound, device_init_sleep, Attempt
<1>2. CASE retries > 0
  <2>1. pc' = "open"
    BY <1>2 DEF device_init_sleep
  <2>2. TypeOK' /\ NumBound' /\ Retry' /\ AtIdle'
    BY <1>1, <1>2, <2>1, RegistryAssumption DEF RInv, TypeOK, NumBound, Retry, AtIdle
  <2>3. QED
    BY <2>1, <2>2, Vacuous DEF RInv
<1>3. CASE retries = 0
  <2>1. pc' = "done"
    BY <1>3 DEF device_init_sleep
  <2>2. Attempt - 1 = MaxRetry
    BY <1>3, RegistryAssumption DEF Attempt
  <2>3. (Attempt - 1) * MaxLines = SlotBound
    <3>1. (Attempt - 1) * MaxLines = MaxRetry * MaxLines
      BY <2>2, Zenon
    <3>2. MaxRetry * MaxLines = SlotBound
      BY RegistryAssumption DEF SlotBound
    <3>3. QED
      BY <3>1, <3>2
  <2>4. NumBound' /\ Retry'
    BY <1>1, <2>1, <2>3 DEF NumBound, Retry
  <2>5. TypeOK'
    BY <1>1 DEF RInv, TypeOK
  <2>6. AtReturn'
    BY <1>1, <2>1 DEF AtReturn
  <2>7. QED
    BY <2>1, <2>4, <2>5, <2>6, Vacuous DEF RInv
<1>4. QED
  BY <1>1, <1>2, <1>3, RegistryAssumption

LEMMA RegisterR ==
    ASSUME Quiet, RInv, card_registers
    PROVE  RInv'
<1>1. pc \in {"boot", "sleep"} /\ lines' = lines + 1 /\ lines < MaxLines
      /\ Live' = Live /\ Attempt' = Attempt
      /\ UNCHANGED <<num, list, cap, slot, objs, pc, retries, ret, pos, count,
                     probed, di, lastRead>>
  BY LiveFrame DEF Quiet, card_registers, Attempt
<1>2. TypeOK'
  BY <1>1, RegistryAssumption DEF RInv, TypeOK
<1>3. NumBound' /\ Retry'
  BY <1>1 DEF RInv, NumBound, Retry
<1>4. AtIdle'
  BY <1>1 DEF RInv, AtIdle
<1>5. QED
  BY <1>1, <1>2, <1>3, <1>4, Vacuous DEF RInv

(* A step that only records what a lookup read changes nothing the        *)
(* invariant speaks of but lastRead.                                        *)
LEMMA ReadFrame ==
    ASSUME UNCHANGED <<lines, num, list, cap, slot, objs, pc, retries, ret, pos,
                       count, probed, di>>
    PROVE  /\ NumBound' = NumBound /\ Retry' = Retry
           /\ AtIdle' = AtIdle /\ AtAlloc' = AtAlloc /\ AtParse' = AtParse
           /\ AtFree' = AtFree /\ AtReturn' = AtReturn /\ AtDeinit' = AtDeinit
BY DEF NumBound, Retry, AtIdle, AtAlloc, AtParse, AtFree, AtReturn, AtDeinit,
       Parsed, Live, Stored, Attempt

(* The lookups only record what they read.                                 *)
LEMMA LookupR ==
    ASSUME RInv,
           \/ \E idx \in 0..SlotBound : device_get_obj(idx)
           \/ \E n \in 0..SlotBound : device_get_aif_info_list(n)
    PROVE  RInv'
<1>1. lastRead' \in {"none", "einval", "ok", "null", "dangling", "invalid_read"}
  <2>1. \A i \in Nat : ReadSlot(i) \in {"ok", "null", "dangling", "invalid_read"}
    BY DEF ReadSlot
  <2>2. QED
    BY <2>1 DEF device_get_obj, device_get_aif_info_list
<1>2. UNCHANGED <<lines, num, list, cap, slot, objs, pc, retries, ret, pos,
                  count, probed, di>>
  BY DEF device_get_obj, device_get_aif_info_list
<1>3. TypeOK'
  BY <1>1, <1>2 DEF RInv, TypeOK
<1>4. QED
  BY <1>2, <1>3, ReadFrame DEF RInv

LEMMA RetryR ==
    ASSUME RInv, device_init_retry
    PROVE  RInv'
<1>1. /\ pc = "returned" /\ retries \in 1..MaxRetry /\ num <= Attempt * MaxLines
      /\ num \in 0..SlotBound /\ Live' = Live
      /\ UNCHANGED <<lines, num, list, cap, slot, objs, ret, pos, count, probed,
                     di, lastRead>>
  BY LiveFrame DEF RInv, TypeOK, NumBound, Retry, device_init_retry
<1>2. CASE ret = "EAGAIN" /\ retries' = retries - 1 /\ pc' = "sleep"
  <2>1. Live = {}
    BY <1>1, <1>2 DEF RInv, AtReturn
  <2>2. Attempt' - 1 = Attempt
    BY <1>1, <1>2, RegistryAssumption DEF Attempt
  <2>3. TypeOK'
    BY <1>1, <1>2, RegistryAssumption DEF RInv, TypeOK
  <2>4. NumBound' /\ Retry'
    <3>1. (Attempt' - 1) * MaxLines = Attempt * MaxLines
      BY <2>2, Zenon
    <3>2. num' <= (Attempt' - 1) * MaxLines
      BY <1>1, <3>1
    <3>3. NumBound'
      BY <1>2, <3>2 DEF NumBound
    <3>4. Retry'
      BY <1>1, <1>2, RegistryAssumption DEF Retry
    <3>5. QED
      BY <3>3, <3>4
  <2>5. AtIdle'
    BY <1>1, <1>2, <2>1 DEF AtIdle
  <2>6. QED
    BY <1>2, <2>3, <2>4, <2>5, Vacuous DEF RInv
<1>3. CASE ret # "EAGAIN" /\ pc' = "done" /\ retries' = retries
  <2>1. TypeOK'
    BY <1>1, <1>3 DEF RInv, TypeOK
  <2>2. NumBound' /\ Retry'
    BY <1>1, <1>3 DEF NumBound, Retry
  <2>3. AtReturn'
    BY <1>1, <1>3 DEF RInv, AtReturn, Parsed, Live, Stored, Attempt
  <2>4. QED
    BY <1>3, <2>1, <2>2, <2>3, Vacuous DEF RInv
<1>4. QED
  BY <1>2, <1>3 DEF device_init_retry

(* Device objects of one attempt stored in file order are distinct.       *)
LEMMA SortedDistinct ==
    ASSUME NEW n \in Nat, Parsed(n, lines)
    PROVE  \A i, j \in 0..(n - 1) : i # j => slot[i] # slot[j]
<1>1. SUFFICES ASSUME NEW i \in 0..(n - 1), NEW j \in 0..(n - 1), i # j
               PROVE  slot[i] # slot[j]
  OBVIOUS
<1>2. slot[i][2] # slot[j][2]
  <2>1. CASE i < j
    BY <2>1 DEF Parsed
  <2>2. CASE j < i
    BY <2>2 DEF Parsed
  <2>3. QED
    BY <1>1, <2>1, <2>2
<1>3. QED
  BY <1>2

LEMMA DeinitR ==
    ASSUME Quiet, RInv, device_deinit
    PROVE  RInv'
<1>1. /\ pc = "done" /\ ret = "ok" /\ pc' = "deinit" /\ di' = 0
      /\ UNCHANGED <<lines, num, list, cap, slot, objs, retries, ret, pos, count,
                     probed, lastRead>>
  BY DEF Quiet, device_deinit
<1>2. list = "live" /\ num <= cap /\ num \in Nat /\ Parsed(num, lines)
  BY <1>1 DEF RInv, AtReturn, TypeOK
<1>3. \A i \in 0..(num - 1) : slot[i] \in Objects /\ objs[slot[i]] = "live"
  <2>1. SUFFICES ASSUME NEW i \in 0..(num - 1)
                 PROVE  slot[i] \in Objects /\ objs[slot[i]] = "live"
    OBVIOUS
  <2>2. slot[i] \in Stored(num)
    BY DEF Stored
  <2>3. slot[i] \in Live
    BY <1>2, <2>2 DEF Parsed
  <2>4. QED
    BY <2>3 DEF Live
<1>4. \A i, j \in 0..(num - 1) : i # j => slot[i] # slot[j]
  BY <1>2, SortedDistinct
<1>5. TypeOK'
  BY <1>1, SlotBoundNat DEF RInv, TypeOK
<1>6. NumBound' /\ Retry'
  BY <1>1 DEF RInv, TypeOK, NumBound, Retry
<1>7. AtDeinit'
  BY <1>1, <1>2, <1>3, <1>4 DEF AtDeinit
<1>8. QED
  BY <1>1, <1>5, <1>6, <1>7, Vacuous DEF RInv

LEMMA DeinitObjR ==
    ASSUME RInv, device_deinit_obj
    PROVE  RInv'
<1>1. /\ pc = "deinit" /\ di < num /\ di' = di + 1
      /\ UNCHANGED <<lines, num, list, cap, slot, pc, retries, ret, pos, count,
                     probed, lastRead>>
  BY DEF device_deinit_obj
<1>2. /\ ret = "ok" /\ list = "live" /\ num <= cap /\ di \in Nat
      /\ slot[di] \in Objects /\ objs[slot[di]] = "live"
      /\ \A i \in di..(num - 1) : slot[i] \in Objects /\ objs[slot[i]] = "live"
      /\ \A i, j \in 0..(num - 1) : i # j => slot[i] # slot[j]
  BY <1>1 DEF RInv, AtDeinit, TypeOK
<1>3. objs' = [objs EXCEPT ![slot[di]] = "freed"]
  BY <1>2 DEF device_deinit_obj
<1>4. \A i \in (di + 1)..(num - 1) : slot[i] \in Objects /\ objs'[slot[i]] = "live"
  BY <1>2, <1>3 DEF RInv, TypeOK
<1>5. TypeOK'
  <2>1. di' \in 0..SlotBound
    BY <1>1, <1>2, SlotBoundNat DEF RInv, TypeOK
  <2>2. objs' \in [Objects -> {"none", "live", "freed"}]
    BY <1>2, <1>3 DEF RInv, TypeOK
  <2>3. QED
    BY <1>1, <2>1, <2>2 DEF RInv, TypeOK
<1>6. NumBound' /\ Retry'
  BY <1>1 DEF RInv, NumBound, Retry
<1>7. AtDeinit'
  <2>1. di' <= num
    BY <1>1, <1>2 DEF RInv, TypeOK
  <2>2. \A i \in di'..(num - 1) : slot'[i] \in Objects /\ objs'[slot'[i]] = "live"
    BY <1>1, <1>4
  <2>3. \A i, j \in 0..(num' - 1) : i # j => slot'[i] # slot'[j]
    BY <1>1, <1>2
  <2>4. QED
    BY <1>1, <1>2, <2>1, <2>2, <2>3 DEF AtDeinit
<1>8. QED
  BY <1>1, <1>5, <1>6, <1>7, Vacuous DEF RInv

LEMMA DeinitEndR ==
    ASSUME RInv, device_deinit_end
    PROVE  RInv'
<1>1. /\ pc = "deinit" /\ pc' = "gone" /\ list' = "null" /\ cap' = 0
      /\ UNCHANGED <<lines, num, slot, objs, retries, ret, pos, count, probed, di,
                     lastRead>>
  BY DEF device_deinit_end
<1>2. TypeOK'
  BY <1>1, SlotBoundNat DEF RInv, TypeOK
<1>3. NumBound' /\ Retry'
  BY <1>1 DEF RInv, TypeOK, NumBound, Retry
<1>4. QED
  BY <1>1, <1>2, <1>3, Vacuous DEF RInv

(* Entries parsed from the first p lines were parsed from the first q.    *)
LEMMA ParsedWiden ==
    ASSUME NEW n \in Nat, NEW p \in Nat, NEW q \in Nat, p <= q, Parsed(n, p)
    PROVE  Parsed(n, q)
BY DEF Parsed

(* The object of the line being parsed is not among the stored ones.      *)
LEMMA FreshObject ==
    ASSUME TypeOK, NEW n \in Nat, NEW p \in Nat, Parsed(n, p),
           NEW o \in Objects, o[2] > p
    PROVE  o \notin Live
<1>1. Live = Stored(n)
  BY DEF Parsed
<1>2. \A i \in 0..(n - 1) : slot[i][2] <= p
  BY DEF Parsed
<1>3. o \notin Stored(n)
  <2>1. SUFFICES ASSUME o \in Stored(n) PROVE FALSE
    OBVIOUS
  <2>2. PICK i \in 0..(n - 1) : slot[i] = o
    BY <2>1 DEF Stored
  <2>3. slot[i][2] <= p /\ o[2] \in Nat
    BY <1>2 DEF Objects
  <2>4. QED
    BY <2>2, <2>3
<1>4. QED
  BY <1>1, <1>3

LEMMA EofR ==
    ASSUME RInv, parse_snd_card_eof
    PROVE  RInv'
<1>1. /\ pc = "parse" /\ pos >= lines
      /\ list = "live" /\ cap = num /\ lines <= num /\ count <= pos /\ pos <= lines
      /\ Parsed(count, pos) /\ lines \in Nat /\ count \in Nat /\ pos \in Nat
      /\ retries \in 1..MaxRetry /\ num <= Attempt * MaxLines
      /\ UNCHANGED <<lines, list, cap, slot, objs, retries, pos, count, probed,
                     di, lastRead>>
  BY DEF RInv, AtParse, TypeOK, Retry, NumBound, parse_snd_card_eof
<1>2. pos = lines /\ Live' = Live /\ Attempt' = Attempt
  BY <1>1, LiveFrame DEF Attempt
<1>6. Parsed(count, lines)'
  <2>1. Parsed(count, lines)
    BY <1>1, <1>2
  <2>2. QED
    BY <1>1, <1>2, <2>1 DEF Parsed, Stored
<1>3. CASE count = 0 /\ ret' = "EAGAIN" /\ pc' = "free_device" /\ num' = num
  <2>1. TypeOK'
    BY <1>1, <1>3 DEF RInv, TypeOK
  <2>2. NumBound' /\ Retry'
    BY <1>1, <1>2, <1>3 DEF NumBound, Retry
  <2>3. AtFree'
    BY <1>1, <1>2, <1>3, <1>6 DEF AtFree
  <2>4. QED
    BY <1>3, <2>1, <2>2, <2>3, Vacuous DEF RInv
<1>4. CASE count # 0 /\ num' = count /\ ret' = "ok" /\ pc' = "returned"
  <2>1. Attempt \in 1..MaxRetry
    BY <1>1, RegistryAssumption DEF Attempt
  <2>2. PICK a \in 1..MaxRetry : a = Attempt
    BY <2>1
  <2>3. MaxLines <= a * MaxLines /\ a * MaxLines <= SlotBound
    BY AttemptArith
  <2>4. count <= MaxLines
    BY <1>1, RegistryAssumption DEF RInv, TypeOK
  <2>5. TypeOK'
    BY <1>1, <1>4, <2>2, <2>3, <2>4, SlotBoundNat, RegistryAssumption
       DEF RInv, TypeOK
  <2>6. NumBound' /\ Retry'
    BY <1>1, <1>2, <1>4, <2>2, <2>3, <2>4, RegistryAssumption DEF NumBound, Retry
  <2>7. AtReturn'
    <3>1. Parsed(num, lines)'
      BY <1>1, <1>4, <1>6 DEF Parsed, Stored, Live, Attempt
    <3>2. list' = "live"
      BY <1>1
    <3>3. num' <= cap' /\ num' <= lines'
      BY <1>1, <1>2, <1>4 DEF RInv, TypeOK
    <3>4. QED
      BY <1>4, <3>1, <3>2, <3>3 DEF AtReturn
  <2>8. QED
    BY <1>4, <2>5, <2>6, <2>7, Vacuous DEF RInv
<1>5. QED
  BY <1>3, <1>4 DEF parse_snd_card_eof

(* free_device frees every live object: they are all among the first     *)
(* num_audio_intfs entries.                                                 *)
LEMMA FreeR ==
    ASSUME RInv, parse_snd_card_free
    PROVE  RInv'
<1>1. /\ pc = "free_device" /\ pc' = "returned" /\ list' = "freed"
      /\ list = "live" /\ cap = num /\ lines <= num /\ ret # "ok" /\ count <= lines
      /\ Parsed(count, lines) /\ num \in Nat /\ count \in Nat
      /\ UNCHANGED <<lines, num, cap, slot, retries, ret, pos, count, probed,
                     di, lastRead>>
  BY DEF RInv, AtFree, TypeOK, parse_snd_card_free
<1>2. objs' = [o \in Objects |->
                 IF o \in {slot[i] : i \in 0..(num - 1)} \ {Null}
                 THEN "freed" ELSE objs[o]]
  BY DEF parse_snd_card_free
<1>3. Live \subseteq {slot[i] : i \in 0..(num - 1)} \ {Null}
  <2>1. Live = Stored(count) /\ \A i \in 0..(count - 1) : slot[i] \in Objects
    BY <1>1 DEF Parsed
  <2>2. Null \notin Objects
    BY RegistryAssumption DEF Objects
  <2>3. SUFFICES ASSUME NEW x \in Live
                 PROVE  x \in {slot[i] : i \in 0..(num - 1)} \ {Null}
    OBVIOUS
  <2>4. PICK i \in 0..(count - 1) : slot[i] = x
    BY <2>1 DEF Stored
  <2>5. i \in 0..(num - 1)
    BY <1>1, <2>4 DEF RInv, TypeOK
  <2>6. x # Null
    BY <2>1, <2>2, <2>4
  <2>7. QED
    BY <2>4, <2>5, <2>6
<1>4. Live' = {}
  BY <1>2, <1>3 DEF Live
<1>5. TypeOK'
  BY <1>1, <1>2 DEF RInv, TypeOK
<1>6. NumBound' /\ Retry'
  <2>1. Attempt' = Attempt
    BY <1>1 DEF Attempt
  <2>2. QED
    BY <1>1, <2>1 DEF RInv, NumBound, Retry
<1>7. AtReturn'
  BY <1>1, <1>4 DEF AtReturn
<1>8. QED
  BY <1>1, <1>5, <1>6, <1>7, Vacuous DEF RInv

LEMMA LineR ==
    ASSUME RInv, parse_snd_card_line
    PROVE  RInv'
<1>1. /\ pc = "parse" /\ pos < lines
      /\ list = "live" /\ cap = num /\ lines <= num /\ count <= pos /\ pos <= lines
      /\ Parsed(count, pos) /\ TypeOK
      /\ retries \in 1..MaxRetry /\ num <= Attempt * MaxLines
      /\ UNCHANGED <<lines, num, list, cap, retries, di, lastRead>>
  BY DEF RInv, AtParse, Retry, NumBound, parse_snd_card_line
<1>2. /\ Attempt' = Attempt /\ Attempt \in 1..MaxRetry
      /\ pos \in Nat /\ count \in Nat /\ lines \in Nat /\ pos + 1 <= MaxLines
  BY <1>1, RegistryAssumption DEF Attempt, TypeOK
<1>3. <<Attempt, pos + 1>> \in Objects /\ <<Attempt, pos + 1>> \notin Live
  <2>1. <<Attempt, pos + 1>> \in Objects
    BY <1>2 DEF Objects
  <2>2. QED
    BY <1>1, <1>2, <2>1, FreshObject
<1>4. NumBound' /\ Retry'
  BY <1>1, <1>2 DEF NumBound, Retry, parse_snd_card_line
<1>5. CASE /\ Faults /\ ret' = "ENOMEM" /\ pc' = "free_device"
           /\ UNCHANGED <<slot, objs, pos, count, probed>>
  <2>1. TypeOK'
    BY <1>1, <1>5 DEF TypeOK
  <2>2. Parsed(count, lines)
    BY <1>1, <1>2, ParsedWiden
  <2>3. Parsed(count, lines)'
    BY <1>1, <1>2, <1>5, <2>2 DEF Parsed, Stored, Live
  <2>4. AtFree'
    BY <1>1, <1>2, <1>5, <2>3 DEF AtFree
  <2>5. QED
    BY <1>4, <1>5, <2>1, <2>4, Vacuous DEF RInv
<1>6. CASE /\ objs' = [objs EXCEPT ![<<Attempt, pos + 1>>] = "freed"] /\ pos' = pos + 1
           /\ UNCHANGED <<slot, count, probed, ret, pc>>
  <2>1. Live' = Live
    BY <1>1, <1>3, <1>6 DEF Live, TypeOK
  <2>2. TypeOK'
    BY <1>1, <1>2, <1>3, <1>6 DEF TypeOK
  <2>3. Parsed(count, pos + 1)
    BY <1>1, <1>2, ParsedWiden
  <2>4. Parsed(count, pos)'
    BY <1>1, <1>2, <1>6, <2>1, <2>3 DEF Parsed, Stored
  <2>5. AtParse'
    BY <1>1, <1>2, <1>6, <2>4 DEF AtParse
  <2>6. QED
    BY <1>1, <1>4, <1>6, <2>2, <2>5, Vacuous DEF RInv
<1>7. CASE /\ objs' = [objs EXCEPT ![<<Attempt, pos + 1>>] = "live"]
           /\ slot' = [slot EXCEPT ![count] = <<Attempt, pos + 1>>]
           /\ count' = count + 1
           /\ probed' = probed \cup {pos + 1}
           /\ pos' = pos + 1
           /\ UNCHANGED <<ret, pc>>
  <2>1. count \in Slots
    BY <1>1, <1>2, SlotBoundNat DEF TypeOK, Slots
  <2>2. /\ \A i \in 0..(count - 1) : slot'[i] = slot[i]
        /\ slot'[count] = <<Attempt, pos + 1>>
        /\ \A i \in Slots : i > count => slot'[i] = slot[i]
    BY <1>1, <1>2, <1>7, <2>1 DEF TypeOK, Slots
  <2>3. Live' = Live \cup {<<Attempt, pos + 1>>}
    BY <1>1, <1>3, <1>7 DEF Live, TypeOK
  <2>4. TypeOK'
    <3>1. slot' \in [Slots -> Objects \cup {Null}]
      BY <1>1, <1>3, <1>7, <2>1 DEF TypeOK
    <3>2. count' \in 0..(MaxLines + 1) /\ pos' \in 0..MaxLines
      BY <1>1, <1>2, <1>7, RegistryAssumption
    <3>3. probed' \in SUBSET (1..MaxLines)
      BY <1>1, <1>2, <1>7 DEF TypeOK
    <3>4. objs' \in [Objects -> {"none", "live", "freed"}]
      BY <1>1, <1>7 DEF TypeOK
    <3>5. QED
      BY <1>1, <1>7, <3>1, <3>2, <3>3, <3>4 DEF TypeOK
  <2>5. Parsed(count, pos)'
    <3>1. \A i \in 0..count : /\ slot'[i] \in Objects
                              /\ slot'[i][1] = Attempt'
                              /\ slot'[i][2] \in 1..(pos + 1)
      BY <1>1, <1>2, <1>3, <2>2 DEF Parsed
    <3>2. \A i, j \in 0..count : i < j => slot'[i][2] < slot'[j][2]
      BY <1>1, <1>2, <1>3, <2>2 DEF Parsed
    <3>3. \A i \in Slots : i >= count + 1 => slot'[i] = Null
      BY <1>1, <1>2, <2>2 DEF Parsed, Slots
    <3>4. {slot'[i][2] : i \in 0..count} = probed'
      BY <1>1, <1>2, <1>3, <1>7, <2>2 DEF Parsed
    <3>5. Live' = {slot'[i] : i \in 0..count}
      <4>1. Live = {slot'[i] : i \in 0..(count - 1)}
        BY <1>1, <2>2 DEF Parsed, Stored
      <4>2. 0..count = (0..(count - 1)) \cup {count}
        BY <1>2
      <4>3. QED
        BY <2>2, <2>3, <4>1, <4>2
    <3>6. 0..(count' - 1) = 0..count /\ pos' = pos + 1
      BY <1>2, <1>7
    <3>7. /\ \A i \in 0..(count' - 1) : /\ slot'[i] \in Objects
                                        /\ slot'[i][1] = Attempt'
                                        /\ slot'[i][2] \in 1..pos'
          /\ \A i, j \in 0..(count' - 1) : i < j => slot'[i][2] < slot'[j][2]
      BY <3>1, <3>2, <3>6
    <3>8. /\ \A i \in Slots : i >= count' => slot'[i] = Null
          /\ {slot'[i][2] : i \in 0..(count' - 1)} = probed'
          /\ Live' = {slot'[i] : i \in 0..(count' - 1)}
      BY <1>7, <3>3, <3>4, <3>5, <3>6
    <3>9. QED
      BY <3>7, <3>8 DEF Parsed, Stored
  <2>6. AtParse'
    BY <1>1, <1>2, <1>7, <2>5 DEF AtParse
  <2>7. QED
    BY <1>1, <1>4, <1>7, <2>4, <2>6, Vacuous DEF RInv
<1>8. QED
  BY <1>5, <1>6, <1>7 DEF parse_snd_card_line


(* A stuttering step leaves the invariant as it was.                       *)
LEMMA StutterR ==
    ASSUME RInv, UNCHANGED vars
    PROVE  RInv'
<1>1. TypeOK'
  BY DEF RInv, TypeOK, vars
<1>2. QED
  BY <1>1, ReadFrame DEF RInv, vars

LEMMA NextR ==
    ASSUME Quiet, RInv, [Next]_vars
    PROVE  RInv'
<1>1. CASE device_init
  BY <1>1, DeviceInitR
<1>2. CASE parse_snd_card_count
  BY <1>2, CountR
<1>3. CASE parse_snd_card_alloc
  BY <1>3, AllocR
<1>4. CASE parse_snd_card_line
  BY <1>4, LineR
<1>5. CASE parse_snd_card_eof
  BY <1>5, EofR
<1>6. CASE parse_snd_card_free
  BY <1>6, FreeR
<1>7. CASE device_init_retry
  BY <1>7, RetryR
<1>8. CASE device_init_sleep
  BY <1>8, SleepR
<1>9. CASE card_registers
  BY <1>9, RegisterR
<1>10. CASE \/ \E idx \in 0..SlotBound : device_get_obj(idx)
            \/ \E n \in 0..SlotBound : device_get_aif_info_list(n)
  BY <1>10, LookupR
<1>11. CASE device_deinit
  BY <1>11, DeinitR
<1>12. CASE device_deinit_obj
  BY <1>12, DeinitObjR
<1>13. CASE device_deinit_end
  BY <1>13, DeinitEndR
<1>14. CASE UNCHANGED vars
  BY <1>14, StutterR
<1>15. QED
  BY <1>1, <1>2, <1>3, <1>4, <1>5, <1>6, <1>7, <1>8, <1>9, <1>10, <1>11,
     <1>12, <1>13, <1>14 DEF Next, InitThread

(* With no card registering during parse_snd_card and device_deinit only  *)
(* after a successful device_init, every reachable state satisfies RInv.  *)
THEOREM RegistryInvariant ==
    ASSUME Quiet
    PROVE  Spec => []RInv
<1>1. Init => RInv
  BY InitR
<1>2. RInv /\ [Next]_vars => RInv'
  BY NextR
<1>3. QED
  BY <1>1, <1>2, PTL DEF Spec

(* parse_snd_card's parsing pass stores device_list[count++] only below  *)
(* the length calloc gave device_list, when no card registers between    *)
(* the counting and the parsing pass.                                      *)
THEOREM NoListOverflowCorrect ==
    ASSUME Quiet
    PROVE  Spec => []NoListOverflow
<1>1. RInv => NoListOverflow
  BY DEF RInv, AtParse, TypeOK, NoListOverflow
<1>2. QED
  BY <1>1, RegistryInvariant, PTL

(* No device object of parse_snd_card lies in device_list slot 0..n-1 as *)
(* NULL: the NULL pointer is not the address of any object.               *)
LEMMA NullNotObject == Null \notin Objects
BY RegistryAssumption DEF Objects

(* When device_init returns, device_list holds exactly the live device    *)
(* objects of the probed lines in file order on success, and nothing is  *)
(* left allocated on failure.                                              *)
THEOREM RegistryExactCorrect ==
    ASSUME Quiet
    PROVE  Spec => []RegistryExact
<1>1. RInv => RegistryExact
  <2>1. SUFFICES ASSUME RInv, pc = "done" PROVE RegistryExact
    BY DEF RegistryExact
  <2>2. CASE ret = "ok"
    <3>1. list = "live" /\ num <= cap /\ Parsed(num, lines)
      BY <2>1, <2>2 DEF RInv, AtReturn
    <3>2. \A i \in 0..(num - 1) : slot[i] \in Objects
      BY <3>1 DEF Parsed
    <3>3. Null \notin {slot[i] : i \in 0..(num - 1)}
      BY <3>2, NullNotObject
    <3>4. QED
      BY <2>2, <3>1, <3>3 DEF RegistryExact, Parsed, Live, Stored
  <2>3. CASE ret # "ok"
    BY <2>1, <2>3 DEF RInv, AtReturn, RegistryExact, Live
  <2>4. QED
    BY <2>2, <2>3
<1>2. QED
  BY <1>1, RegistryInvariant, PTL

(* device_deinit after a successful device_init frees device_list once   *)
(* and, in its loop over num_audio_intfs entries, only dereferences live *)
(* device objects within device_list.                                      *)
THEOREM DeinitSafeCorrect ==
    ASSUME Quiet
    PROVE  Spec => []DeinitSafe
<1>1. RInv => DeinitSafe
  <2>1. SUFFICES ASSUME RInv, pc = "deinit" PROVE DeinitSafe
    BY DEF DeinitSafe
  <2>2. /\ list = "live" /\ num <= cap /\ di \in Nat /\ num \in Nat
        /\ \A i \in di..(num - 1) : slot[i] \in Objects /\ objs[slot[i]] = "live"
    BY <2>1 DEF RInv, AtDeinit, TypeOK
  <2>3. di < num => slot[di] \in Objects /\ objs[slot[di]] = "live"
    BY <2>2
  <2>4. di < num => slot[di] # Null /\ di < cap
    <3>1. di < num => slot[di] # Null
      BY <2>3, NullNotObject
    <3>2. di < num => di < cap
      BY <2>1, <2>2 DEF RInv, TypeOK
    <3>3. QED
      BY <3>1, <3>2
  <2>5. QED
    BY <2>1, <2>2, <2>3, <2>4 DEF DeinitSafe
<1>2. QED
  BY <1>1, RegistryInvariant, PTL

=============================================================================
