-------------------------- MODULE ChannelMapProofs ---------------------------
(***************************************************************************)
(* Proof that device_get_channel_map of the tinyalsa build releases       *)
(* every buffer it allocates: each thread's mixer_str and payload are     *)
(* fixed by how far the thread is in the call.                            *)
(***************************************************************************)
EXTENDS ChannelMap, TLAPS

(* What each thread holds at each point of device_get_channel_map.        *)
Holding ==
    \A t \in Threads :
        /\ pc[t] \in {"open", "alloc_str"} => str[t] = "none" /\ payload[t] = "none"
        /\ pc[t] = "alloc_payload" => str[t] = "alloc" /\ payload[t] = "none"
        /\ pc[t] \in {"lookup", "read"} => str[t] = "alloc" /\ payload[t] = "alloc"

CMInv == TypeOK /\ Holding /\ NoBufferLeak

(* The thread-local facts, for one thread.                                 *)
Own(t) ==
    /\ pc[t] = "idle" => str[t] # "alloc" /\ payload[t] # "alloc"
    /\ pc[t] \in {"open", "alloc_str"} => str[t] = "none" /\ payload[t] = "none"
    /\ pc[t] = "alloc_payload" => str[t] = "alloc" /\ payload[t] = "none"
    /\ pc[t] \in {"lookup", "read"} => str[t] = "alloc" /\ payload[t] = "alloc"

LEMMA OwnAll ==
    ASSUME TypeOK
    PROVE  Holding /\ NoBufferLeak <=> \A t \in Threads : Own(t)
BY DEF Holding, NoBufferLeak, Own

LEMMA InitCM == Init => CMInv
BY DEF Init, CMInv, TypeOK, Holding, NoBufferLeak

LEMMA TypeStepCM == TypeOK /\ [Next]_vars => TypeOK'
BY DEF TypeOK, Next, vars, get_channel_map_check, get_channel_map_open,
       get_channel_map_alloc_str, get_channel_map_alloc_payload,
       get_channel_map_lookup, get_channel_map_read, Return, ErrorPathPayload

(* A step of thread t leaves the buffers of every other thread alone.     *)
LEMMA OthersKeep ==
    ASSUME TypeOK, TypeOK', NEW t \in Threads,
           \A u \in Threads \ {t} :
               pc'[u] = pc[u] /\ str'[u] = str[u] /\ payload'[u] = payload[u],
           \A u \in Threads : Own(u), Own(t)'
    PROVE  \A u \in Threads : Own(u)'
BY DEF Own

(* One step of thread t in the tinyalsa build keeps its own facts.         *)
LEMMA StepCM ==
    ASSUME ~AlsaLib, TypeOK, NEW t \in Threads, Own(t),
           \/ get_channel_map_check(t)
           \/ get_channel_map_open(t)
           \/ get_channel_map_alloc_str(t)
           \/ get_channel_map_alloc_payload(t)
           \/ get_channel_map_lookup(t)
           \/ get_channel_map_read(t)
    PROVE  /\ Own(t)'
           /\ \A u \in Threads \ {t} :
                 pc'[u] = pc[u] /\ str'[u] = str[u] /\ payload'[u] = payload[u]
BY DEF Own, TypeOK, get_channel_map_check, get_channel_map_open,
       get_channel_map_alloc_str, get_channel_map_alloc_payload,
       get_channel_map_lookup, get_channel_map_read, Return, ErrorPathPayload

LEMMA NextCM ==
    ASSUME ~AlsaLib, CMInv, [Next]_vars
    PROVE  CMInv'
<1>1. TypeOK /\ TypeOK'
  BY TypeStepCM DEF CMInv
<1>2. \A u \in Threads : Own(u)
  BY <1>1, OwnAll DEF CMInv
<1>3. \A u \in Threads : Own(u)'
  <2>1. CASE Next
    <3>1. PICK t \in Threads :
            \/ get_channel_map_check(t)
            \/ get_channel_map_open(t)
            \/ get_channel_map_alloc_str(t)
            \/ get_channel_map_alloc_payload(t)
            \/ get_channel_map_lookup(t)
            \/ get_channel_map_read(t)
      BY <2>1 DEF Next
    <3>2. Own(t)' /\ \A u \in Threads \ {t} :
             pc'[u] = pc[u] /\ str'[u] = str[u] /\ payload'[u] = payload[u]
      BY <1>1, <1>2, <3>1, StepCM
    <3>3. QED
      BY <1>1, <1>2, <3>2, OthersKeep
  <2>2. CASE UNCHANGED vars
    BY <1>2, <2>2 DEF vars, Own
  <2>3. QED
    BY <2>1, <2>2
<1>4. Holding' /\ NoBufferLeak'
  BY <1>3 DEF Own, Holding, NoBufferLeak
<1>5. QED
  BY <1>1, <1>4 DEF CMInv

(* In the tinyalsa build, however many threads call                       *)
(* device_get_channel_map at once and whichever allocation, lookup or     *)
(* read fails, every call returns having freed mixer_str and either freed *)
(* the payload or handed it to the caller.                                 *)
THEOREM BuffersReleased ==
    ASSUME ~AlsaLib
    PROVE  Spec => []NoBufferLeak
<1>1. Init => CMInv
  BY InitCM
<1>2. CMInv /\ [Next]_vars => CMInv'
  BY NextCM
<1>3. CMInv => NoBufferLeak
  BY DEF CMInv
<1>4. QED
  BY <1>1, <1>2, <1>3, PTL DEF Spec
=============================================================================
