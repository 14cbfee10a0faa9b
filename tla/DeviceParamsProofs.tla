------------------------- MODULE DeviceParamsProofs --------------------------
(***************************************************************************)
(* Proof that device_set_params owns dev_obj->params correctly when one    *)
(* thread calls it: no blob is freed twice and exactly the blob that       *)
(* dev_obj->params points at is allocated.  Nothing is assumed of the      *)
(* other sessions: they may call out of protocol order, close without an  *)
(* open, and run the alsa-lib device_open.  With two callers the run      *)
(* set_params_breaks_lock shows the double free, so the hypothesis is the *)
(* one the code needs (device_set_params takes no lock).                  *)
(***************************************************************************)
EXTENDS DeviceLifecycleProofs

(* At most one client calls device_set_params.                             *)
OneSetter == \A a, b \in ParamSetters : a = b

(* The program points inside device_set_params.                            *)
SetterPcs == {"sp_free", "sp_null", "sp_alloc"}

(* The inductive invariant: only setters are inside device_set_params;    *)
(* between its free and its calloc dev_obj->params holds no live blob     *)
(* (NULL just before the calloc), and outside that window it is never a  *)
(* freed pointer.                                                          *)
POInv ==
    /\ TypeOK
    /\ \A u \in Clients : pc[u] \in SetterPcs => u \in ParamSetters
    /\ ParamsOwned
    /\ \A u \in Clients : pc[u] \in {"sp_null", "sp_alloc"} => params # "live"
    /\ \A u \in Clients : pc[u] = "sp_alloc" => params = "null"
    /\ (\A u \in Clients : pc[u] \notin {"sp_null", "sp_alloc"})
          => params # "freed"

LEMMA InitPO == Init => POInv
<1> SUFFICES ASSUME Init PROVE POInv
  OBVIOUS
<1>1. TypeOK
  BY InitType
<1>2. QED
  BY <1>1 DEF Init, POInv, ParamsOwned, SetterPcs

(* A step that leaves the blob alone and moves no thread into or out of   *)
(* device_set_params preserves POInv.                                      *)
LEMMA FrameStep ==
    ASSUME POInv, TypeOK', UNCHANGED <<params, paramBlobs, doubleFree>>,
           \A u \in Clients :
               pc'[u] = pc[u] \/ (pc[u] \notin SetterPcs /\ pc'[u] \notin SetterPcs)
    PROVE  POInv'
<1>1. \A u \in Clients : pc'[u] \in SetterPcs => pc[u] = pc'[u]
  OBVIOUS
<1>2. (\A u \in Clients : pc'[u] \notin {"sp_null", "sp_alloc"})
        => \A u \in Clients : pc[u] \notin {"sp_null", "sp_alloc"}
  BY DEF SetterPcs
<1>3. QED
  BY <1>1, <1>2 DEF POInv, ParamsOwned, SetterPcs

(* The lifecycle calls: pc changes only for the caller, outside           *)
(* device_set_params.                                                      *)
LEMMA PcFrame ==
    ASSUME TypeOK, NEW t \in Clients, pc[t] \notin SetterPcs,
           \/ pc' = pc
           \/ \E x \in PCs \ SetterPcs : pc' = [pc EXCEPT ![t] = x]
    PROVE  \A u \in Clients :
               pc'[u] = pc[u] \/ (pc[u] \notin SetterPcs /\ pc'[u] \notin SetterPcs)
BY DEF TypeOK

LEMMA LifecycleStepPO ==
    ASSUME POInv, TypeOK', NEW t \in Clients,
           \/ device_open(t)    \/ device_open_pcm(t)  \/ device_open_snd_pcm(t)
           \/ device_prepare(t) \/ device_prepare_pcm(t)
           \/ device_start(t)
           \/ device_stop(t)    \/ device_stop_pcm(t)
           \/ device_close(t)   \/ device_close_pcm(t)
    PROVE  POInv'
<1>1. UNCHANGED <<params, paramBlobs, doubleFree>>
  BY DEF device_open, device_open_pcm, device_open_snd_pcm, device_prepare,
         device_prepare_pcm, device_start, device_stop, device_stop_pcm,
         device_close, device_close_pcm
<1>2. pc[t] \notin SetterPcs
  BY DEF device_open, device_open_pcm, device_open_snd_pcm, device_prepare,
         device_prepare_pcm, device_start, device_stop, device_stop_pcm,
         device_close, device_close_pcm, Call, SetterPcs
<1>3. \/ pc' = pc
      \/ \E x \in PCs \ SetterPcs : pc' = [pc EXCEPT ![t] = x]
  BY DEF device_open, device_open_pcm, device_open_snd_pcm, device_prepare,
         device_prepare_pcm, device_start, device_stop, device_stop_pcm,
         device_close, device_close_pcm, PCs, SetterPcs
<1>4. QED
  BY <1>1, <1>2, <1>3, PcFrame, FrameStep DEF POInv

(* With one setter inside device_set_params, nobody else is.               *)
LEMMA SetterAlone ==
    ASSUME OneSetter, POInv, NEW t \in ParamSetters, pc[t] \in SetterPcs
    PROVE  \A u \in Clients \ {t} : pc[u] \notin SetterPcs
BY DEF OneSetter, POInv

LEMMA SetParamsPO ==
    ASSUME POInv, TypeOK', NEW t \in Clients, device_set_params(t)
    PROVE  POInv'
<1>1. t \in ParamSetters /\ pc[t] = "idle"
      /\ pc' = [pc EXCEPT ![t] = "sp_free"]
      /\ UNCHANGED <<params, paramBlobs, doubleFree>>
  BY DEF device_set_params
<1>2. \A u \in Clients \ {t} : pc'[u] = pc[u]
  BY <1>1 DEF POInv, TypeOK
<1>3. pc'[t] = "sp_free"
  BY <1>1 DEF POInv, TypeOK
<1>4. (\A u \in Clients : pc'[u] \notin {"sp_null", "sp_alloc"})
        => \A u \in Clients : pc[u] \notin {"sp_null", "sp_alloc"}
  BY <1>1, <1>2
<1>5. QED
  BY <1>1, <1>2, <1>3, <1>4 DEF POInv, ParamsOwned, SetterPcs

LEMMA FreePO ==
    ASSUME OneSetter, POInv, TypeOK', NEW t \in Clients,
           device_set_params_free(t)
    PROVE  POInv'
<1>1. pc[t] = "sp_free" /\ pc' = [pc EXCEPT ![t] = "sp_null"]
  BY DEF device_set_params_free
<1>2. t \in ParamSetters
  BY <1>1 DEF POInv, SetterPcs
<1>3. \A u \in Clients \ {t} : pc[u] \notin SetterPcs /\ pc'[u] = pc[u]
  BY <1>1, <1>2, SetterAlone DEF POInv, TypeOK, SetterPcs
<1>4. params \in {"null", "live"}
  BY <1>1, <1>3 DEF POInv, TypeOK, SetterPcs
<1>5. /\ params' \in {"null", "freed"}
      /\ paramBlobs' = 0
      /\ doubleFree' = FALSE
  <2>1. CASE params = "null"
    <3>1. paramBlobs = 0 /\ ~doubleFree
      BY <2>1 DEF POInv, ParamsOwned
    <3>2. params' = "null" /\ paramBlobs' = 0
      BY <2>1, <3>1 DEF device_set_params_free
    <3>3. doubleFree' = FALSE
      BY <2>1, <3>1, Zenon DEF device_set_params_free
    <3>4. QED
      BY <3>2, <3>3
  <2>2. CASE params = "live"
    <3>1. paramBlobs = 1 /\ ~doubleFree
      BY <2>2 DEF POInv, ParamsOwned
    <3>2. params' = "freed" /\ paramBlobs' = 0
      BY <2>2, <3>1 DEF device_set_params_free
    <3>3. doubleFree' = FALSE
      BY <2>2, <3>1, Zenon DEF device_set_params_free
    <3>4. QED
      BY <3>2, <3>3
  <2>3. QED
    BY <1>4, <2>1, <2>2
<1>6. pc'[t] = "sp_null"
  BY <1>1 DEF POInv, TypeOK
<1>7. QED
  BY <1>2, <1>3, <1>5, <1>6 DEF POInv, ParamsOwned, SetterPcs

LEMMA NullPO ==
    ASSUME POInv, TypeOK', NEW t \in Clients, device_set_params_null(t)
    PROVE  POInv'
<1>1. pc[t] = "sp_null" /\ pc' = [pc EXCEPT ![t] = "sp_alloc"]
      /\ params' = "null" /\ UNCHANGED <<paramBlobs, doubleFree>>
  BY DEF device_set_params_null
<1>2. paramBlobs = 0 /\ ~doubleFree
  BY <1>1 DEF POInv, ParamsOwned
<1>3. t \in ParamSetters /\ pc'[t] = "sp_alloc"
  BY <1>1 DEF POInv, TypeOK, SetterPcs
<1>4. \A u \in Clients \ {t} : pc'[u] = pc[u]
  BY <1>1 DEF POInv, TypeOK
<1>5. QED
  BY <1>1, <1>2, <1>3, <1>4 DEF POInv, ParamsOwned, SetterPcs

LEMMA AllocPO ==
    ASSUME OneSetter, POInv, TypeOK', NEW t \in Clients,
           device_set_params_alloc(t)
    PROVE  POInv'
<1>1. pc[t] = "sp_alloc" /\ pc' = [pc EXCEPT ![t] = "idle"]
      /\ UNCHANGED doubleFree
  BY DEF device_set_params_alloc
<1>2. params = "null" /\ paramBlobs = 0 /\ ~doubleFree
  BY <1>1 DEF POInv, ParamsOwned
<1>3. \/ params' = "live" /\ paramBlobs' = 1
      \/ params' = "null" /\ paramBlobs' = 0
  BY <1>2 DEF device_set_params_alloc
<1>4. t \in ParamSetters
  BY <1>1 DEF POInv, SetterPcs
<1>5. \A u \in Clients \ {t} : pc[u] \notin SetterPcs /\ pc'[u] = pc[u]
  BY <1>1, <1>4, SetterAlone DEF POInv, TypeOK, SetterPcs
<1>6. pc'[t] = "idle"
  BY <1>1 DEF POInv, TypeOK
<1>7. QED
  BY <1>1, <1>2, <1>3, <1>5, <1>6 DEF POInv, ParamsOwned, SetterPcs

LEMMA NextPO ==
    ASSUME OneSetter, POInv, [Next]_vars
    PROVE  POInv'
<1>1. TypeOK'
  BY TypeStep DEF POInv
<1>2. CASE Next
  <2>1. PICK t \in Clients :
          \/ device_open(t)    \/ device_open_pcm(t)
          \/ device_open_snd_pcm(t)
          \/ device_prepare(t) \/ device_prepare_pcm(t)
          \/ device_start(t)
          \/ device_stop(t)    \/ device_stop_pcm(t)
          \/ device_close(t)   \/ device_close_pcm(t)
          \/ device_set_params(t)
          \/ device_set_params_free(t) \/ device_set_params_null(t)
          \/ device_set_params_alloc(t)
    BY <1>2 DEF Next
  <2>2. QED
    BY <1>1, <2>1, LifecycleStepPO, SetParamsPO, FreePO, NullPO, AllocPO
<1>3. CASE UNCHANGED vars
  BY <1>3 DEF vars, POInv, ParamsOwned, TypeOK
<1>4. QED
  BY <1>2, <1>3

(* When at most one session calls device_set_params, whatever the other  *)
(* sessions do (out-of-order calls, unmatched closes, the alsa-lib        *)
(* device_open), the free(dev_obj->params) in device_set_params never     *)
(* frees a blob twice, and the one blob allocated and not freed is the    *)
(* one dev_obj->params points at: no leak, no double free.               *)
THEOREM ParamsOwnedCorrect ==
    ASSUME OneSetter
    PROVE  Spec => []ParamsOwned
<1>1. Init => POInv
  BY InitPO
<1>2. POInv /\ [Next]_vars => POInv'
  BY NextPO
<1>3. POInv => ParamsOwned
  BY DEF POInv
<1>4. QED
  BY <1>1, <1>2, <1>3, PTL DEF Spec
====
