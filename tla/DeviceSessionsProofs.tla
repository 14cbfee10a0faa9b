------------------------ MODULE DeviceSessionsProofs -------------------------
(* The abstract session specification keeps its promise.                  *)
EXTENDS DeviceSessions, TLAPS

(* Every behaviour of the abstract specification keeps a driver handle   *)
(* open while some session holds the device, and only holders started.   *)
THEOREM SessionsKeepHandle == Spec => []HandleWhileHeld
<1>1. Init => HandleWhileHeld
  BY DEF Init, HandleWhileHeld
<1>2. HandleWhileHeld /\ [Next]_vars => HandleWhileHeld'
  BY DEF HandleWhileHeld, Next, vars, Open, Start, Stop, Close, CloseDriver
<1>3. QED
  BY <1>1, <1>2, PTL DEF Spec
=============================================================================
