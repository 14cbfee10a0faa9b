------------------------- MODULE MCDeviceLifecycle -------------------------
EXTENDS DeviceLifecycle, TLC

CONSTANTS c1, c2, c3

(* Three sessions sharing the device, all following the protocol.          *)
MCClients3 == {c1, c2, c3}
(* One session that also sets params and makes out-of-order calls.         *)
MCClients1 == {c1}
(* Two sessions, one of which calls device_set_params.                      *)
MCClients2 == {c1, c2}

MCSymmetry == Permutations(MCClients3)
=============================================================================
