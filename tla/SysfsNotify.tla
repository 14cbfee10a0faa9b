---------------------------- MODULE SysfsNotify ----------------------------
(***************************************************************************)
(* The notification sink of device.c: update_sysfs_fd, called by the first *)
(* device_open and the last device_close of every device object, under    *)
(* that object's own lock.  The locks of two devices exclude nothing from *)
(* each other, so each device is an actor of its own and the process-wide *)
(* sysfs_fd, opened lazily on first use, is shared by all of them.        *)
(*                                                                         *)
(* A device's notifications alternate: its first opener sends "enable",   *)
(* its last closer "disable" (DEVICE_ENABLE, DEVICE_DISABLE).  The open() *)
(* of SYSFS_FD_PATH may fail (the node's permissions are set by init      *)
(* scripts, asynchronously); descriptors are never closed.                *)
(***************************************************************************)
EXTENDS Integers

CONSTANTS
    Devices,    \* the device objects that notify
    MaxOpens    \* bound: open() calls on SYSFS_FD_PATH that succeed

NoFd == -1

VARIABLES
    sysfsFd,    \* sysfs_fd: NoFd or the number of the descriptor stored
    opened,     \* descriptors opened so far (the k-th open returns k - 1)
    pc,         \* where each device's notifying thread is
    sent,       \* the notification each device is sending or sent last
    sink        \* the last notification of each device the node received

vars == <<sysfsFd, opened, pc, sent, sink>>

Notes == {"enable", "disable"}

Init ==
    /\ sysfsFd = NoFd
    /\ opened = 0
    /\ pc = [d \in Devices |-> "idle"]
    /\ sent = [d \in Devices |-> "disable"]
    /\ sink = [d \in Devices |-> "none"]

(* write(sysfs_fd, buf, ...) of the device's notification.                 *)
Write(d) == sink' = [sink EXCEPT ![d] = sent[d]]

-----------------------------------------------------------------------------
(* The first device_open or the last device_close of device d calls       *)
(* update_sysfs_fd with the next state of d.                                *)
notify(d) ==
    /\ pc[d] = "idle"
    /\ sent' = [sent EXCEPT ![d] = IF @ = "enable" THEN "disable" ELSE "enable"]
    /\ pc' = [pc EXCEPT ![d] = "check"]
    /\ UNCHANGED <<sysfsFd, opened, sink>>

(* if (sysfs_fd >= 0) write(...); else go on to open the node.             *)
update_sysfs_fd_check(d) ==
    /\ pc[d] = "check"
    /\ \/ /\ sysfsFd # NoFd
          /\ Write(d)
          /\ pc' = [pc EXCEPT ![d] = "idle"]
       \/ /\ sysfsFd = NoFd
          /\ pc' = [pc EXCEPT ![d] = "open"]
          /\ UNCHANGED sink
    /\ UNCHANGED <<sysfsFd, opened, sent>>

(* sysfs_fd = open(SYSFS_FD_PATH, O_WRONLY): the result is stored over    *)
(* whatever another device stored meanwhile, a failure (-1) included.     *)
update_sysfs_fd_open(d) ==
    /\ pc[d] = "open"
    /\ \/ /\ opened < MaxOpens
          /\ sysfsFd' = opened
          /\ opened' = opened + 1
       \/ /\ sysfsFd' = NoFd
          /\ UNCHANGED opened
    /\ pc' = [pc EXCEPT ![d] = "write"]
    /\ UNCHANGED <<sent, sink>>

(* if (sysfs_fd >= 0) write(...); else log "invalid file handle": the     *)
(* test reads the global again.                                            *)
update_sysfs_fd_write(d) ==
    /\ pc[d] = "write"
    /\ IF sysfsFd # NoFd THEN Write(d) ELSE UNCHANGED sink
    /\ pc' = [pc EXCEPT ![d] = "idle"]
    /\ UNCHANGED <<sysfsFd, opened, sent>>

Next ==
    \E d \in Devices :
        \/ notify(d)
        \/ update_sysfs_fd_check(d)
        \/ update_sysfs_fd_open(d)
        \/ update_sysfs_fd_write(d)

Spec == Init /\ [][Next]_vars

-----------------------------------------------------------------------------
TypeOK ==
    /\ sysfsFd \in {NoFd} \cup (0..(MaxOpens - 1))
    /\ opened \in 0..MaxOpens
    /\ pc \in [Devices -> {"idle", "check", "open", "write"}]
    /\ sent \in [Devices -> Notes]
    /\ sink \in [Devices -> Notes \cup {"none"}]

(* The notification node is opened once and kept: every descriptor        *)
(* update_sysfs_fd opened is the one sysfs_fd holds, so none is leaked    *)
(* and a working one is never replaced (spec: the lazily opened           *)
(* notification path is opened once and reused).                           *)
NoFdLeak ==
    opened = IF sysfsFd = NoFd THEN 0 ELSE 1
=============================================================================
