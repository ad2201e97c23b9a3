----------------------------- MODULE CtxPublish -----------------------------
(***************************************************************************)
(* Which device's IOCTL context the control device serves (driver.cpp).    *)
(* Devices come and go under their own PnP threads; one context at a time  *)
(* is published, the others wait in the live list.  Callers (a dispatch    *)
(* routine, or an IRP it left queued) use the published context under one  *)
(* rundown that lives in the driver image and is re-armed between two      *)
(* publications.  IoctlIrps is the inside of one context.                  *)
(***************************************************************************)
EXTENDS Sequences, FiniteSets, SequencesExt

CONSTANTS Devices, Callers, NoDevice

\* What is assumed of the constants.
ConstantsOK == NoDevice \notin Devices

VARIABLES
    dev,        \* progress of each device's PnP thread
    was,        \* wasPublished, local to WithdrawIoctlCtx
    live,       \* g_LiveDevices
    ptr,        \* g_IoctlCtxPtr
    withdrawing,\* g_IoctlCtxWithdrawing
    draining,   \* ExWaitForRundownProtectionRelease is in progress
    closing,    \* Ctx->Closing, per device
    caller,     \* "out", "acquired", "inside", "queued"
    using       \* the context a caller found

vars == <<dev, was, live, ptr, withdrawing, draining, closing, caller, using>>

DeviceStates == {"absent", "live", "close", "cancel", "wait", "drain", "republish",
                 "withdrawn", "freed"}

Init ==
    /\ dev = [d \in Devices |-> "absent"] /\ was = [d \in Devices |-> FALSE]
    /\ live = <<>> /\ ptr = NoDevice
    /\ withdrawing = FALSE /\ draining = FALSE
    /\ closing = [d \in Devices |-> FALSE]
    /\ caller = [c \in Callers |-> "out"]
    /\ using = [c \in Callers |-> NoDevice]

To(d, state) == dev' = [dev EXCEPT ![d] = state]
Referenced == \E c \in Callers : caller[c] # "out"

\* AddDeviceInit: allocate the context, RegisterLiveDevice.
AddDevice(d) ==
    /\ dev[d] = "absent" /\ To(d, "live")
    /\ live' = Append(live, d)
    /\ ptr' = IF ~withdrawing /\ ptr = NoDevice THEN d ELSE ptr
    /\ UNCHANGED <<was, withdrawing, draining, closing, caller, using>>

\* WithdrawIoctlCtx under g_LiveDevicesLock: off the list, pointer cleared if
\* it was this device's.
Unlink(d) ==
    /\ dev[d] = "live" /\ To(d, "close")
    /\ \E i \in DOMAIN live : live[i] = d /\ live' = RemoveAt(live, i)
    /\ was' = [was EXCEPT ![d] = (ptr = d)]
    /\ ptr' = IF ptr = d THEN NoDevice ELSE ptr
    /\ withdrawing' = (withdrawing \/ ptr = d)
    /\ UNCHANGED <<draining, closing, caller, using>>

\* IoctlBeginClose: refuse to queue ...
BeginClose(d) ==
    /\ dev[d] = "close" /\ To(d, "cancel")
    /\ closing' = [closing EXCEPT ![d] = TRUE]
    /\ UNCHANGED <<was, live, ptr, withdrawing, draining, caller, using>>

\* ... and complete every queued IRP, which drops the IRP's reference.
CancelAll(d) ==
    /\ dev[d] = "cancel"
    /\ To(d, IF was[d] THEN "wait" ELSE "withdrawn")
    /\ LET mine == {c \in Callers : caller[c] = "queued" /\ using[c] = d} IN
       /\ caller' = [c \in Callers |-> IF c \in mine THEN "out" ELSE caller[c]]
       /\ using' = [c \in Callers |-> IF c \in mine THEN NoDevice ELSE using[c]]
    /\ UNCHANGED <<was, live, ptr, withdrawing, draining, closing>>

StartWait(d) ==
    /\ dev[d] = "wait" /\ To(d, "drain")
    /\ draining' = TRUE
    /\ UNCHANGED <<was, live, ptr, withdrawing, closing, caller, using>>

\* Mutant: the rundown is re-armed without waiting it out.
RearmUnwaited(d) ==
    /\ dev[d] = "drain" /\ To(d, "republish")
    /\ draining' = FALSE
    /\ UNCHANGED <<was, live, ptr, withdrawing, closing, caller, using>>

\* The wait is over; ExReInitializeRundownProtection.
Rearm(d) ==
    /\ dev[d] = "drain" /\ ~Referenced /\ To(d, "republish")
    /\ draining' = FALSE
    /\ UNCHANGED <<was, live, ptr, withdrawing, closing, caller, using>>

\* Under the lock again: the next live device takes over.
Republish(d) ==
    /\ dev[d] = "republish" /\ To(d, "withdrawn")
    /\ withdrawing' = FALSE
    /\ ptr' = IF live = <<>> THEN ptr ELSE Head(live)
    /\ UNCHANGED <<was, live, draining, closing, caller, using>>

\* REMOVE_DEVICE has been forwarded; FreeIoctlCtx.
FreeCtx(d) ==
    /\ dev[d] = "withdrawn" /\ To(d, "freed")
    /\ UNCHANGED <<was, live, ptr, withdrawing, draining, closing, caller, using>>

\* The device is plugged in again: a new extension and a new context.
Rearrive(d) ==
    /\ dev[d] = "freed" /\ To(d, "absent")
    /\ closing' = [closing EXCEPT ![d] = FALSE]
    /\ was' = [was EXCEPT ![d] = FALSE]
    /\ UNCHANGED <<live, ptr, withdrawing, draining, caller, using>>

\* DispatchDeviceControl / DispatchCleanup: reference first, pointer second.
Acquire(c) ==
    /\ caller[c] = "out" /\ ~draining
    /\ caller' = [caller EXCEPT ![c] = "acquired"]
    /\ UNCHANGED <<dev, was, live, ptr, withdrawing, draining, closing, using>>

LookUp(c) ==
    /\ caller[c] = "acquired"
    /\ caller' = [caller EXCEPT ![c] = IF ptr = NoDevice THEN "out" ELSE "inside"]
    /\ using' = [using EXCEPT ![c] = ptr]
    /\ UNCHANGED <<dev, was, live, ptr, withdrawing, draining, closing>>

\* The IRP is queued (it keeps a reference) unless the context is closing or
\* the rundown refuses that reference.
QueueIrp(c) ==
    /\ caller[c] = "inside" /\ ~closing[using[c]] /\ ~draining
    /\ caller' = [caller EXCEPT ![c] = "queued"]
    /\ UNCHANGED <<dev, was, live, ptr, withdrawing, draining, closing, using>>

\* The dispatch routine returns, or the queued IRP is completed.
Leave(c) ==
    /\ caller[c] \in {"inside", "queued"}
    /\ caller' = [caller EXCEPT ![c] = "out"]
    /\ using' = [using EXCEPT ![c] = NoDevice]
    /\ UNCHANGED <<dev, was, live, ptr, withdrawing, draining, closing>>

PnpStep(d) ==
    BeginClose(d) \/ CancelAll(d) \/ StartWait(d) \/ Rearm(d) \/ Republish(d)
CallStep(c) == LookUp(c) \/ (caller[c] = "inside" /\ Leave(c))

Next ==
    \/ \E d \in Devices : AddDevice(d) \/ Unlink(d) \/ PnpStep(d) \/ FreeCtx(d) \/ Rearrive(d)
    \/ \E c \in Callers : Acquire(c) \/ LookUp(c) \/ QueueIrp(c) \/ Leave(c)

Spec == Init /\ [][Next]_vars

-----------------------------------------------------------------------------
TypeOK ==
    /\ dev \in [Devices -> DeviceStates] /\ was \in [Devices -> BOOLEAN]
    /\ live \in Seq(Devices) /\ ptr \in Devices \cup {NoDevice}
    /\ withdrawing \in BOOLEAN /\ draining \in BOOLEAN
    /\ closing \in [Devices -> BOOLEAN]
    /\ caller \in [Callers -> {"out", "acquired", "inside", "queued"}]
    /\ using \in [Callers -> Devices \cup {NoDevice}]
    /\ \A c \in Callers : (using[c] # NoDevice) <=> caller[c] \in {"inside", "queued"}

\* No caller is inside, or queued on, a context that may be freed: the rundown
\* of the one published context covers every device that ever was published.
NoUseAfterWithdraw ==
    \A c \in Callers :
        caller[c] \in {"inside", "queued"} =>
            dev[using[c]] \notin {"absent", "republish", "withdrawn", "freed"}

\* The control device serves a device whenever one is live, except during a
\* withdrawal; and the one it serves is live.
LiveDeviceServed ==
    /\ ptr # NoDevice => Contains(live, ptr)
    /\ ~withdrawing => (ptr = NoDevice <=> live = <<>>)

=============================================================================
