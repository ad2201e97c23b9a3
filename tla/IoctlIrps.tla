----------------------------- MODULE IoctlIrps -----------------------------
(***************************************************************************)
(* The life of an inverted-call IRP in the kernel driver (ioctl.cpp and    *)
(* the dispatch routines of driver.cpp): GET_AUDIO_PACKET and              *)
(* GET_CONTROL_EVENT requests are pended on two lists, claimed from them   *)
(* by producers, stream stop, handle cleanup, device removal or their own  *)
(* cancel routine, and completed.  The module is about who owns an IRP and *)
(* who may still touch the context; what a packet or an event says is left *)
(* to AudioChannel and EventChannel, so the ring and the event queue are   *)
(* counts here, and the lists are sets (no property here depends on which  *)
(* of several claimable IRPs is served first).                             *)
(*                                                                         *)
(* A step is one access to shared state that other threads can observe.    *)
(* A dequeue is a single step: it reads the cancel routine of each entry   *)
(* once, under the list's lock, and nothing another thread does between    *)
(* two entries concerns an entry it has already passed.                    *)
(***************************************************************************)
EXTENDS Naturals, FiniteSets

CONSTANTS
    AudioIrps, EventIrps,   \* IRPs of the two queued requests
    Files, FileOf,          \* file objects, and the one an IRP came through
    Dpc, Stream, Mixers, Pnp, \* WaveRT DPC, SetState, topology setters, PnP
    NoIrp, NoAgent,
    RingFrames,             \* capacity of the ring, in frames
    PacketFrames,           \* most frames one packet takes
    EventSlots              \* events the queue can hold

Irps   == AudioIrps \cup EventIrps
Agents == Irps \cup Files \cup Mixers \cup {Dpc, Stream, Pnp}
Queues == {"audio", "event"}
QueueOf(i) == IF i \in AudioIrps THEN "audio" ELSE "event"

ASSUME AgentsDistinct ==
    /\ AudioIrps \cap EventIrps = {}
    /\ Irps \cap (Files \cup Mixers \cup {Dpc, Stream, Pnp}) = {}
    /\ Files \cap (Mixers \cup {Dpc, Stream, Pnp}) = {}
    /\ Mixers \cap {Dpc, Stream, Pnp} = {}
    /\ Dpc # Stream /\ Dpc # Pnp /\ Stream # Pnp
ASSUME SentinelsDistinct == NoIrp \notin Irps /\ NoAgent \notin Agents
ASSUME FileOfType == FileOf \in [Irps -> Files]
ASSUME SizesPositive ==
    /\ RingFrames \in Nat \ {0}
    /\ PacketFrames \in Nat \ {0}
    /\ EventSlots \in Nat \ {0}

VARIABLES
    pc,         \* where each thread of control is
    held,       \* the IRP an agent has to complete or requeue
    batch,      \* CollectFileIrps' local list of claimed IRPs
    lock,       \* holder of AudioIrpLock / EventIrpLock
    queue,      \* AudioIrpList / EventIrpList
    rtn,        \* the IRP's cancel routine is set
    cancelled,  \* Irp->Cancel
    canc,       \* progress of IoCancelIrp and the cancel routine
    comp,       \* times the IRP was completed since it was issued
    dispRef, irpRef, fileRef, \* rundown references, by owner
    draining,   \* ExWaitForRundownProtectionRelease has begun
    published,  \* g_IoctlCtxPtr names the context
    closing,    \* Ctx->Closing
    attached,   \* ext->IoctlCtx names the context
    freed,      \* FreeIoctlCtx has run
    streaming,  \* the stream is in (or entering) KSSTATE_RUN
    ring,       \* frames in AudioRing
    events      \* events in EventQueue

agentVars   == <<pc, held, batch>>
listVars    == <<lock, queue, rtn>>
cancelVars  == <<cancelled, canc>>
refVars     == <<dispRef, irpRef, fileRef>>
deviceVars  == <<draining, published, closing, attached, freed>>
payloadVars == <<streaming, ring, events>>
vars == <<agentVars, listVars, cancelVars, comp, refVars, deviceVars, payloadVars>>

Labels ==
    {"idle", "enter", "look", "handle", "prepare", "insert", "hooked",
     "refuse", "refused", "sync", "exit",
     "drain", "pop", "copy", "requeue", "rehooked", "complete", "unref",
     "stop", "post", "enqueue",
     "collectAudio", "collectEvent", "finish", "closed",
     "close", "cancelAudio", "cancelEvent", "wait", "drained", "detach",
     "forward", "gone"}
CancelLabels == {"idle", "flagged", "taken", "unlisted", "completed"}

Init ==
    /\ pc = [a \in Agents |-> "idle"]
    /\ held = [a \in Agents |-> NoIrp]
    /\ batch = [f \in Files |-> {}]
    /\ lock = [q \in Queues |-> NoAgent]
    /\ queue = [q \in Queues |-> {}]
    /\ rtn = [i \in Irps |-> FALSE]
    /\ cancelled = [i \in Irps |-> FALSE]
    /\ canc = [i \in Irps |-> "idle"]
    /\ comp = [i \in Irps |-> 1]
    /\ dispRef = {} /\ irpRef = {} /\ fileRef = {}
    /\ draining = FALSE /\ published = TRUE /\ closing = FALSE
    /\ attached = TRUE /\ freed = FALSE
    /\ streaming = FALSE /\ ring = 0 /\ events = 0

Smaller(m, n) == IF m < n THEN m ELSE n
Goto(a, label) == pc' = [pc EXCEPT ![a] = label]
\* An agent gives up the IRP it held and continues at label.
DropTo(a, label) == Goto(a, label) /\ held' = [held EXCEPT ![a] = NoIrp]
Free(q) == lock[q] = NoAgent

-----------------------------------------------------------------------------
(* Dispatch of a request, on the issuing thread                            *)

\* User mode sends the request.  An identifier is used again once every
\* trace of its previous IRP is gone.
Issue(i) ==
    /\ pc[i] = "idle" /\ comp[i] = 1 /\ i \notin irpRef /\ canc[i] = "idle"
    /\ pc[FileOf[i]] = "idle"
    /\ Goto(i, "enter")
    /\ held' = [held EXCEPT ![i] = i]
    /\ comp' = [comp EXCEPT ![i] = 0]
    /\ cancelled' = [cancelled EXCEPT ![i] = FALSE]
    /\ UNCHANGED <<batch, listVars, canc, refVars, deviceVars, payloadVars>>

AcquireDispatch(i) ==
    /\ pc[i] = "enter"
    /\ \/ draining /\ Goto(i, "sync") /\ UNCHANGED dispRef
       \/ ~draining /\ Goto(i, "look") /\ dispRef' = dispRef \cup {i}
    /\ UNCHANGED <<held, batch, listVars, cancelVars, comp, irpRef, fileRef,
                   deviceVars, payloadVars>>

LookUpCtx(i) ==
    /\ pc[i] = "look"
    /\ \/ published /\ Goto(i, "handle") /\ UNCHANGED dispRef
       \/ ~published /\ Goto(i, "sync") /\ dispRef' = dispRef \ {i}
    /\ UNCHANGED <<held, batch, listVars, cancelVars, comp, irpRef, fileRef,
                   deviceVars, payloadVars>>

\* Parameter checks; a GET_CONTROL_EVENT takes a queued event if there is one.
HandleRequest(i) ==
    /\ pc[i] = "handle"
    /\ \/ Goto(i, "sync") /\ UNCHANGED events
       \/ i \in AudioIrps /\ Goto(i, "prepare") /\ UNCHANGED events
       \/ i \in EventIrps /\ events > 0 /\ Goto(i, "sync") /\ events' = events - 1
       \/ i \in EventIrps /\ events = 0 /\ Goto(i, "prepare") /\ UNCHANGED events
    /\ UNCHANGED <<held, batch, listVars, cancelVars, comp, refVars, deviceVars,
                   streaming, ring>>

PrepareIrpForQueue(i) ==
    /\ pc[i] = "prepare"
    /\ \/ draining /\ Goto(i, "sync") /\ UNCHANGED irpRef
       \/ ~draining /\ Goto(i, "insert") /\ irpRef' = irpRef \cup {i}
    /\ UNCHANGED <<held, batch, listVars, cancelVars, comp, dispRef, fileRef,
                   deviceVars, payloadVars>>

\* Mutant: Closing is not looked at under the list's lock.
HookAlways(i) ==
    /\ pc[i] = "insert" /\ Free(QueueOf(i)) /\ Goto(i, "hooked")
    /\ lock' = [lock EXCEPT ![QueueOf(i)] = i]
    /\ rtn' = [rtn EXCEPT ![i] = TRUE]
    /\ UNCHANGED <<held, batch, queue, cancelVars, comp, refVars, deviceVars,
                   payloadVars>>

\* Take the list's lock, look at Closing, set the cancel routine.
HookIrp(i) ==
    /\ pc[i] = "insert" /\ Free(QueueOf(i))
    /\ \/ closing /\ Goto(i, "refuse") /\ UNCHANGED <<lock, rtn>>
       \/ /\ ~closing /\ Goto(i, "hooked")
          /\ lock' = [lock EXCEPT ![QueueOf(i)] = i]
          /\ rtn' = [rtn EXCEPT ![i] = TRUE]
    /\ UNCHANGED <<held, batch, queue, cancelVars, comp, refVars, deviceVars,
                   payloadVars>>

\* Mutant: a cancelled request whose routine was taken back is returned
\* pending instead of being completed.
InsertForgets(i) ==
    /\ pc[i] = "hooked"
    /\ lock' = [lock EXCEPT ![QueueOf(i)] = NoAgent]
    /\ \/ /\ ~cancelled[i]
          /\ queue' = [queue EXCEPT ![QueueOf(i)] = @ \cup {i}]
          /\ DropTo(i, IF i \in AudioIrps THEN "drain" ELSE "exit")
          /\ UNCHANGED rtn
       \/ /\ cancelled[i] /\ DropTo(i, "exit")
          /\ rtn' = [rtn EXCEPT ![i] = FALSE]
          /\ UNCHANGED queue
    /\ UNCHANGED <<batch, cancelVars, comp, refVars, deviceVars, payloadVars>>

\* Look at Irp->Cancel: insert, undo and complete, or leave the IRP to the
\* cancel routine that already took it; then release the lock.
InsertIrp(i) ==
    /\ pc[i] = "hooked"
    /\ lock' = [lock EXCEPT ![QueueOf(i)] = NoAgent]
    /\ \/ /\ ~cancelled[i]
          /\ queue' = [queue EXCEPT ![QueueOf(i)] = @ \cup {i}]
          /\ DropTo(i, IF i \in AudioIrps THEN "drain" ELSE "exit")
          /\ UNCHANGED rtn
       \/ /\ cancelled[i] /\ rtn[i]
          /\ rtn' = [rtn EXCEPT ![i] = FALSE]
          /\ Goto(i, "refuse")
          /\ UNCHANGED <<queue, held>>
       \/ /\ cancelled[i] /\ ~rtn[i]
          /\ DropTo(i, "exit")
          /\ UNCHANGED <<queue, rtn>>
    /\ UNCHANGED <<batch, cancelVars, comp, refVars, deviceVars, payloadVars>>

\* CompleteQueuedIrp on the request's own thread, in its two halves.
RefuseIrp(i) ==
    /\ pc[i] = "refuse" /\ Goto(i, "refused")
    /\ comp' = [comp EXCEPT ![i] = @ + 1]
    /\ UNCHANGED <<held, batch, listVars, cancelVars, refVars, deviceVars,
                   payloadVars>>

ReleaseRefused(i) ==
    /\ pc[i] = "refused" /\ DropTo(i, "exit")
    /\ irpRef' = irpRef \ {i}
    /\ UNCHANGED <<batch, listVars, cancelVars, comp, dispRef, fileRef,
                   deviceVars, payloadVars>>

\* The dispatch routine completes a request that was not pended.
CompleteSync(i) ==
    /\ pc[i] = "sync" /\ DropTo(i, "exit")
    /\ comp' = [comp EXCEPT ![i] = @ + 1]
    /\ UNCHANGED <<batch, listVars, cancelVars, refVars, deviceVars, payloadVars>>

LeaveDispatch(i) ==
    /\ pc[i] = "exit" /\ Goto(i, "idle")
    /\ dispRef' = dispRef \ {i}
    /\ UNCHANGED <<held, batch, listVars, cancelVars, comp, irpRef, fileRef,
                   deviceVars, payloadVars>>

-----------------------------------------------------------------------------
(* Claiming IRPs from a list and completing them                           *)

\* Mutant: the head of the list is claimed whether or not its cancel routine
\* could be taken back.
ClaimAny(a, q, i, passed, label) ==
    /\ i \in queue[q] /\ passed = {}
    /\ queue' = [queue EXCEPT ![q] = @ \ {i}]
    /\ rtn' = [rtn EXCEPT ![i] = FALSE]
    /\ held' = [held EXCEPT ![a] = i]
    /\ Goto(a, label)

\* DequeueAudioIrp / DequeueEventIrp: entries whose cancel routine is gone
\* are unlinked and passed over; the first other one is claimed.
Claim(a, q, i, passed, label) ==
    /\ i \in queue[q] /\ rtn[i] /\ \A j \in passed : ~rtn[j]
    /\ queue' = [queue EXCEPT ![q] = @ \ (passed \cup {i})]
    /\ rtn' = [rtn EXCEPT ![i] = FALSE]
    /\ held' = [held EXCEPT ![a] = i]
    /\ Goto(a, label)

FindNone(a, q, label) ==
    /\ \A i \in queue[q] : ~rtn[i]
    /\ queue' = [queue EXCEPT ![q] = {}]
    /\ Goto(a, label)
    /\ UNCHANGED <<rtn, held>>

Dequeue(a, q, found, none) ==
    /\ Free(q)
    /\ \/ \E i \in queue[q] : \E passed \in SUBSET queue[q] : Claim(a, q, i, passed, found)
       \/ FindNone(a, q, none)
    /\ UNCHANGED <<batch, lock, cancelVars, comp, refVars, deviceVars, payloadVars>>

\* Where an agent goes on after it has completed the IRP it claimed.
After(a) ==
    CASE a \in AudioIrps \cup {Dpc} -> "drain"
      [] a = Stream -> IF held[a] \in AudioIrps THEN "stop" ELSE "idle"
      [] a \in Mixers -> "idle"
      [] a \in Files -> "finish"
      [] OTHER -> IF held[a] \in AudioIrps THEN "cancelAudio" ELSE "cancelEvent"

\* CompleteQueuedIrp: IoCompleteRequest first, the reference after it.
CompleteClaimed(a) ==
    /\ pc[a] = "complete" /\ Goto(a, "unref")
    /\ comp' = [comp EXCEPT ![held[a]] = @ + 1]
    /\ UNCHANGED <<held, batch, listVars, cancelVars, refVars, deviceVars,
                   payloadVars>>

ReleaseClaimed(a) ==
    /\ pc[a] = "unref" /\ DropTo(a, After(a))
    /\ irpRef' = irpRef \ {held[a]}
    /\ UNCHANGED <<batch, listVars, cancelVars, comp, dispRef, fileRef,
                   deviceVars, payloadVars>>

\* IoctlTryCompleteAudio, run by the DPC and by every audio dispatcher.
LeaveLoop(a) == IF a = Dpc THEN "idle" ELSE "exit"

CheckAvailable(a) ==
    /\ pc[a] = "drain"
    /\ Goto(a, IF ring = 0 THEN LeaveLoop(a) ELSE "pop")
    /\ UNCHANGED <<held, batch, listVars, cancelVars, comp, refVars, deviceVars,
                   payloadVars>>

PopAudioIrp(a) == pc[a] = "pop" /\ Dequeue(a, "audio", "copy", LeaveLoop(a))

\* Map the output buffer (which can fail) and read the ring (which another
\* thread may have drained since it was looked at).
CopyPacket(a) ==
    /\ pc[a] = "copy"
    /\ \/ Goto(a, "complete") /\ UNCHANGED ring
       \/ ring = 0 /\ Goto(a, "requeue") /\ UNCHANGED ring
       \/ ring > 0 /\ Goto(a, "complete") /\ ring' = ring - Smaller(ring, PacketFrames)
    /\ UNCHANGED <<held, batch, listVars, cancelVars, comp, refVars, deviceVars,
                   streaming, events>>

HookRequeued(a) ==
    /\ pc[a] = "requeue" /\ Free("audio")
    /\ \/ closing /\ Goto(a, "complete") /\ UNCHANGED <<lock, rtn>>
       \/ /\ ~closing /\ Goto(a, "rehooked")
          /\ lock' = [lock EXCEPT !["audio"] = a]
          /\ rtn' = [rtn EXCEPT ![held[a]] = TRUE]
    /\ UNCHANGED <<held, batch, queue, cancelVars, comp, refVars, deviceVars,
                   payloadVars>>

InsertRequeued(a) ==
    /\ pc[a] = "rehooked"
    /\ lock' = [lock EXCEPT !["audio"] = NoAgent]
    /\ \/ /\ cancelled[held[a]] /\ rtn[held[a]]
          /\ rtn' = [rtn EXCEPT ![held[a]] = FALSE]
          /\ Goto(a, "complete")
          /\ UNCHANGED <<queue, held>>
       \/ /\ ~(cancelled[held[a]] /\ rtn[held[a]])
          /\ queue' = [queue EXCEPT !["audio"] = @ \cup {held[a]}]
          /\ DropTo(a, LeaveLoop(a))
          /\ UNCHANGED rtn
    /\ UNCHANGED <<batch, cancelVars, comp, refVars, deviceVars, payloadVars>>

-----------------------------------------------------------------------------
(* Producers: the stream's state changes, its DPC, the topology setters    *)

\* IoctlOnStreamStart: empty the ring, then post StreamStart.
StreamStart ==
    /\ pc[Stream] = "idle" /\ ~streaming /\ attached
    /\ streaming' = TRUE /\ ring' = 0
    /\ Goto(Stream, "post")
    /\ UNCHANGED <<held, batch, listVars, cancelVars, comp, refVars, deviceVars,
                   events>>

\* Leaving RUN: the timer is stopped and its DPC flushed, then
\* IoctlOnStreamStop drains the audio IRPs and posts StreamStop.
StreamStop ==
    /\ pc[Stream] = "idle" /\ streaming /\ attached /\ pc[Dpc] = "idle"
    /\ streaming' = FALSE
    /\ Goto(Stream, "stop")
    /\ UNCHANGED <<held, batch, listVars, cancelVars, comp, refVars, deviceVars,
                   ring, events>>

DrainOnStop ==
    pc[Stream] = "stop" /\ Dequeue(Stream, "audio", "complete", "post")

\* IoctlAudioProduce: one timer tick of PCM, oldest frames overwritten.
Produce ==
    /\ pc[Dpc] = "idle" /\ streaming /\ pc[Stream] = "idle" /\ attached
    /\ \E n \in 1..RingFrames : ring' = Smaller(ring + n, RingFrames)
    /\ Goto(Dpc, "drain")
    /\ UNCHANGED <<held, batch, listVars, cancelVars, comp, refVars, deviceVars,
                   streaming, events>>

\* A volume or mute setter calls IoctlPostEvent.
ChangeControl(m) ==
    /\ pc[m] = "idle" /\ attached
    /\ Goto(m, "post")
    /\ UNCHANGED <<held, batch, listVars, cancelVars, comp, refVars, deviceVars,
                   payloadVars>>

OfferEvent(a) == pc[a] = "post" /\ Dequeue(a, "event", "complete", "enqueue")

EnqueueEvent(a) ==
    /\ pc[a] = "enqueue" /\ Goto(a, "idle")
    /\ events' = Smaller(events + 1, EventSlots)
    /\ UNCHANGED <<held, batch, listVars, cancelVars, comp, refVars, deviceVars,
                   streaming, ring>>

-----------------------------------------------------------------------------
(* Cancellation of one IRP (IoCancelIrp and the two cancel routines)       *)

RequestCancel(i) ==
    /\ comp[i] = 0 /\ canc[i] = "idle"
    /\ cancelled' = [cancelled EXCEPT ![i] = TRUE]
    /\ canc' = [canc EXCEPT ![i] = "flagged"]
    /\ UNCHANGED <<agentVars, listVars, comp, refVars, deviceVars, payloadVars>>

\* The I/O manager exchanges the routine with NULL, and calls what it got.
TakeCancelRoutine(i) ==
    /\ canc[i] = "flagged"
    /\ canc' = [canc EXCEPT ![i] = IF rtn[i] THEN "taken" ELSE "idle"]
    /\ rtn' = [rtn EXCEPT ![i] = FALSE]
    /\ UNCHANGED <<agentVars, lock, queue, cancelled, comp, refVars, deviceVars,
                   payloadVars>>

\* The cancel routine unlinks the IRP if it is on the list ...
CancelUnlink(i) ==
    /\ canc[i] = "taken" /\ Free(QueueOf(i))
    /\ canc' = [canc EXCEPT ![i] = "unlisted"]
    /\ queue' = [queue EXCEPT ![QueueOf(i)] = @ \ {i}]
    /\ UNCHANGED <<agentVars, lock, rtn, cancelled, comp, refVars, deviceVars,
                   payloadVars>>

\* ... and completes it.
CancelComplete(i) ==
    /\ canc[i] = "unlisted"
    /\ canc' = [canc EXCEPT ![i] = "completed"]
    /\ comp' = [comp EXCEPT ![i] = @ + 1]
    /\ UNCHANGED <<agentVars, listVars, cancelled, refVars, deviceVars, payloadVars>>

CancelRelease(i) ==
    /\ canc[i] = "completed"
    /\ canc' = [canc EXCEPT ![i] = "idle"]
    /\ irpRef' = irpRef \ {i}
    /\ UNCHANGED <<agentVars, listVars, cancelled, comp, dispRef, fileRef,
                   deviceVars, payloadVars>>

-----------------------------------------------------------------------------
(* IRP_MJ_CLEANUP of a file object                                         *)

CloseHandle(f) ==
    /\ pc[f] = "idle" /\ Goto(f, "enter")
    /\ UNCHANGED <<held, batch, listVars, cancelVars, comp, refVars, deviceVars,
                   payloadVars>>

AcquireCleanup(f) ==
    /\ pc[f] = "enter"
    /\ \/ draining /\ Goto(f, "closed") /\ UNCHANGED fileRef
       \/ ~draining /\ Goto(f, "look") /\ fileRef' = fileRef \cup {f}
    /\ UNCHANGED <<held, batch, listVars, cancelVars, comp, dispRef, irpRef,
                   deviceVars, payloadVars>>

LookUpForCleanup(f) ==
    /\ pc[f] = "look"
    /\ Goto(f, IF published THEN "collectAudio" ELSE "finish")
    /\ UNCHANGED <<held, batch, listVars, cancelVars, comp, refVars, deviceVars,
                   payloadVars>>

\* CollectFileIrps: unlink the file's entries, keep those whose cancel
\* routine was still set.
CollectFileIrps(f, label, q, next) ==
    LET mine == {i \in queue[q] : FileOf[i] = f} IN
    /\ pc[f] = label /\ Free(q) /\ Goto(f, next)
    /\ queue' = [queue EXCEPT ![q] = @ \ mine]
    /\ batch' = [batch EXCEPT ![f] = @ \cup {i \in mine : rtn[i]}]
    /\ rtn' = [i \in Irps |-> rtn[i] /\ i \notin mine]
    /\ UNCHANGED <<held, lock, cancelVars, comp, refVars, deviceVars, payloadVars>>

CleanupNext(f) ==
    /\ pc[f] = "finish"
    /\ \/ \E i \in batch[f] :
             /\ batch' = [batch EXCEPT ![f] = @ \ {i}]
             /\ held' = [held EXCEPT ![f] = i]
             /\ Goto(f, "complete")
             /\ UNCHANGED fileRef
       \/ /\ batch[f] = {}
          /\ fileRef' = fileRef \ {f}
          /\ Goto(f, "closed")
          /\ UNCHANGED <<held, batch>>
    /\ UNCHANGED <<listVars, cancelVars, comp, dispRef, irpRef, deviceVars,
                   payloadVars>>

-----------------------------------------------------------------------------
(* SURPRISE_REMOVAL and REMOVE_DEVICE                                      *)

\* Steps of the PnP thread that change only the device's own flags.
PnpFlags(from, to) ==
    /\ pc[Pnp] = from /\ Goto(Pnp, to)
    /\ UNCHANGED <<held, batch, listVars, cancelVars, comp, refVars, payloadVars>>

Withdraw ==
    /\ PnpFlags("idle", "close") /\ published' = FALSE
    /\ UNCHANGED <<draining, closing, attached, freed>>
BeginClose ==
    /\ PnpFlags("close", "cancelAudio") /\ closing' = TRUE
    /\ UNCHANGED <<draining, published, attached, freed>>
CancelAllAudio ==
    pc[Pnp] = "cancelAudio" /\ Dequeue(Pnp, "audio", "complete", "cancelEvent")
CancelAllEvent ==
    pc[Pnp] = "cancelEvent" /\ Dequeue(Pnp, "event", "complete", "wait")
StartWait ==
    /\ PnpFlags("wait", "drained") /\ draining' = TRUE
    /\ UNCHANGED <<published, closing, attached, freed>>

\* Mutant: the rundown wait does not wait for the queued IRPs' references.
RearmEarly ==
    /\ dispRef = {} /\ fileRef = {}
    /\ PnpFlags("drained", "detach") /\ draining' = FALSE
    /\ UNCHANGED <<published, closing, attached, freed>>

Rearm ==
    /\ dispRef = {} /\ irpRef = {} /\ fileRef = {}
    /\ PnpFlags("drained", "detach") /\ draining' = FALSE
    /\ UNCHANGED <<published, closing, attached, freed>>
Detach ==
    /\ PnpFlags("detach", "forward") /\ attached' = FALSE
    /\ UNCHANGED <<draining, published, closing, freed>>

\* PortCls returns from REMOVE once its callbacks into the miniports have;
\* then the context is freed.
FreeCtx ==
    /\ \A a \in Mixers \cup {Dpc, Stream} : pc[a] = "idle"
    /\ PnpFlags("forward", "gone") /\ freed' = TRUE
    /\ UNCHANGED <<draining, published, closing, attached>>

-----------------------------------------------------------------------------
DispatchStep(i) ==
    \/ AcquireDispatch(i) \/ LookUpCtx(i) \/ HandleRequest(i)
    \/ PrepareIrpForQueue(i) \/ HookIrp(i) \/ InsertIrp(i)
    \/ RefuseIrp(i) \/ ReleaseRefused(i) \/ CompleteSync(i) \/ LeaveDispatch(i)
ClaimedStep(a) == CompleteClaimed(a) \/ ReleaseClaimed(a)
DrainStep(a) ==
    \/ CheckAvailable(a) \/ PopAudioIrp(a) \/ CopyPacket(a)
    \/ HookRequeued(a) \/ InsertRequeued(a)
PostStep(a) == OfferEvent(a) \/ EnqueueEvent(a)
CancelStep(i) ==
    TakeCancelRoutine(i) \/ CancelUnlink(i) \/ CancelComplete(i) \/ CancelRelease(i)
CleanupStep(f) ==
    \/ AcquireCleanup(f) \/ LookUpForCleanup(f) \/ CleanupNext(f)
    \/ CollectFileIrps(f, "collectAudio", "audio", "collectEvent")
    \/ CollectFileIrps(f, "collectEvent", "event", "finish")
PnpStep ==
    \/ BeginClose \/ CancelAllAudio \/ CancelAllEvent
    \/ StartWait \/ Rearm \/ Detach \/ FreeCtx

\* What an agent does once it is inside the driver.
AgentStep(a) ==
    \/ a \in Irps /\ DispatchStep(a)
    \/ a \in AudioIrps \cup {Dpc} /\ DrainStep(a)
    \/ a \in Mixers \cup {Stream} /\ PostStep(a)
    \/ a = Stream /\ DrainOnStop
    \/ a \in Files /\ CleanupStep(a)
    \/ a = Pnp /\ PnpStep
    \/ ClaimedStep(a)

Next ==
    \/ \E a \in Agents : AgentStep(a)
    \/ \E i \in Irps : Issue(i) \/ RequestCancel(i) \/ CancelStep(i)
    \/ StreamStart \/ StreamStop \/ Produce
    \/ \E m \in Mixers : ChangeControl(m)
    \/ \E f \in Files : CloseHandle(f)
    \/ Withdraw

Spec == Init /\ [][Next]_vars

\* Threads that are inside the driver keep running, and a cancel routine the
\* I/O manager has begun runs to its end.  Nothing obliges user mode to issue
\* or cancel a request, the mixer to move, or the device to be removed.
Fairness ==
    /\ \A a \in Agents : WF_vars(AgentStep(a))
    /\ \A i \in Irps : WF_vars(CancelStep(i))

FairSpec == Spec /\ Fairness
-----------------------------------------------------------------------------
(* What the queues promise                                                 *)

TypeOK ==
    /\ pc \in [Agents -> Labels]
    /\ held \in [Agents -> Irps \cup {NoIrp}]
    /\ batch \in [Files -> SUBSET Irps]
    /\ lock \in [Queues -> Agents \cup {NoAgent}]
    /\ queue \in [Queues -> SUBSET Irps]
    /\ rtn \in [Irps -> BOOLEAN]
    /\ cancelled \in [Irps -> BOOLEAN]
    /\ canc \in [Irps -> CancelLabels]
    /\ comp \in [Irps -> Nat]
    /\ dispRef \subseteq Irps /\ irpRef \subseteq Irps /\ fileRef \subseteq Files
    /\ draining \in BOOLEAN /\ published \in BOOLEAN /\ closing \in BOOLEAN
    /\ attached \in BOOLEAN /\ freed \in BOOLEAN
    /\ streaming \in BOOLEAN
    /\ ring \in 0..RingFrames /\ events \in 0..EventSlots

\* An IRP is completed at most once, whichever of its dispatcher, a producer,
\* stream stop, handle cleanup, removal and its cancel routine get to it
\* (ioctl.cpp's "check the old routine" protocol).
CompletedOnce == \A i \in Irps : comp[i] <= 1

\* A list holds only its own kind of IRP, none that was completed or that an
\* agent has claimed; and each entry can still be got off it, by a dequeue
\* (its routine is set) or by the cancel routine that took it.
ListsSound ==
    \A q \in Queues : \A i \in queue[q] :
        /\ QueueOf(i) = q /\ comp[i] = 0
        /\ \A a \in Agents : held[a] # i
        /\ \A f \in Files : i \notin batch[f]
        /\ rtn[i] \/ canc[i] = "taken"

\* No IRP is forgotten: one that was issued and not completed is on a list,
\* in the hands of an agent that will complete or list it, or of its cancel
\* routine.
NoneForgotten ==
    \A i \in Irps : comp[i] = 0 =>
        \/ i \in queue[QueueOf(i)]
        \/ \E a \in Agents : held[a] = i
        \/ \E f \in Files : i \in batch[f]
        \/ canc[i] \in {"taken", "unlisted"}

\* The reference CompleteQueuedIrp drops is one the IRP still owns.
ReferenceOwned ==
    /\ \A a \in Agents : pc[a] \in {"complete", "unref"} => held[a] \in irpRef
    /\ \A i \in Irps : canc[i] \in {"taken", "unlisted", "completed"} => i \in irpRef
    /\ \A q \in Queues : queue[q] \subseteq irpRef

\* A thread at one of these labels is about to use the context.
InsideCtx == Labels \
    {"idle", "enter", "look", "sync", "exit", "closed", "gone",
     "complete", "unref", "refuse", "refused", "finish"}

\* Nothing uses the context once FreeIoctlCtx has run: no dispatcher, cleanup
\* or producer is inside it, no cancel routine is on its way to a list lock.
NoUseAfterFree ==
    freed => /\ \A a \in Agents : pc[a] \notin InsideCtx
             /\ \A i \in Irps : canc[i] # "taken"

\* Once the rundown wait is over, every pended IRP has been completed: what
\* is still open is a request on its way to DEVICE_NOT_READY.
Withdrawn == pc[Pnp] \in {"detach", "forward", "gone"}
DrainedWhenWithdrawn ==
    Withdrawn =>
        /\ \A q \in Queues : queue[q] = {}
        /\ \A f \in Files : batch[f] = {}
        /\ \A i \in Irps : comp[i] = 0 => pc[i] \in {"enter", "look", "sync"}

(***************************************************************************)
(* The inductive invariant behind the properties above.                    *)
(***************************************************************************)
OwnLabels == {"enter", "look", "handle", "prepare", "insert", "hooked",
              "refuse", "refused", "sync"}
ClaimLabels == {"copy", "requeue", "rehooked", "complete", "unref"}
LoopLabels == {"idle", "drain", "pop"}
DispatchLabels == OwnLabels \cup ClaimLabels \cup LoopLabels \cup {"exit"}
Hooked(a) == pc[a] \in {"hooked", "rehooked"}
Completed(a) == pc[a] \in {"refused", "unref"}

\* Each agent keeps to its own labels, and holds an IRP exactly where it says.
LabelsSound ==
    /\ \A i \in Irps : pc[i] \in DispatchLabels
    /\ \A i \in EventIrps : pc[i] \notin ClaimLabels \cup {"drain", "pop"}
    /\ pc[Dpc] \in LoopLabels \cup ClaimLabels
    /\ pc[Stream] \in {"idle", "stop", "post", "enqueue", "complete", "unref"}
    /\ \A m \in Mixers : pc[m] \in {"idle", "post", "enqueue", "complete", "unref"}
    /\ \A f \in Files : pc[f] \in {"idle", "enter", "look", "collectAudio",
           "collectEvent", "finish", "closed", "complete", "unref"}
    /\ pc[Pnp] \in {"idle", "close", "cancelAudio", "cancelEvent", "complete",
           "unref", "wait", "drained", "detach", "forward", "gone"}
    /\ \A i \in Irps : pc[i] \in OwnLabels => held[i] = i
    /\ \A a \in Agents : pc[a] \in ClaimLabels => held[a] \in Irps
    /\ \A a \in Agents : held[a] # NoIrp =>
           pc[a] \in ClaimLabels \/ (a \in Irps /\ pc[a] \in OwnLabels)
    /\ \A a \in Agents : pc[a] \in {"copy", "requeue", "rehooked"} => held[a] \in AudioIrps

\* An IRP has one owner: one agent, one batch or one list.
OneOwner ==
    /\ \A a, b \in Agents : held[a] = held[b] /\ held[a] # NoIrp => a = b
    /\ \A a \in Agents : \A q \in Queues : held[a] \notin queue[q]
    /\ \A a \in Agents : \A f \in Files : held[a] \notin batch[f]
    /\ \A f \in Files : \A q \in Queues : batch[f] \cap queue[q] = {}
    /\ \A f, g \in Files : f # g => batch[f] \cap batch[g] = {}
    /\ \A q \in Queues : \A i \in queue[q] : QueueOf(i) = q

\* An owned IRP is not completed, except by the agent that is releasing it.
CompletionCount ==
    /\ \A i \in Irps : comp[i] \in {0, 1}
    /\ \A q \in Queues : \A i \in queue[q] : comp[i] = 0
    /\ \A f \in Files : \A i \in batch[f] : comp[i] = 0
    /\ \A a \in Agents : held[a] # NoIrp =>
           comp[held[a]] = IF Completed(a) THEN 1 ELSE 0
    /\ \A i \in Irps : canc[i] \in {"taken", "unlisted"} => comp[i] = 0
    /\ \A i \in Irps : canc[i] = "completed" => comp[i] = 1

\* The cancel routine is set only on a list or under the list's lock; an IRP
\* there whose routine is gone is in the hands of that routine.
RoutinePlaced ==
    \A i \in Irps : rtn[i] =>
        /\ canc[i] \in {"idle", "flagged"}
        /\ i \in queue[QueueOf(i)] \/ \E a \in Agents : held[a] = i /\ Hooked(a)
EntriesReachable ==
    \A q \in Queues : \A i \in queue[q] : rtn[i] \/ canc[i] = "taken"
HookedReachable ==
    \A a \in Agents : held[a] # NoIrp /\ Hooked(a) =>
        rtn[held[a]] \/ canc[held[a]] = "taken"
HeldSafe ==
    /\ \A a \in Agents : held[a] # NoIrp /\ ~Hooked(a) =>
           canc[held[a]] \in {"idle", "flagged"}
    /\ \A f \in Files : \A i \in batch[f] : canc[i] \in {"idle", "flagged"}
HookedLocks ==
    \A a \in Agents : Hooked(a) => lock[QueueOf(held[a])] = a
RoutineSound ==
    RoutinePlaced /\ EntriesReachable /\ HookedReachable /\ HeldSafe /\ HookedLocks

\* Whoever may still need a rundown reference has one.
RundownSound ==
    /\ \A q \in Queues : queue[q] \subseteq irpRef
    /\ \A f \in Files : batch[f] \subseteq irpRef
    /\ \A a \in Agents : pc[a] \in ClaimLabels \cup {"insert", "hooked", "refuse", "refused"}
           => held[a] \in irpRef
    /\ \A i \in Irps : canc[i] \in {"taken", "unlisted", "completed"} => i \in irpRef
    /\ \A i \in Irps : pc[i] \notin {"idle", "enter", "sync", "exit"} => i \in dispRef
    /\ \A f \in Files : pc[f] \notin {"idle", "enter", "closed"} => f \in fileRef

\* After the rundown wait nobody gets past the cleared pointer, and after
\* REMOVE no producer finds the context.
RemovalSound ==
    /\ pc[Pnp] # "idle" => ~published
    /\ Withdrawn => /\ irpRef = {}
                    /\ \A i \in Irps : pc[i] \in {"idle", "enter", "look", "sync", "exit"}
                    /\ \A f \in Files : pc[f] \in {"idle", "enter", "look", "finish", "closed"}
    /\ pc[Pnp] \in {"forward", "gone"} => ~attached
    /\ freed => /\ pc[Pnp] = "gone"
                /\ \A a \in Mixers \cup {Dpc, Stream} : pc[a] = "idle"

IInv ==
    /\ TypeOK /\ LabelsSound /\ OneOwner /\ CompletionCount
    /\ RoutineSound /\ RundownSound /\ RemovalSound /\ NoneForgotten

\* Removal always gets through the rundown wait to the freeing of the context.
RemovalFinishes == []<>(published \/ freed)

\* A request whose cancellation was asked for does not stay pending.
CancelledCompletes ==
    \A i \in Irps : []<>~(cancelled[i] /\ comp[i] = 0)

\* ioctl.cpp: "if no audio is ready, the IRP is queued.  When the WaveRT DPC
\* delivers fresh PCM into the ring buffer, we drain queued IRPs and complete
\* them": no request waits beside buffered audio once every drain loop is done.
AudioNotLeftWaiting ==
    (\A a \in AudioIrps \cup {Dpc} : pc[a] = "idle") /\ ring > 0
        => \A i \in queue["audio"] : ~rtn[i]
=============================================================================
