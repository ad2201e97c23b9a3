----------------------------- MODULE StreamPath -----------------------------
(***************************************************************************)
(* How a stream's start and stop travel from the driver to the audio loop. *)
(* Two ways lead there and nothing orders them against each other: the     *)
(* audio request, which stream stop completes with zero bytes, and the     *)
(* control events, which pass the event queue, the control thread's        *)
(* bounded channel and the driver-event consumer.  Both ways write the     *)
(* flag stream_active, and the audio loop decides by that flag whether to  *)
(* wait in the driver or to make silence itself.                           *)
(*                                                                         *)
(* Drivers: wavestream.cpp SetState, ioctl.cpp.  Service: ioctl_source.rs, *)
(* main.rs (driver-event consumer), audio_loop.rs, silence.rs.  The races  *)
(* inside one request are IoctlIrps and inside the event queue             *)
(* EventChannel, so a timer tick together with the request it completes,   *)
(* and an offer together with the delivery, are one step here.             *)
(***************************************************************************)
EXTENDS Naturals, Sequences

CONSTANTS
    MaxSessions,    \* bound on the streams started
    RingPackets,    \* packets the ring holds
    Sound,          \* audio from the driver
    Drained,        \* the zero-byte completion of stream stop
    Idle,           \* silence the loop makes itself
    NoPacket

ConstantsOK ==
    /\ MaxSessions \in Nat \ {0} /\ RingPackets \in Nat \ {0}
    /\ NoPacket \notin {Sound, Drained, Idle}

VARIABLES
    run,        \* the stream is in KSSTATE_RUN
    setter,     \* where SetState is: "idle", "drain", "postStop", "postStart"
    timer,      \* the consumer timer runs
    session,    \* streams started so far
    ring,       \* sessions of the buffered packets, oldest first
    queue,      \* EventQueue
    reader,     \* control thread: "ready", "empty", "waiting"
    chan,       \* bounded channel to the driver-event consumer
    active,     \* App::stream_active
    loop,       \* audio loop: "top", "issue", "pended", "process"
    loaded,     \* the loop's local copy of the flag
    packet, from, \* the packet in the loop's hand, and its session
    published   \* session of the last audio packet published

driver  == <<run, setter, timer, session, ring>>
channel == <<queue, reader, chan>>
hand    == <<loop, loaded, packet, from>>
vars == <<driver, channel, active, hand, published>>

\* Nothing is on its way to the flag: no event, and no zero-byte packet.
Settled ==
    /\ setter = "idle" /\ queue = <<>> /\ reader = "waiting" /\ chan = <<>>
    /\ ~(loaded /\ packet = Drained)

Init ==
    /\ run = FALSE /\ setter = "idle" /\ timer = FALSE /\ session = 0 /\ ring = <<>>
    /\ queue = <<>> /\ reader = "ready" /\ chan = <<>>
    /\ active = TRUE
    /\ loop = "top" /\ loaded = FALSE /\ packet = NoPacket /\ from = 0
    /\ published = 0

-----------------------------------------------------------------------------
(* The driver                                                              *)

\* Mutant: what is left in the ring is not dropped.
StartKeepsRing ==
    /\ setter = "idle" /\ ~run /\ session < MaxSessions
    /\ run' = TRUE /\ session' = session + 1 /\ setter' = "postStart"
    /\ UNCHANGED <<timer, ring, channel, active, hand, published>>

\* SetState(RUN): IoctlOnStreamStart resets the ring ...
Start ==
    /\ setter = "idle" /\ ~run /\ session < MaxSessions
    /\ run' = TRUE /\ session' = session + 1 /\ setter' = "postStart"
    /\ ring' = <<>>
    /\ UNCHANGED <<timer, channel, active, hand, published>>

\* SetState out of RUN: the timer is stopped ...
Stop ==
    /\ setter = "idle" /\ run
    /\ run' = FALSE /\ timer' = FALSE /\ setter' = "drain"
    /\ UNCHANGED <<session, ring, channel, active, hand, published>>

\* ... and IoctlOnStreamStop completes a pended request with zero bytes.
DrainOnStop ==
    /\ setter = "drain" /\ setter' = "postStop"
    /\ IF loop = "pended"
       THEN loop' = "process" /\ packet' = Drained /\ UNCHANGED <<loaded, from>>
       ELSE UNCHANGED hand
    /\ UNCHANGED <<run, timer, session, ring, channel, active, published>>

\* IoctlPostEvent: to the waiting request or into the queue.
PostEvent ==
    LET event == IF setter = "postStart" THEN "start" ELSE "stop" IN
    /\ setter \in {"postStart", "postStop"} /\ setter' = "idle"
    /\ timer' = (setter = "postStart")
    /\ \/ /\ reader = "waiting" /\ reader' = "ready"
          /\ chan' = Append(chan, event) /\ UNCHANGED queue
       \/ /\ reader # "waiting" /\ queue' = Append(queue, event)
          /\ UNCHANGED <<reader, chan>>
    /\ UNCHANGED <<run, session, ring, active, hand, published>>

\* A timer tick hands a packet over, completing the request that waits.
Produce ==
    /\ timer
    /\ IF loop = "pended"
       THEN /\ loop' = "process"
            /\ packet' = Sound /\ from' = session
            /\ UNCHANGED <<loaded, ring>>
       ELSE /\ ring' = IF Len(ring) = RingPackets THEN Append(Tail(ring), session)
                                                  ELSE Append(ring, session)
            /\ UNCHANGED hand
    /\ UNCHANGED <<run, setter, timer, session, channel, active, published>>

-----------------------------------------------------------------------------
(* The control thread and the driver-event consumer                        *)

FetchQueued ==
    /\ reader = "ready" /\ queue # <<>>
    /\ chan' = Append(chan, Head(queue)) /\ queue' = Tail(queue)
    /\ UNCHANGED <<driver, reader, active, hand, published>>

FindEmpty ==
    /\ reader = "ready" /\ queue = <<>> /\ reader' = "empty"
    /\ UNCHANGED <<driver, queue, chan, active, hand, published>>

InsertIrp ==
    /\ reader = "empty" /\ reader' = "waiting"
    /\ UNCHANGED <<driver, queue, chan, active, hand, published>>

Consume ==
    /\ chan # <<>> /\ chan' = Tail(chan)
    /\ active' = (Head(chan) = "start")
    /\ UNCHANGED <<driver, queue, reader, hand, published>>

-----------------------------------------------------------------------------
(* The audio loop                                                          *)

\* The flag decides: wait in the driver, or make a packet of silence.
LoadActive ==
    /\ loop = "top" /\ loaded' = active
    /\ \/ active /\ loop' = "issue" /\ UNCHANGED packet
       \/ ~active /\ loop' = "process" /\ packet' = Idle
    /\ UNCHANGED <<driver, channel, active, from, published>>

\* recv_packet: buffered audio at once, otherwise the request is pended.
RecvPacket ==
    /\ loop = "issue"
    /\ \/ /\ ring = <<>> /\ loop' = "pended"
          /\ UNCHANGED <<ring, packet, from>>
       \/ /\ ring # <<>> /\ loop' = "process"
          /\ packet' = Sound
          /\ from' = Head(ring) /\ ring' = Tail(ring)
    /\ UNCHANGED <<run, setter, timer, session, channel, active, loaded, published>>

\* The rest of an iteration: a zero-byte packet clears the flag, and the packet
\* is published.
Process ==
    /\ loop = "process" /\ loop' = "top"
    /\ packet' = NoPacket
    /\ active' = (active /\ ~(loaded /\ packet = Drained))
    /\ published' = IF packet = Sound THEN from ELSE published
    /\ UNCHANGED <<driver, channel, loaded, from>>

-----------------------------------------------------------------------------
ReaderStep == FetchQueued \/ FindEmpty \/ InsertIrp
LoopStep == LoadActive \/ RecvPacket \/ Process

Next ==
    \/ Start \/ Stop \/ DrainOnStop \/ PostEvent \/ Produce
    \/ ReaderStep \/ Consume \/ LoopStep

Spec == Init /\ [][Next]_vars

\* Every thread that can run does, and the timer fires while it is set; the
\* audio engine is never obliged to start or stop a stream.
Fairness ==
    /\ WF_vars(DrainOnStop) /\ WF_vars(PostEvent) /\ WF_vars(Produce)
    /\ WF_vars(ReaderStep) /\ WF_vars(Consume) /\ WF_vars(LoopStep)

-----------------------------------------------------------------------------
TypeOK ==
    /\ run \in BOOLEAN /\ timer \in BOOLEAN /\ active \in BOOLEAN /\ loaded \in BOOLEAN
    /\ setter \in {"idle", "drain", "postStop", "postStart"}
    /\ session \in 0..MaxSessions
    /\ ring \in Seq(1..MaxSessions) /\ Len(ring) <= RingPackets
    /\ queue \in Seq({"start", "stop"}) /\ chan \in Seq({"start", "stop"})
    /\ reader \in {"ready", "empty", "waiting"}
    /\ loop \in {"top", "issue", "pended", "process"}
    /\ packet \in {Sound, Drained, Idle, NoPacket}
    /\ (packet # NoPacket) <=> (loop = "process")
    /\ from \in 0..MaxSessions /\ published \in 0..MaxSessions

\* A session's audio never follows a later one's: the ring only ever holds
\* the current session, and what is published goes forward.
SessionsApart ==
    /\ \A k \in DOMAIN ring : ring[k] = session
    /\ published <= from /\ from <= session

\* Left in peace, a stream that runs is heard: every session's audio comes to
\* be published, or the session ends.
AudioFlows == []<>(run => published = session)

\* The consumers of the stream are fed as long as the service runs, by audio
\* or by silence, once a stream that ended is accounted for: the loop does not
\* stay in the driver.  audio_loop.rs: "Idle: emit paced silence so the
\* speaker doesn't time out the HTTP stream."
FedWhenIdle ==
    Settled /\ ~run /\ session > 0 /\ ring = <<>> => loop # "pended"

\* audio_loop.rs: the loop makes silence of its own "when the driver is idle
\* (stream not in KSSTATE_RUN)": the zero-byte packet of a stream that stopped
\* does not switch to silence for good while a later stream runs.
SilenceOnlyWhenIdle ==
    [][Process /\ active /\ ~active' => ~(run /\ Settled')]_vars
=============================================================================
