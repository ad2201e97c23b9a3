--------------------------- MODULE LoopbackCapture ---------------------------
(* The source used without the driver (wasapi_source.rs) and what the audio  *)
(* loop does with a packet before it is published (audio_loop.rs,            *)
(* silence.rs).  A thread of its own holds the system's capture stream,      *)
(* whose callback queues chunks; the audio loop resamples them into packets, *)
(* replaces long silence by noise, and drops or repeats frames.  Chunks and  *)
(* packets are counts of frames.                                             *)
EXTENDS Integers, Sequences, FiniteSets

CONSTANTS
    Ratios,         \* source rate / wire rate, as <<num, den>>
    Chunks,         \* lengths of a chunk
    QueueMax, PacketFrames, Quiescent,
    FudgeOne,       \* fudge steps in a frame
    Steps,          \* latency_adjust_step_frames, each less than a packet
    MaxCaptured,    \* callbacks
    MaxKnobs        \* moves of a knob

VARIABLES
    worker,         \* the thread with the stream
    source,         \* WasapiLoopbackSource and, once it is dropped, the flag
    calling,        \* the callback under way: -1, or its chunk's length
    captured, queue,
    ratio, resampler, pending, absorbed, made,
    loop, pkt, silent, zeros,
    fudge, accum,
    step, drain, asked, applied,
    knobs, shuttingDown

vars == <<worker, source, calling, captured, queue, ratio, resampler, pending, absorbed, made, loop,
          pkt, silent, zeros, fudge, accum, step, drain, asked, applied, knobs, shuttingDown>>
device == <<worker, source, calling, captured, queue>>
capture == <<queue, ratio, resampler, pending, absorbed, made>>
sound == <<silent, zeros, fudge, accum>>
latency == <<step, drain, asked, applied>>
controls == <<knobs, shuttingDown>>

ConstantsOK ==
    /\ \A r \in Ratios : r[1] \in Nat \ {0} /\ r[2] \in Nat \ {0}
    /\ Chunks \subseteq Nat /\ QueueMax \in Nat \ {0}
    /\ Steps \subseteq 1 .. (PacketFrames - 1)

EmptyPacket == [frames |-> 0, loud |-> FALSE, noise |-> FALSE, by |-> 0]

Init ==
    /\ worker = "opening" /\ source = "opening" /\ calling = -1 /\ captured = 0 /\ queue = <<>>
    /\ ratio \in Ratios /\ resampler = 0 /\ pending = 0 /\ absorbed = 0 /\ made = 0
    /\ loop = "none" /\ pkt = EmptyPacket /\ silent = 0 /\ zeros = 0
    /\ fudge = 0 /\ accum = 0
    /\ step \in Steps /\ drain = 0 /\ asked = 0 /\ applied = 0
    /\ knobs \in {0, MaxKnobs} /\ shuttingDown = FALSE

------------------------------------------------------------------------------
(* The worker: it opens the device, says so, holds the stream until told to  *)
(* stop, and drops it, which waits for a callback that has begun.            *)
WorkerOpens ==
    /\ worker = "opening" /\ worker' \in {"holding", "failed"}
    /\ UNCHANGED <<source, calling, captured, queue, capture, loop, pkt, sound, latency, controls>>

SourceReady ==
    /\ source = "opening" /\ worker # "opening"
    /\ source' = IF worker = "failed" THEN "failed" ELSE "running"
    /\ loop' = IF worker = "failed" THEN "gone" ELSE "top"
    /\ UNCHANGED <<worker, calling, captured, capture, pkt, sound, latency, controls>>

WorkerDrops ==
    /\ worker = "holding" /\ source = "dropped" /\ worker' = "dropping"
    /\ UNCHANGED <<source, calling, captured, capture, loop, pkt, sound, latency, controls>>

WorkerEnds ==
    /\ worker = "dropping" /\ calling = -1 /\ worker' = "gone"
    /\ UNCHANGED <<source, calling, captured, capture, loop, pkt, sound, latency, controls>>

\* try_send never waits: a chunk that finds the queue full is dropped.
MayReturn(q) == TRUE
Sent(q, n) == IF Len(q) < QueueMax THEN Append(q, n) ELSE q

CallbackBegins ==
    /\ worker = "holding" /\ calling = -1
    /\ captured < MaxCaptured /\ captured' = captured + 1
    /\ \E n \in Chunks : calling' = n
    /\ UNCHANGED <<worker, source, capture, loop, pkt, sound, latency, controls>>

CallbackEnds ==
    /\ calling # -1 /\ MayReturn(queue)
    /\ calling' = -1 /\ queue' = Sent(queue, calling)
    /\ UNCHANGED <<worker, source, captured, ratio, resampler, pending, absorbed, made,
                   loop, pkt, sound, latency, controls>>

------------------------------------------------------------------------------
(* The resampler.  resampler is the next output's place, in den-ths of a     *)
(* frame, from the last frame of the chunk before; an output needs the frame *)
(* after its place as well.                                                  *)
Needs(place) == (place \div ratio[2]) + 1
Outputs(place, n) == Cardinality({k \in 0 .. n * ratio[2] : Needs(place + k * ratio[1]) <= n})
Carried(place, n) == place - n * ratio[2]

Absorb(n) ==
    IF n = 0 THEN UNCHANGED <<resampler, pending, absorbed, made>>
    ELSE LET k == Outputs(resampler, n)
         IN /\ resampler' = Carried(resampler + k * ratio[1], n)
            /\ pending' = pending + k /\ made' = made + k /\ absorbed' = absorbed + n

Loop(from, to) == loop = from /\ loop' = to

\* run: nothing is active here but the capture; the end drops the source.
LoopTop ==
    /\ Loop("top", IF shuttingDown THEN "joining" ELSE "recv")
    /\ source' = IF shuttingDown THEN "dropped" ELSE source
    /\ UNCHANGED <<worker, calling, captured, capture, pkt, sound, latency, controls>>

LoopEnds ==
    /\ Loop("joining", "gone") /\ worker = "gone"
    /\ UNCHANGED <<device, ratio, resampler, pending, absorbed, made, pkt, sound, latency, controls>>

\* refill: one chunk, waited for, and all that is queued behind it.
RefillFirst ==
    /\ Loop("recv", "rest") /\ pending < PacketFrames /\ queue # <<>>
    /\ Absorb(Head(queue)) /\ queue' = Tail(queue)
    /\ UNCHANGED <<worker, source, calling, captured, ratio, pkt, sound, latency, controls>>

RefillRest ==
    /\ loop = "rest"
    /\ IF queue = <<>> THEN loop' = "recv" /\ UNCHANGED <<queue, resampler, pending, absorbed, made>>
       ELSE Absorb(Head(queue)) /\ queue' = Tail(queue) /\ UNCHANGED loop
    /\ UNCHANGED <<worker, source, calling, captured, ratio, pkt, sound, latency, controls>>

RecvPacket ==
    /\ Loop("recv", "process") /\ pending >= PacketFrames
    /\ pending' = pending - PacketFrames
    /\ \E loud \in BOOLEAN : pkt' = [EmptyPacket EXCEPT !.frames = PacketFrames, !.loud = loud]
    /\ UNCHANGED <<device, ratio, resampler, absorbed, made, sound, latency, controls>>

------------------------------------------------------------------------------
(* SilenceDetector::process and the rate fudge, one frame a packet at most.  *)
Silent(count, loud) == IF loud THEN 0 ELSE IF count < Quiescent THEN count + 1 ELSE count

Fudged(sum) == IF sum >= FudgeOne THEN 1 ELSE IF sum <= -FudgeOne THEN -1 ELSE 0

Process ==
    /\ Loop("process", "adjust")
    /\ silent' = Silent(silent, pkt.loud)
    /\ LET sum == accum + pkt.frames * fudge
           by == Fudged(sum)
       IN /\ accum' = sum - by * FudgeOne
          /\ pkt' = [pkt EXCEPT !.frames = @ + by, !.noise = silent' = Quiescent]
    /\ UNCHANGED <<device, ratio, resampler, pending, absorbed, made, zeros, fudge, latency, controls>>

Sign(n) == IF n > 0 THEN 1 ELSE IF n < 0 THEN -1 ELSE 0
Abs(n) == n * Sign(n)
StepOf(left, most) == Sign(left) * (IF Abs(left) < most THEN Abs(left) ELSE most)

\* What is left of the adjustment is loaded, and taken down by the step once
\* the packet is cut or lengthened.
LoadDrain ==
    /\ Loop("adjust", "publish")
    /\ pkt' = [pkt EXCEPT !.by = StepOf(drain, step)]
    /\ UNCHANGED <<device, ratio, resampler, pending, absorbed, made, sound, latency, controls>>

Left(by) == drain - by

Publish ==
    /\ Loop("publish", "top") /\ pkt' = EmptyPacket
    /\ LET cut == IF pkt.by <= pkt.frames THEN pkt.by ELSE pkt.frames
       IN applied' = applied + cut
    /\ drain' = Left(pkt.by)
    /\ zeros' = IF pkt.loud \/ pkt.noise THEN 0 ELSE zeros + 1
    /\ UNCHANGED <<device, ratio, resampler, pending, absorbed, made, silent, fudge, accum, step,
                   asked, controls>>

------------------------------------------------------------------------------
(* The other threads: latency, the knobs, and the end.                       *)
Turn == knobs < MaxKnobs /\ knobs' = knobs + 1

AdjustLatency ==
    /\ Turn /\ \E by \in {-2, 3} : drain' = drain + by /\ asked' = asked + by
    /\ UNCHANGED <<device, ratio, resampler, pending, absorbed, made, loop, pkt, sound, step, applied,
                   shuttingDown>>

SetKnobs ==
    /\ Turn /\ fudge' \in {-1, 0, 1} /\ step' \in Steps
    /\ UNCHANGED <<device, ratio, resampler, pending, absorbed, made, loop, pkt, silent, zeros, accum,
                   drain, asked, applied, shuttingDown>>

RequestShutdown ==
    /\ ~shuttingDown /\ shuttingDown' = TRUE
    /\ UNCHANGED <<device, ratio, resampler, pending, absorbed, made, loop, pkt, sound, latency, knobs>>

LoopStep ==
    \/ LoopTop \/ LoopEnds \/ RefillFirst \/ RefillRest \/ RecvPacket \/ Process \/ LoadDrain \/ Publish

Next ==
    \/ WorkerOpens \/ SourceReady \/ WorkerDrops \/ WorkerEnds \/ CallbackBegins \/ CallbackEnds
    \/ LoopTop \/ LoopEnds \/ RefillFirst \/ RefillRest \/ RecvPacket \/ Process \/ LoadDrain \/ Publish
    \/ AdjustLatency \/ SetKnobs \/ RequestShutdown

WorkerStep == WorkerOpens \/ WorkerDrops \/ WorkerEnds

Spec ==
    /\ Init /\ [][Next]_vars
    /\ WF_vars(WorkerStep) /\ WF_vars(CallbackEnds) /\ WF_vars(SourceReady) /\ WF_vars(LoopStep)

------------------------------------------------------------------------------
\* However the stream is cut into chunks, output k is at k ratios of the input,
\* and every output its frames allow has been made.
ChunksSeamless ==
    /\ absorbed * ratio[2] + resampler = made * ratio[1]
    /\ resampler >= 0 /\ (absorbed > 0 => resampler < ratio[1] \/ made = 0)

\* The adjustment asked for is what was cut and added and what is still to do,
\* whichever threads ask while a packet is being cut.
AdjustmentExact == asked = applied + drain

\* Noise is put into silence only, and keeps the zeros in a row short.
ZerosEnd == (pkt.noise => ~pkt.loud) /\ zeros < Quiescent

CaptureTrue == ChunksSeamless /\ AdjustmentExact /\ ZerosEnd

\* Once the program ends, the audio loop and the thread with the stream do,
\* unless the loop waits for a chunk of a device that plays nothing.
CaptureEnds ==
    shuttingDown => loop = "gone" \/ (loop = "recv" /\ pending < PacketFrames /\ queue = <<>>)
==============================================================================
