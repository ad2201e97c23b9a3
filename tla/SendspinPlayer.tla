---------------------------- MODULE SendspinPlayer ----------------------------
(* A session that streams to a Sendspin speaker: the thread that sends one   *)
(* chunk of audio after the other, each stamped with the time it plays at,   *)
(* the thread that reads the speaker's messages, the one that sends what is  *)
(* playing, and the end of the session.  Time is counted in chunks (20 ms),  *)
(* captured audio in half chunks; the speaker and its clock are external.    *)
EXTENDS Integers, FiniteSets

CONSTANTS
    MinBuffers,      \* the buffering the speaker may ask for, with its output delay
    Capacity,        \* the chunks its buffer holds
    STALL,           \* 500 ms, in chunks
    MaxTime, MaxSaid, MaxInput

Cushion == 4
ChunkInput == 2

ConstantsOK ==
    /\ MinBuffers \subseteq Nat \ {0} /\ MinBuffers # {}
    /\ Capacity \in Nat /\ STALL \in Nat \ {0} /\ MaxTime \in Nat /\ MaxSaid \in Nat
    /\ MaxInput \in Nat /\ MaxInput >= Cushion + ChunkInput

VARIABLES
    now,
    wanted,          \* lead_us, as the last state of the speaker makes it
    lead, anchor, frames,   \* the audio thread's timeline
    backlog, filling,       \* captured audio it holds, and whether it plays silence meanwhile
    buffered,        \* the speaker's buffer: when each chunk starts
    sentUpTo,        \* the end of the latest chunk sent
    audio, control, meta,   \* the threads: "runs", "ends" or "ended"
    said,            \* messages other than audio
    wire,            \* "open", "streaming", "ended" (stream/end sent) or "closed"
    stop, dead, ended, joins

vars == <<now, wanted, lead, anchor, frames, backlog, filling, buffered, sentUpTo, audio, control,
          meta, said, wire, stop, dead, ended, joins>>
timeline == <<lead, anchor, frames, backlog, filling, buffered, sentUpTo>>
threads == <<audio, control, meta>>
flags == <<stop, dead, ended, joins>>

\* What is sent ahead: what the speaker asks for, as far as its buffer holds that.
Limit == (9 * Capacity) \div 10 - 1
ComputeLead(asked) == IF Limit > 2 /\ asked > Limit THEN Limit ELSE asked

Init ==
    /\ now = 0
    /\ \E m \in MinBuffers : wanted = ComputeLead(m)
    /\ lead = 0 /\ anchor = 0 /\ frames = 0 /\ backlog = 0 /\ filling = TRUE
    /\ buffered = {} /\ sentUpTo = 0
    /\ audio = "starts" /\ control = "runs" /\ meta \in {"runs", "ended"}
    /\ said = 0 /\ wire = "open" /\ stop = FALSE /\ dead = FALSE /\ ended = FALSE /\ joins = FALSE

-----------------------------------------------------------------------------
(* The audio thread. *)

\* stream/start, or the end of the thread when it cannot be sent.
Starts ==
    /\ audio = "starts"
    /\ lead' = wanted /\ anchor' = now + wanted
    /\ IF wire = "open" THEN wire' = "streaming" /\ audio' = "runs" /\ UNCHANGED dead
       ELSE audio' = "ended" /\ dead' = (dead \/ ~stop) /\ UNCHANGED wire
    /\ UNCHANGED <<now, wanted, frames, backlog, filling, buffered, sentUpTo, control, meta, said,
                   stop, ended, joins>>

\* A larger lead puts the rest of the timeline later.
LaterOrEarlier(anchored) == anchored + wanted - lead
Later(anchored) == IF wanted > lead + 1 THEN anchored + wanted - lead ELSE anchored
Grown == IF wanted > lead + 1 THEN wanted ELSE lead

\* Cushion rebuilt: play; less than a chunk left: silence until it is.
Fills == IF filling THEN backlog < Cushion + ChunkInput ELSE backlog < ChunkInput

\* A pass of the loop whose time has come: after a stall the timeline starts anew,
\* otherwise the next chunk, of audio or of silence, goes out.
Chunk ==
    /\ audio = "runs" /\ ~stop
    /\ lead' = Grown
    /\ LET sendAt == Later(anchor) + frames - lead'
       IN /\ now >= sendAt
          /\ \/ /\ now - sendAt > STALL
                /\ anchor' = now + lead' /\ frames' = 0 /\ backlog' = 0 /\ filling' = TRUE
                /\ UNCHANGED <<buffered, sentUpTo, audio, dead>>
             \/ /\ now - sendAt <= STALL /\ wire = "streaming"
                /\ anchor' = Later(anchor) /\ frames' = frames + 1
                /\ filling' = Fills
                /\ IF Fills THEN backlog' \in {0, backlog} ELSE backlog' = backlog - ChunkInput
                /\ buffered' = buffered \cup {anchor' + frames}
                /\ sentUpTo' = anchor' + frames + 1
                /\ UNCHANGED <<audio, dead>>
             \/ /\ now - sendAt <= STALL /\ wire = "closed"
                /\ audio' = "ended" /\ dead' = TRUE
                /\ anchor' = Later(anchor) /\ UNCHANGED <<frames, backlog, filling, buffered, sentUpTo>>
    /\ UNCHANGED <<now, wanted, control, meta, said, wire, stop, ended, joins>>

Captured ==
    /\ audio = "runs" /\ backlog < MaxInput
    /\ backlog' = backlog + 1
    /\ UNCHANGED <<now, wanted, lead, anchor, frames, filling, buffered, sentUpTo, threads, said, wire, flags>>

\* A thread past its look at the stop flag still finishes what it is doing.
AudioStops ==
    /\ audio = "runs" /\ stop
    /\ audio' = "ended"
    /\ \/ UNCHANGED <<frames, anchor, lead, buffered, sentUpTo>>
       \/ /\ wire \in {"streaming", "ended"} /\ now >= anchor + frames - lead /\ now - (anchor + frames - lead) <= STALL
          /\ frames' = frames + 1 /\ buffered' = buffered \cup {anchor + frames} /\ sentUpTo' = anchor + frames + 1
          /\ UNCHANGED <<anchor, lead>>
    /\ UNCHANGED <<now, wanted, backlog, filling, control, meta, said, wire, flags>>

-----------------------------------------------------------------------------
(* The control and metadata threads. *)

\* A new state of the speaker makes a new lead.
ClientState ==
    /\ control = "runs" /\ wire # "closed"
    /\ \E m \in MinBuffers : wanted' = ComputeLead(m)
    /\ UNCHANGED <<now, timeline, threads, said, wire, flags>>

AnswersTime ==
    /\ control = "runs" /\ said < MaxSaid /\ wire # "closed"
    /\ said' = said + 1
    /\ UNCHANGED <<now, wanted, timeline, threads, wire, flags>>

\* A goodbye closes the connection; but for a restart, it is also the session's end.
Goodbye ==
    /\ control = "runs" /\ wire # "closed"
    /\ ended' \in BOOLEAN
    /\ dead' = TRUE /\ wire' = "closed" /\ control' = "ended"
    /\ UNCHANGED <<now, wanted, timeline, audio, meta, said, stop, joins>>

\* The connection is lost.
Lost ==
    /\ control = "runs" /\ wire # "closed"
    /\ wire' = "closed" /\ control' = "ended" /\ dead' = (dead \/ ~stop)
    /\ UNCHANGED <<now, wanted, timeline, audio, meta, said, stop, ended, joins>>

ControlStops ==
    /\ control = "runs" /\ stop
    /\ control' = "ended"
    /\ UNCHANGED <<now, wanted, timeline, audio, meta, said, wire, flags>>

Metadata ==
    /\ meta = "runs"
    /\ \/ said < MaxSaid /\ wire # "closed" /\ said' = said + 1 /\ meta' = IF stop THEN "ended" ELSE meta
       \/ (stop \/ wire = "closed") /\ meta' = "ended" /\ UNCHANGED said
    /\ UNCHANGED <<now, wanted, timeline, audio, control, wire, flags>>

-----------------------------------------------------------------------------
(* The session's end. *)

StopBegins ==
    /\ ~stop
    /\ stop' = TRUE /\ joins' = TRUE
    /\ UNCHANGED <<now, wanted, timeline, threads, said, wire, dead, ended>>

AllJoined == audio = "ended" /\ control = "ended" /\ meta = "ended"

StreamEnds ==
    /\ joins /\ wire # "closed"
    /\ AllJoined
    /\ wire' = "ended" /\ joins' = FALSE
    /\ UNCHANGED <<now, wanted, timeline, threads, said, stop, dead, ended>>

Closes ==
    /\ stop
    /\ wire = "ended" \/ (joins /\ wire = "closed" /\ AllJoined)
    /\ wire' = "closed" /\ joins' = FALSE
    /\ UNCHANGED <<now, wanted, timeline, threads, said, stop, dead, ended>>

Tick ==
    /\ now < MaxTime
    /\ now' = now + 1
    /\ buffered' = {b \in buffered : b + 1 > now'}
    /\ UNCHANGED <<wanted, lead, anchor, frames, backlog, filling, sentUpTo, threads, said, wire, flags>>

Next ==
    \/ Starts \/ Chunk \/ Captured \/ AudioStops
    \/ ClientState \/ AnswersTime \/ Goodbye \/ Lost \/ ControlStops \/ Metadata
    \/ StopBegins \/ StreamEnds \/ Closes \/ Tick

Spec == Init /\ [][Next]_vars

-----------------------------------------------------------------------------
\* However the lead and the clock move, no chunk plays before the one sent before it has ended.
NeverOverlaps == [][sentUpTo' # sentUpTo => sentUpTo' - 1 >= sentUpTo]_vars

\* Nothing follows stream/end, of whichever thread.
NothingAfterEnd == [][wire = "ended" => sentUpTo' = sentUpTo /\ said' = said]_vars
=============================================================================
