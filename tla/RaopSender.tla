---------------------------- MODULE RaopSender ----------------------------
(* The audio of an AirPlay 1 session: one packet at each slot of the wall    *)
(* clock, real audio if there is a packet of it and silence if not, the      *)
(* anchors that map its timestamps to the time, and the answers to requests  *)
(* for lost packets.  Time is counted in packets, and audio in units of      *)
(* which a packet takes PacketUnits.                                         *)
EXTENDS Naturals, Sequences, FiniteSets

CONSTANTS
    PacketUnits, FrameUnits,    \* of a packet, and of a frame of the capture
    HighWater, DropTo,          \* units the ring may keep, and keeps after that
    MaxBehind,                  \* slots the sender may be late
    SeqMod, TsMod,              \* 2^16, and packets in 2^32 samples
    HistoryCap, Run,            \* packets kept, and sent for one request
    Burst, Rate,                \* of the token bucket
    MaxNow

\* A request asks for packets of less than one round of sequence numbers.
ConstantsOK ==
    /\ PacketUnits \in Nat \ {0} /\ HighWater \in Nat /\ DropTo \in 0..HighWater
    /\ MaxBehind \in Nat /\ SeqMod \in Nat \ {0} /\ TsMod \in Nat \ {0}
    /\ HistoryCap \in Nat \ {0} /\ Run \in Nat /\ HistoryCap + Run <= SeqMod
    /\ Burst \in Nat /\ Rate \in Nat /\ FrameUnits \in Nat

VARIABLES
    now,
    step,       \* of the sender: "top", "fill", "send" or "ended"
    slots,      \* packet_count
    first,      \* the timestamp of slot 0
    seq, rtptime,
    begun,      \* when the slot was taken up
    made,       \* units captured
    ring,       \* [from, to): the units staged; those up to `made` are queued
    audio,      \* the units of the packet built, or none for silence
    sent,       \* a packet sent now
    places,     \* packets sent
    history,    \* of packets sent
    sourceGone, stopFlag,
    tokens, refilled, resent, wrong,
    anchor      \* the timestamp of a sync packet sent now

vars == <<now, step, slots, first, seq, rtptime, begun, made, ring, audio, sent, places, history, sourceGone, stopFlag,
          tokens, refilled, resent, wrong, anchor>>
sending == <<step, slots, first, seq, rtptime, begun, ring, audio, sent, places, history>>
resending == <<tokens, refilled, resent, wrong>>

Lesser(a, b) == IF a < b THEN a ELSE b
Size == ring.to - ring.from
Emptied == [from |-> made, to |-> made]

\* The frames captured during the handshake are dropped.
Init ==
    /\ now = 0 /\ step = "top" /\ slots = 0
    /\ seq = SeqMod - 1 /\ rtptime \in {0, TsMod - 1}
    /\ first = rtptime /\ begun = 0
    /\ made = 0 /\ ring = Emptied /\ audio = {}
    /\ sent = {} /\ places = 0 /\ history = <<>>
    /\ sourceGone = FALSE /\ stopFlag = FALSE
    /\ tokens = Burst /\ refilled = 0 /\ resent = 0 /\ wrong = FALSE
    /\ anchor = {}

------------------------------------------------------------------------------
Tick ==
    /\ now < MaxNow /\ step # "ended"
    /\ now' = now + 1
    /\ sent' = {} /\ anchor' = {}
    /\ UNCHANGED <<step, slots, first, seq, rtptime, begun, ring, audio, places, history, made,
                   sourceGone, stopFlag, resending>>

\* The capture delivers no faster than it plays, and may pause.
Capture ==
    /\ ~sourceGone /\ step # "ended"
    /\ made + FrameUnits <= PacketUnits * (now + 1)
    /\ made' = made + FrameUnits
    /\ UNCHANGED <<now, sending, sourceGone, stopFlag, resending, anchor>>

SourceGoes ==
    /\ ~sourceGone /\ step # "ended"
    /\ sourceGone' = TRUE
    /\ UNCHANGED <<now, sending, made, stopFlag, resending, anchor>>

StopAsked ==
    /\ ~stopFlag /\ stopFlag' = TRUE
    /\ UNCHANGED <<now, sending, made, sourceGone, resending, anchor>>

------------------------------------------------------------------------------
(* run_sender.  A slot's deadline is its end; a sender that is late by more  *)
(* than MaxBehind skips the slots it missed, and the audio there is.         *)
Deadline == slots + 1
Behind == now > Deadline + MaxBehind

Ends ==
    /\ step \in {"top", "fill"} /\ stopFlag
    /\ step' = "ended"
    /\ UNCHANGED <<now, slots, first, seq, rtptime, begun, ring, audio, sent, places, history, made, sourceGone,
                   stopFlag, resending, anchor>>

Missed == (now - Deadline) + 1

Reglue ==
    /\ step = "top" /\ ~stopFlag /\ Behind
    /\ slots' = slots + Missed
    /\ rtptime' = (rtptime + Missed) % TsMod
    /\ ring' = Emptied
    /\ UNCHANGED <<now, step, first, seq, begun, audio, sent, places, history, made, sourceGone, stopFlag, resending,
                   anchor>>

Begin ==
    /\ step = "top" /\ ~stopFlag /\ ~Behind
    /\ step' = "fill" /\ begun' = now
    /\ UNCHANGED <<now, slots, first, seq, rtptime, ring, audio, sent, places, history, made, sourceGone,
                   stopFlag, resending, anchor>>

(* All that is queued is staged, until a packet is there, or the deadline,   *)
(* or the end of the source; the oldest is dropped when that is too much.    *)
Kept(to) ==
    IF to - ring.from > HighWater THEN to - DropTo ELSE ring.from

Fill ==
    LET from == Kept(made)
        whole == made - ring.from >= PacketUnits
    IN  /\ step = "fill" /\ ~stopFlag
        /\ whole \/ now >= Deadline \/ sourceGone
        /\ IF sourceGone /\ ~whole
           THEN step' = "ended" /\ UNCHANGED <<ring, audio>>
           ELSE /\ step' = "send"
                /\ audio' = IF whole THEN from..(from + PacketUnits - 1) ELSE {}
                /\ ring' = [from |-> IF whole THEN from + PacketUnits ELSE from, to |-> made]
        /\ UNCHANGED <<now, slots, first, seq, rtptime, begun, sent, places, history, made, sourceGone, stopFlag,
                       resending, anchor>>

Packet == [seq |-> seq, stamp |-> rtptime, place |-> places]
Recorded(q, p) == Append(IF Len(q) >= HistoryCap THEN Tail(q) ELSE q, p)

SendPacket ==
    /\ step = "send" /\ now >= Deadline
    /\ sent' = {[slot |-> slots, stamp |-> rtptime, begun |-> begun]}
    /\ history' = Recorded(history, Packet)
    /\ places' = places + 1
    /\ seq' = (seq + 1) % SeqMod
    /\ rtptime' = (rtptime + 1) % TsMod
    /\ slots' = slots + 1
    /\ audio' = {} /\ step' = "top"
    /\ UNCHANGED <<now, first, begun, ring, made, sourceGone, stopFlag, resending, anchor>>

\* spawn_sync_sender: with the timestamp of the next packet.
SyncSends ==
    /\ ~stopFlag
    /\ anchor' = {rtptime}
    /\ UNCHANGED <<now, sending, made, sourceGone, stopFlag, resending>>

------------------------------------------------------------------------------
(* answer_resend_request: the receiver asks for packets it missed, of the    *)
(* last it can play, and for some that are yet to come.                      *)
Newest(s) ==
    LET same == {i \in 1..Len(history) : history[i].seq = s % SeqMod}
    IN  IF same = {} THEN {} ELSE {history[CHOOSE i \in same : \A j \in same : j <= i]}

Refilled == Lesser(Burst, tokens + Rate * (now - refilled))

Resend ==
    /\ ~stopFlag /\ places > 0
    /\ \E missed \in 0..places, count \in 1..Run :
          LET seqOf(p) == (seq + SeqMod * places + p) - places
              found == {p \in missed..(missed + count - 1) : Newest(seqOf(p)) # {}}
              out == Lesser(Cardinality(found), Refilled)
          IN  /\ missed + SeqMod > places + count
              /\ found # {}
              /\ tokens' = Refilled - out /\ refilled' = now
              /\ resent' = resent + out
              /\ wrong' = (wrong \/ \E p \in found : \E q \in Newest(seqOf(p)) : q.place # p)
    /\ UNCHANGED <<now, sending, made, sourceGone, stopFlag, anchor>>

Next ==
    \/ Tick \/ Capture \/ SourceGoes \/ StopAsked
    \/ Ends \/ Reglue \/ Begin \/ Fill \/ SendPacket
    \/ SyncSends \/ Resend

Spec == Init /\ [][Next]_vars
------------------------------------------------------------------------------
(* Hazard: a stall, or hours of short ones, leave the stream ahead of its    *)
(* time or behind it.  Timestamps follow the slots and slots the clock: none *)
(* is sent before its time, nor later than MaxBehind when it was taken up,   *)
(* no anchor is ahead, and what waits to be sent stays short.                *)
Glued ==
    /\ rtptime = (first + slots) % TsMod
    /\ slots <= now
    /\ \A p \in sent :
          /\ p.stamp = (first + p.slot) % TsMod
          /\ now > p.slot
          /\ p.begun <= p.slot + 1 + MaxBehind
    /\ \A stamp \in anchor : \E slot \in 0..now : stamp = (first + slot) % TsMod
    /\ step = "send" => Size <= HighWater

(* Hazard: a request is answered from a history whose sequence numbers have  *)
(* come round; or a flood of requests has us flood the receiver.             *)
ResendIsOriginal == ~wrong /\ resent <= Burst + Rate * now
==============================================================================
