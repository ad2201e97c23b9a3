------------------------------ MODULE Ap2Media ------------------------------
(***************************************************************************)
(* The audio of an AirPlay 2 session: the realtime scheduler that drives   *)
(* all members of a HomePod session on one timeline (ap2_realtime.rs), the *)
(* single realtime sender and the buffered sender (ap2_session.rs), the    *)
(* packets kept for retransmission (ap2_resend.rs), the nonces they are    *)
(* sealed with (ap2_crypto.rs), and the receiver's clock, which a buffered *)
(* stream is anchored on (ap2_ptp.rs).                                     *)
(*                                                                         *)
(* Time is counted in packets.  What is in them, and the silence that      *)
(* stands in for missing audio, is left out: a packet is its counters.     *)
(* A stall of the sender falls between two of its packets.                 *)
(***************************************************************************)
EXTENDS Integers, Sequences, FiniteSets

CONSTANTS
    Members,        \* receivers of the session
    SeqMod, TsMod,  \* 2^16 and 2^32
    MaxNow,         \* bound: packets' time the session lasts
    SkipAfter,      \* packets the sender may be late before it skips
    Latency,        \* packets a receiver plays behind
    HistoryCap,     \* HISTORY_PACKETS
    PendingCap,     \* ResendBudget::pending_cap
    Budget,         \* ResendBudget::packets
    MaxRequests     \* bound: resend requests

ConstantsOK ==
    /\ Members # {} /\ SeqMod \in Nat \ {0, 1} /\ TsMod \in Nat \ {0}
    /\ SkipAfter \in Nat /\ Latency \in Nat /\ HistoryCap \in Nat \ {0}

Profiles == {"group", "single", "buffered"}
Lead == 1           \* ANCHOR_LEAD_NS: an anchor lies in the future

VARIABLES
    profile,
    now,
    slot,           \* the slot of the next packet
    rtptime,        \* its timestamp
    seq,            \* per member: its sequence number
    counter,        \* per member: AudioSealer::counter
    history,        \* per member: History::entries
    pending,        \* per member: sequence numbers asked for again
    sent,           \* per member: every packet sent
    resent,         \* the resends of the last slot
    asked,          \* requests so far
    anchor          \* buffered: the timestamp anchored and when it plays, or none
VARIABLES
    sync,           \* pending_peer_sync: the sequence number kept, or 0
    syncs,          \* Syncs the receiver has sent
    inFlight,       \* Follow_Ups on their way
    peerId,         \* its grandmaster has been announced
    offset          \* the Sync and Follow_Up the offset was taken from

audio == <<slot, rtptime, seq, counter, history, pending, sent, resent>>
clock == <<sync, syncs, inFlight, peerId, offset>>
vars == <<profile, now, audio, asked, anchor, clock>>

NoAnchor == [rtp |-> 0, at |-> 0, set |-> FALSE]
First == 0          \* of the random first timestamp and sequence numbers
FirstSeq(m) == SeqMod - 2

Init ==
    /\ profile \in Profiles /\ now = 0 /\ slot = 0 /\ rtptime = First
    /\ seq = [m \in Members |-> FirstSeq(m)]
    /\ counter = [m \in Members |-> FirstSeq(m)]
    /\ history = [m \in Members |-> <<>>] /\ pending = [m \in Members |-> <<>>]
    /\ sent = [m \in Members |-> {}] /\ resent = {} /\ asked = 0
    /\ anchor = NoAnchor
    /\ sync = 0 /\ syncs = 0 /\ inFlight = {} /\ peerId = FALSE /\ offset = <<0, 0>>

Driven == IF profile = "group" THEN Members ELSE {CHOOSE m \in Members : TRUE}

NextCounter(c) == c + 1     \* seal

Pass ==
    /\ now < MaxNow /\ now' = now + 1
    /\ UNCHANGED <<profile, audio, asked, anchor, clock>>

(***************************************************************************)
(* Resends.                                                                *)
(***************************************************************************)
\* The newest entry with sequence number s, and whether it can still be played.
Lookup(h, s) == {k \in DOMAIN h : h[k].seq = s /\ \A l \in k+1..Len(h) : h[l].seq # s}
\* Mutant: a packet is sent again however late.
AlwaysPlayable(e) == TRUE
Playable(e) == now < e.expires

Keep(h, e) == Append(IF Len(h) >= HistoryCap THEN Tail(h) ELSE h, e)

\* drain: the first entries of pending, until the budget of resends is spent,
\* or the budget of time, which is spent after the first at the earliest.
Hits(h, p) == {k \in DOMAIN p : \E j \in Lookup(h, p[k]) : Playable(h[j])}
Drained(h, p) ==
    IF Cardinality(Hits(h, p)) <= Budget THEN Len(p)
    ELSE CHOOSE n \in DOMAIN p : n \in Hits(h, p) /\ Cardinality(Hits(h, p) \cap 1..n) = Budget

\* intake: a request names a first packet and a count.
Request(m, first, count) ==
    /\ profile # "buffered" /\ m \in Driven /\ asked < MaxRequests /\ asked' = asked + 1
    /\ LET room == PendingCap - Len(pending[m])
           n == IF count <= room THEN count ELSE room
       IN  pending' = [pending EXCEPT ![m] =
                          @ \o [k \in 1..n |-> (first + k - 1) % SeqMod]]
    /\ UNCHANGED <<profile, now, slot, rtptime, seq, counter, history, sent, resent, anchor, clock>>

(***************************************************************************)
(* The realtime senders.                                                   *)
(***************************************************************************)
Behind == now - slot

\* Mutant: one slot more, as in the single sender.
MissedOneMore == Behind + 1
\* The slots to skip (slots_to_skip).
Missed == Behind

\* skip: the sealer moves with the sequence number.
SkipGroup ==
    /\ profile = "group" /\ Behind >= SkipAfter
    /\ slot' = slot + Behind
    /\ rtptime' = (rtptime + Missed) % TsMod
    /\ seq' = [m \in Members |-> (seq[m] + Missed) % SeqMod]
    /\ counter' = [m \in Members |-> counter[m] + Missed]
    /\ resent' = {}
    /\ UNCHANGED <<profile, now, history, pending, sent, asked, anchor, clock>>

\* The single sender skips timestamps only.
SkipSingle ==
    /\ profile = "single" /\ Behind > SkipAfter
    /\ slot' = slot + Behind + 1
    /\ rtptime' = (rtptime + Behind + 1) % TsMod
    /\ resent' = {}
    /\ UNCHANGED <<profile, now, seq, counter, history, pending, sent, asked, anchor, clock>>

Packet(m) == [slot |-> slot, rtp |-> rtptime, seq |-> seq[m], nonce |-> counter[m]]
Entry(m) == [seq |-> seq[m], nonce |-> counter[m], expires |-> slot + Latency]

\* One slot: a packet to every member, then the resends of each.
Slot(early) ==
    /\ LET kept == [m \in Members |-> IF m \in Driven THEN Keep(history[m], Entry(m)) ELSE <<>>]
           count == [m \in Members |-> IF early /\ pending[m] # <<>> THEN 1
                                      ELSE Drained(kept[m], pending[m])]
       IN  /\ history' = kept
           /\ pending' = [m \in Members |-> SubSeq(pending[m], count[m] + 1, Len(pending[m]))]
           /\ resent' = UNION {UNION {
                            {[to |-> m, seq |-> pending[m][k], nonce |-> kept[m][j].nonce] :
                                j \in {i \in Lookup(kept[m], pending[m][k]) : Playable(kept[m][i])}} :
                            k \in 1..count[m]} : m \in Driven}
    /\ sent' = [m \in Members |-> IF m \in Driven THEN sent[m] \cup {Packet(m)} ELSE {}]
    /\ seq' = [m \in Members |-> IF m \in Driven THEN (seq[m] + 1) % SeqMod ELSE seq[m]]
    /\ counter' = [m \in Members |-> IF m \in Driven THEN NextCounter(counter[m]) ELSE counter[m]]
    /\ rtptime' = (rtptime + 1) % TsMod /\ slot' = slot + 1
    /\ UNCHANGED <<profile, now, asked, anchor, clock>>

SendGroup(early) == profile = "group" /\ 0 <= Behind /\ Behind < SkipAfter /\ Slot(early)
SendSingle(early) == profile = "single" /\ 0 <= Behind /\ Behind <= SkipAfter /\ Slot(early)

(***************************************************************************)
(* The buffered sender.  Nothing is sent before the anchor, and from then  *)
(* on a packet a slot: late packets follow in a burst.                     *)
(***************************************************************************)
\* Whose clock the anchor is on: the receiver's, once it is known.
ReceiverNow == peerId /\ offset # <<0, 0>>

TryAnchor ==
    /\ profile = "buffered" /\ ~anchor.set
    /\ anchor' = [rtp |-> rtptime, at |-> now + Lead, set |-> TRUE]
    /\ slot' = now
    /\ UNCHANGED <<profile, now, rtptime, seq, counter, history, pending, sent, resent, asked, clock>>

SendBuffered ==
    /\ profile = "buffered" /\ anchor.set /\ slot < now
    /\ \E m \in Driven :
        /\ sent' = [sent EXCEPT ![m] = @ \cup {Packet(m)}]
        /\ seq' = [seq EXCEPT ![m] = (@ + 1) % SeqMod]
        /\ counter' = [counter EXCEPT ![m] = NextCounter(@)]
    /\ rtptime' = (rtptime + 1) % TsMod /\ slot' = slot + 1
    /\ UNCHANGED <<profile, now, history, pending, resent, asked, anchor, clock>>

(***************************************************************************)
(* The receiver's clock: a Sync on one port, its Follow_Up on the other.   *)
(* Either may be lost or overtaken.                                        *)
(***************************************************************************)
PeerSync(got) ==
    /\ profile = "buffered" /\ syncs < 3 /\ syncs' = syncs + 1
    /\ sync' = IF got THEN syncs + 1 ELSE sync
    /\ inFlight' = inFlight \cup {syncs + 1}
    /\ UNCHANGED <<profile, now, audio, asked, anchor, peerId, offset>>

Matches(f) == sync # 0 /\ sync = f

PeerFollowUp(f) ==
    /\ f \in inFlight /\ inFlight' = inFlight \ {f}
    /\ IF Matches(f) THEN offset' = <<sync, f>> /\ sync' = 0 ELSE UNCHANGED <<offset, sync>>
    /\ UNCHANGED <<profile, now, audio, asked, anchor, syncs, peerId>>

PeerAnnounce ==
    /\ profile = "buffered" /\ ~peerId /\ peerId' = TRUE
    /\ UNCHANGED <<profile, now, audio, asked, anchor, sync, syncs, inFlight, offset>>

Next ==
    \/ Pass \/ SkipGroup \/ SkipSingle \/ TryAnchor \/ SendBuffered \/ PeerAnnounce
    \/ \E m \in Members, first \in 0..SeqMod-1, count \in 1..2 : Request(m, first, count)
    \/ \E early \in BOOLEAN : SendGroup(early) \/ SendSingle(early)
    \/ \E got \in BOOLEAN : PeerSync(got)
    \/ \E f \in inFlight : PeerFollowUp(f)

-----------------------------------------------------------------------------
\* Property.  No two packets of a receiver are sealed with the same nonce,
\* though sequence numbers come round and slots are skipped (AudioSealer).
NonceOnce == \A m \in Members : \A p, q \in sent[m] : p.nonce = q.nonce => p = q

\* Property.  Timestamps keep to the wall clock through stalls, and all
\* members get the same one for the same slot: the packet of a slot carries
\* the first timestamp plus the slots since, and in a group a sequence number
\* that counts the skipped slots too.
Glued ==
    \A m \in Members : \A p \in sent[m] :
        /\ profile # "buffered" => p.rtp = (First + p.slot) % TsMod
        /\ profile = "group" => p.seq = (FirstSeq(m) + p.slot) % SeqMod
        /\ profile = "buffered" =>
              p.rtp = (anchor.rtp + p.slot - (anchor.at - Lead)) % TsMod

\* Property.  What is sent again under a sequence number is the last packet
\* sent under it, before its turn to be played.
ResendIsOriginal ==
    \A e \in resent :
        \E p \in sent[e.to] :
            /\ p.seq = e.seq /\ p.nonce = e.nonce /\ slot - 1 < p.slot + Latency
            /\ \A q \in sent[e.to] : q.seq = e.seq => q.slot <= p.slot

\* Property.  The offset to the receiver's clock is taken from a Sync and the
\* Follow_Up of that same Sync.
TrueOffset == offset[1] = offset[2]
=============================================================================
