---------------------------- MODULE EventChannel ----------------------------
(***************************************************************************)
(* The control-event channel from the driver to the service: the topology  *)
(* setters and the stream's start and stop post events (IoctlPostEvent),   *)
(* the service's single reader thread fetches them one at a time with      *)
(* GET_CONTROL_EVENT (Ioctl_HandleGetEvent) and applies them in the order  *)
(* it gets them.  Whether an event reaches the reader depends on two locks *)
(* that are taken one after the other: EventQueueLock for the circular     *)
(* array, EventIrpLock for the list of waiting requests.                   *)
(*                                                                         *)
(* An event is the poster and the poster's running number; what it says    *)
(* (a level, a mute flag, start or stop) is a function of those, so the    *)
(* reader's picture is right when it holds the newest number of a poster.  *)
(* Ownership, cancellation races and removal are IoctlIrps.                *)
(***************************************************************************)
EXTENDS Integers, Sequences

CONSTANTS
    Posters,    \* threads that post: the mixer (one at a time, m_ControlLock), the stream
    Depth,      \* STREAM_TO_SPEAKER_EVENT_QUEUE_DEPTH; one slot stays empty
    MaxPosts,   \* bound on the events a poster posts
    NoEvent

Event == [from : Posters, n : 1..MaxPosts]

\* What is assumed of the constants.
ConstantsOK == Depth \in Nat /\ Depth > 1 /\ MaxPosts \in Nat \ {0} /\ NoEvent \notin Event

VARIABLES
    slot, head, tail,   \* EventQueue, EventHead, EventTail
    reader,             \* "ready", "empty" (saw no event), "waiting", "claimed"
    poster,             \* per poster: "idle", "offer", "deliver", "enqueue"
    posted,             \* per poster: number of its newest event
    got,                \* events the reader has been given, in order
    lost                \* events overwritten by a full queue

vars == <<slot, head, tail, reader, poster, posted, got, lost>>

Next1(k) == (k + 1) % Depth
Length == (tail - head) % Depth
\* The queued events, oldest first.
Queued == [k \in 1..Length |-> slot[(head + k - 1) % Depth]]
Current(p) == [from |-> p, n |-> posted[p]]

Init ==
    /\ slot = [k \in 0..Depth-1 |-> NoEvent] /\ head = 0 /\ tail = 0
    /\ reader = "ready"
    /\ poster = [p \in Posters |-> "idle"]
    /\ posted = [p \in Posters |-> 0]
    /\ got = <<>> /\ lost = {}

\* Ioctl_HandleGetEvent under EventQueueLock: take the oldest event, or go
\* on to queue the request.
FetchQueued ==
    /\ reader = "ready" /\ head # tail
    /\ got' = Append(got, slot[head])
    /\ head' = Next1(head)
    /\ UNCHANGED <<slot, tail, reader, poster, posted, lost>>

FindEmpty ==
    /\ reader = "ready" /\ head = tail
    /\ reader' = "empty"
    /\ UNCHANGED <<slot, head, tail, poster, posted, got, lost>>

\* Under EventIrpLock: the request is on EventIrpList.
InsertIrp ==
    /\ reader = "empty" /\ reader' = "waiting"
    /\ UNCHANGED <<slot, head, tail, poster, posted, got, lost>>

\* A setter or a stream transition calls IoctlPostEvent.
Post(p) ==
    /\ poster[p] = "idle" /\ posted[p] < MaxPosts
    /\ posted' = [posted EXCEPT ![p] = @ + 1]
    /\ poster' = [poster EXCEPT ![p] = "offer"]
    /\ UNCHANGED <<slot, head, tail, reader, got, lost>>

\* A mutant of Offer: an event does not go past those that are queued.
OfferBehindQueued(p) ==
    /\ poster[p] = "offer"
    /\ \/ /\ reader = "waiting" /\ head = tail /\ reader' = "claimed"
          /\ poster' = [poster EXCEPT ![p] = "deliver"]
       \/ /\ (reader # "waiting" \/ head # tail) /\ UNCHANGED reader
          /\ poster' = [poster EXCEPT ![p] = "enqueue"]
    /\ UNCHANGED <<slot, head, tail, posted, got, lost>>

\* Under EventIrpLock: claim the waiting request, if there is one.
Offer(p) ==
    /\ poster[p] = "offer"
    /\ \/ /\ reader = "waiting" /\ reader' = "claimed"
          /\ poster' = [poster EXCEPT ![p] = "deliver"]
       \/ /\ reader # "waiting" /\ UNCHANGED reader
          /\ poster' = [poster EXCEPT ![p] = "enqueue"]
    /\ UNCHANGED <<slot, head, tail, posted, got, lost>>

Deliver(p) ==
    /\ poster[p] = "deliver"
    /\ got' = Append(got, Current(p))
    /\ reader' = "ready"
    /\ poster' = [poster EXCEPT ![p] = "idle"]
    /\ UNCHANGED <<slot, head, tail, posted, lost>>

\* Under EventQueueLock: store the event, dropping the oldest if full.
Enqueue(p) ==
    /\ poster[p] = "enqueue"
    /\ \/ /\ Next1(tail) = head
          /\ head' = Next1(head) /\ lost' = lost \cup {slot[head]}
       \/ /\ Next1(tail) # head
          /\ UNCHANGED <<head, lost>>
    /\ slot' = [slot EXCEPT ![tail] = Current(p)]
    /\ tail' = Next1(tail)
    /\ poster' = [poster EXCEPT ![p] = "idle"]
    /\ UNCHANGED <<reader, posted, got>>

PostStep(p) == Offer(p) \/ Deliver(p) \/ Enqueue(p)
ReadStep == FetchQueued \/ FindEmpty \/ InsertIrp

Next == ReadStep \/ \E p \in Posters : Post(p) \/ PostStep(p)

Spec == Init /\ [][Next]_vars

\* The reader calls GET_CONTROL_EVENT again as soon as it has handled an
\* event, and a poster inside IoctlPostEvent gets through it.
Fairness == WF_vars(ReadStep) /\ \A p \in Posters : WF_vars(PostStep(p))
FairSpec == Spec /\ Fairness

-----------------------------------------------------------------------------
TypeOK ==
    /\ slot \in [0..Depth-1 -> Event \cup {NoEvent}]
    /\ head \in 0..Depth-1 /\ tail \in 0..Depth-1
    /\ reader \in {"ready", "empty", "waiting", "claimed"}
    /\ poster \in [Posters -> {"idle", "offer", "deliver", "enqueue"}]
    /\ posted \in [Posters -> 0..MaxPosts]
    /\ got \in Seq(Event) /\ lost \subseteq Event

Delivered == {got[k] : k \in DOMAIN got}
Waiting == {Queued[k] : k \in 1..Length}
InHand == {Current(p) : p \in {q \in Posters : poster[q] # "idle"}}

\* Every event that was posted is in exactly one place: still with its poster,
\* in the queue, with the reader, or lost to a full queue; and the reader gets
\* none twice.
Accounted ==
    /\ InHand \cup Waiting \cup Delivered \cup lost
           = {e \in Event : e.n <= posted[e.from]}
    /\ InHand \cap (Waiting \cup Delivered \cup lost) = {}
    /\ Waiting \cap (Delivered \cup lost) = {} /\ Delivered \cap lost = {}
    /\ \A j, k \in DOMAIN got : got[j] = got[k] => j = k

\* An event leaves the queue only to the reader or by overflow of a full queue.
OnlyOverflowLoses ==
    [][lost' # lost => Length = Depth - 1 /\ lost' = lost \cup {Queued[1]}]_vars

\* The reader looks into the queue again: it is about to, it is being given an
\* event, after which it will, or it waits and somebody is posting.
WillLook ==
    \/ reader \in {"ready", "claimed"}
    \/ reader = "waiting" /\ \E p \in Posters : poster[p] = "offer"

\* An event that was queued between the reader's look at the queue and its
\* request stays there beside the waiting request (NoneLeftWaiting), for no
\* longer than until somebody posts: the reader, handed the new event, then
\* empties the queue.  Every other event that is queued it gets of itself.  (Events
\* come to an end, see MaxPosts; with more to come the queue need not be empty.)
NextPostDrains == head # tail /\ WillLook ~> head = tail

\* Such an event is overtaken by the event then posted (DeliveredInOrder), and by
\* no other of its poster: until the queue is empty nothing passes it again.
OvertakenOnce ==
    \A k \in DOMAIN got : \A i, j \in 1..k-1 :
        /\ got[i].from = got[k].from /\ got[i].n > got[k].n
        /\ got[j].from = got[k].from /\ got[j].n > got[k].n
        => i = j

\* ioctl_source.rs, open_audio_only: it is extra consumers that cause
\* "out-of-order StreamStart/StreamStop delivery", so the one reader is given a
\* poster's events in the order they were posted.
DeliveredInOrder ==
    \A j, k \in DOMAIN got :
        j < k /\ got[j].from = got[k].from => got[j].n < got[k].n

\* ioctl.h: "when an IRP is waiting we deliver the next event immediately,
\* otherwise we queue": no event sits in the queue beside a waiting request
\* when no poster is at work.
NoneLeftWaiting ==
    ~(/\ reader = "waiting" /\ head # tail
      /\ \A p \in Posters : poster[p] = "idle")
=============================================================================
