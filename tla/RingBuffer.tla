----------------------------- MODULE RingBuffer -----------------------------
(***************************************************************************)
(* ringbuffer.cpp: the PCM ring as it is built, a circular buffer under    *)
(* two counters that never wrap and are reduced at indexing time.  Write,  *)
(* Read and Reset hold the ring's spin lock throughout and are one step    *)
(* each; RingBufferAvailable takes no lock and is two steps, a read of     *)
(* Head and a later read of Tail.                                          *)
(***************************************************************************)
EXTENDS Integers, Sequences

CONSTANTS
    Capacity,   \* frames the buffer holds (a power of two in the code)
    MaxWrite, MaxRead,
    MaxFrames,  \* bound on the frames ever handed over
    Lookers,    \* threads that call RingBufferAvailable
    Nobody      \* a looker that has not read Head

ASSUME CapacityPositive == Capacity \in Nat \ {0}
ASSUME BoundsNatural == MaxWrite \in Nat /\ MaxRead \in Nat /\ MaxFrames \in Nat
ASSUME NobodyNotNumber == Nobody \notin Int

VARIABLES
    buffer, head, tail,
    written,    \* frames handed over so far
    out,        \* what the last read returned
    seen,       \* per looker: the Head it read, while it is in between
    avail       \* per looker: the answer it got last

ringVars == <<buffer, head, tail, written, out>>
vars == <<ringVars, seen, avail>>

Least(m, n) == IF m < n THEN m ELSE n

Init ==
    /\ buffer = [i \in 0..Capacity-1 |-> 0] /\ head = 0 /\ tail = 0
    /\ written = 0 /\ out = <<>>
    /\ seen = [l \in Lookers |-> Nobody]
    /\ avail = [l \in Lookers |-> 0]

\* Mutant: the second copy starts one frame into the source.
CopiedSkewed(n, skip) ==
    LET idx == tail % Capacity
        first == Least(Capacity - idx, n) IN
    [i \in 0..Capacity-1 |->
        IF i >= idx /\ i < idx + first THEN skip + (i - idx) + 1
        ELSE IF i < n - first THEN skip + first + i + 2
        ELSE buffer[i]]

\* Copy the n frames that follow number skip into the buffer at tail: up to
\* the end of the buffer, the rest at its start.
Copied(n, skip) ==
    LET idx == tail % Capacity
        first == Least(Capacity - idx, n) IN
    [i \in 0..Capacity-1 |->
        IF i >= idx /\ i < idx + first THEN skip + (i - idx) + 1
        ELSE IF i < n - first THEN skip + first + i + 1
        ELSE buffer[i]]

\* RingBufferWrite: more than the capacity keeps only the newest; what does
\* not fit pushes Head forward.
Write(n) ==
    LET effective == Least(n, Capacity)
        free == Capacity - (tail - head) IN
    /\ written + n <= MaxFrames
    /\ written' = written + n
    /\ head' = IF effective > free THEN head + (effective - free) ELSE head
    /\ buffer' = Copied(effective, written + (n - effective))
    /\ tail' = tail + effective
    /\ UNCHANGED <<out, seen, avail>>

\* RingBufferRead, with its two copies.
Read(n) ==
    LET have == Least(tail - head, Capacity)
        start == tail - have
        count == Least(have, n)
        idx == start % Capacity
        first == Least(Capacity - idx, count) IN
    /\ out' = [k \in 1..count |-> IF k <= first THEN buffer[idx + k - 1]
                                                ELSE buffer[k - first - 1]]
    /\ head' = IF tail - head <= 0 THEN head ELSE start + count
    /\ UNCHANGED <<buffer, tail, written, seen, avail>>

Reset == head' = tail /\ UNCHANGED <<buffer, tail, written, out, seen, avail>>

\* RingBufferAvailable.
LookHead(l) ==
    /\ seen[l] = Nobody
    /\ seen' = [seen EXCEPT ![l] = head]
    /\ UNCHANGED <<ringVars, avail>>

LookReduced(l) ==
    /\ seen[l] # Nobody
    /\ seen' = [seen EXCEPT ![l] = Nobody]
    /\ avail' = [avail EXCEPT ![l] = (tail - seen[l]) % Capacity]
    /\ UNCHANGED ringVars

LookTail(l) ==
    /\ seen[l] # Nobody
    /\ seen' = [seen EXCEPT ![l] = Nobody]
    /\ avail' = [avail EXCEPT ![l] = IF tail - seen[l] < 0 THEN 0
                                     ELSE Least(tail - seen[l], Capacity)]
    /\ UNCHANGED ringVars

Next ==
    \/ \E n \in 1..MaxWrite : Write(n)
    \/ \E n \in 1..MaxRead : Read(n)
    \/ Reset
    \/ \E l \in Lookers : LookHead(l) \/ LookTail(l)

Spec == Init /\ [][Next]_vars

-----------------------------------------------------------------------------
TypeOK ==
    /\ buffer \in [0..Capacity-1 -> Nat]
    /\ head \in Nat /\ tail \in Nat /\ written \in Nat
    /\ seen \in [Lookers -> Nat \cup {Nobody}]
    /\ avail \in [Lookers -> 0..Capacity]

\* The counters stay a buffer apart at most, and a looker's Head is never
\* ahead of the real one, whatever the overruns and resets.
Within ==
    /\ head <= tail /\ tail - head <= Capacity
    /\ \A l \in Lookers : seen[l] # Nobody => seen[l] <= head

\* The buffered frames, oldest first.
Contents == [k \in 1..(tail - head) |-> buffer[(head + k - 1) % Capacity]]

\* The ring is the drop-oldest queue ringbuffer.h describes.
Abstract == INSTANCE DropOldestQueue WITH queue <- Contents
Implements == Abstract!Spec

\* IoctlTryCompleteAudio gives up when the unlocked look says "empty"
\* (ioctl.cpp): it never says so of a ring that holds audio when it answers.
EmptyMeansEmpty ==
    [][\A l \in Lookers : LookTail(l) /\ avail'[l] = 0 => head = tail]_vars
=============================================================================
