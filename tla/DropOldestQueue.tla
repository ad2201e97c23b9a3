-------------------------- MODULE DropOldestQueue --------------------------
(***************************************************************************)
(* What ringbuffer.h promises of the PCM ring between the WaveRT DPC and   *)
(* the IRPs: a first-in first-out queue of at most Capacity frames whose   *)
(* writer never waits, the oldest frames making room for the newest.       *)
(* A frame is the number it has in the order frames were handed over.      *)
(***************************************************************************)
EXTENDS Integers, Sequences

CONSTANTS
    Capacity,   \* frames the ring holds
    MaxWrite,   \* most frames handed over in one call
    MaxRead,    \* most frames asked for in one call
    MaxFrames   \* bound on the frames ever handed over

VARIABLES
    queue,      \* frames buffered, oldest first
    written,    \* frames handed over so far
    out         \* what the last read returned

vars == <<queue, written, out>>

Least(m, n) == IF m < n THEN m ELSE n
LastOf(s, n) == IF Len(s) <= n THEN s ELSE SubSeq(s, Len(s) - n + 1, Len(s))

Init == queue = <<>> /\ written = 0 /\ out = <<>>

Write(n) ==
    /\ written + n <= MaxFrames
    /\ written' = written + n
    /\ queue' = LastOf(queue \o [k \in 1..n |-> written + k], Capacity)
    /\ UNCHANGED out

Read(n) ==
    LET taken == Least(n, Len(queue)) IN
    /\ out' = SubSeq(queue, 1, taken)
    /\ queue' = SubSeq(queue, taken + 1, Len(queue))
    /\ UNCHANGED written

Reset == queue' = <<>> /\ UNCHANGED <<written, out>>

Next ==
    \/ \E n \in 1..MaxWrite : Write(n)
    \/ \E n \in 1..MaxRead : Read(n)
    \/ Reset

Spec == Init /\ [][Next]_vars
=============================================================================
