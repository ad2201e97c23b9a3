----------------------------- MODULE Ap2Control -----------------------------
(***************************************************************************)
(* The control connection of a running AirPlay 2 session (ap2_rtsp.rs),    *)
(* which three threads share under one lock: the volume setter waits for   *)
(* its reply, the feedback keepalive and the volume reader send, release   *)
(* the lock and come back for the reply.  Each reads whatever has arrived, *)
(* replies to the others included.  The keepalive decides when the         *)
(* receiver is gone (ap2_health.rs).                                       *)
(*                                                                         *)
(* A request is its CSeq.  A receiver either names the request it answers  *)
(* or answers every request in order.  Time is not counted: a wait may end *)
(* whenever what it waits for has not arrived.  HomePods are strict; with  *)
(* other receivers the keepalive waits like the setter, and no volume is   *)
(* read.                                                                   *)
(***************************************************************************)
EXTENDS Integers, Sequences, FiniteSets

CONSTANTS
    MaxWrites, MaxReads,    \* bounds: volume changes, volume reads
    MaxAnswers,             \* bound: answers before the receiver falls silent
    PendingCap, LateCap     \* PENDING_CAP, LATE_STATUS_CAP

ConstantsOK == PendingCap \in Nat \ {0} /\ LateCap \in Nat \ {0} /\ MaxWrites \in Nat /\ MaxReads \in Nat

MaxFailures == 3            \* FEEDBACK_MAX_FAILURES
Unsent == 999               \* a CSeq nobody sent

VARIABLES
    strict,         \* Ap2Rtsp::strict: a HomePod
    named,          \* the receiver names the request in its replies
    cseq, pending, late, poisoned,      \* of Ap2Rtsp; CSeqs only grow, so pending is a set
    wire,           \* requests on their way to the receiver
    rx,             \* replies that have arrived and are not read
    closed,         \* the receiver has closed the connection
    silent,         \* it answers no more
    answers,        \* answers it has left
    holder,         \* who holds the lock of the connection
    mine,           \* per thread: the request it wants the reply of, or 0
    mixed,          \* a thread has taken the reply to another request
    failures,       \* FeedbackMonitor::consecutive
    fault,          \* FaultSlot: the first fault, and the request it was about
    arrived,        \* requests whose reply has arrived
    stopFlag,
    writes, reads   \* requests the setter and the reader have left

Threads == {"setter", "feedback", "reader"}
connection == <<cseq, pending, late, poisoned, rx>>
receiver == <<wire, closed, silent, answers, arrived>>
vars == <<strict, named, connection, receiver, holder, mine, mixed, failures, fault, stopFlag,
          writes, reads>>

NoFault == [code |-> "none", about |-> 0]

Init ==
    /\ strict \in BOOLEAN /\ named \in BOOLEAN
    /\ cseq = 0 /\ pending = {} /\ late = <<>> /\ poisoned = FALSE
    /\ wire = <<>> /\ rx = <<>> /\ closed = FALSE /\ silent = FALSE
    /\ answers = MaxAnswers /\ arrived = {}
    /\ holder = "nobody" /\ mine = [t \in Threads |-> 0]
    /\ mixed = FALSE
    /\ failures = 0 /\ fault = NoFault /\ stopFlag = FALSE
    /\ writes \in 0..MaxWrites /\ reads \in 0..MaxReads

(***************************************************************************)
(* Reading replies.  A scan goes through what has arrived until it meets   *)
(* the reply to n; earlier replies are remembered by their status.         *)
(***************************************************************************)
\* Mutant: a reply read past is dropped.
RememberNothing(l, n, reply) == l
RememberLate(l, n, reply) ==
    Append(IF Len(l) >= LateCap THEN Tail(l) ELSE l, [of |-> n, reply |-> reply])
\* The places of what is remembered of n, of which take_late takes the first.
LateOf(l, n) == {i \in DOMAIN l : l[i].of = n}
Oldest(S) == CHOOSE i \in S : \A j \in S : i <= j
Forget(l, n) ==
    IF LateOf(l, n) = {} THEN l
    ELSE [k \in 1..(Len(l) - 1) |-> IF k < Oldest(LateOf(l, n)) THEN l[k] ELSE l[k + 1]]

\* Mutant: it is taken to answer the request that waits.
NewestPending(p, n) == n
\* The request a reply without a CSeq is taken to answer.
OldestPending(p, n) == IF p = {} THEN n ELSE Oldest(p)

\* The request a reply is taken to answer, while the reply to n is awaited.
\* Outside strict mode a CSeq is believed only when it names one that waits.
Attributed(p, n, m) ==
    IF m.name = 0 THEN OldestPending(p, n)
    ELSE IF strict \/ m.name \in p THEN m.name
    ELSE n

\* One reply read by await_response, until one is the reply to n, or answers what
\* was asked after n.
Read(n, s, m) ==
    LET c == Attributed(s.pending, n, m)
    IN  IF s.end # "more" THEN [s EXCEPT !.rest = Append(@, m)]
        ELSE IF c < n
        THEN [s EXCEPT !.pending = @ \ {c}, !.late = RememberLate(@, c, m)]
        ELSE [s EXCEPT !.end = IF c = n THEN "reply" ELSE "broken",
                       !.reply = m, !.pending = @ \ {c}]
Unread == [end |-> "more", reply |-> <<>>, pending |-> pending, late |-> late, rest |-> <<>>]
\* await_response over what has arrived.
ScanFrom(n) ==
    LET after[k \in 0..Len(rx)] == IF k = 0 THEN Unread ELSE Read(n, after[k - 1], rx[k])
    IN  after[Len(rx)]
\* Nothing more comes on a connection that is closed.
Await(n) ==
    LET scan == ScanFrom(n)
    IN  IF scan.end = "more" /\ closed THEN [scan EXCEPT !.end = "broken"] ELSE scan

\* What a scan leaves in the connection, with l as its late replies.
Scanned(scan, l) ==
    /\ pending' = scan.pending /\ late' = l /\ rx' = scan.rest
    /\ poisoned' = (poisoned \/ (scan.end = "broken" /\ strict))

Deliver(n, answered) == mixed' = (mixed \/ n # answered)

\* send_request: it fails on a connection that can no longer be trusted.
Send(t) ==
    /\ cseq' = cseq + 1
    /\ pending' = (IF Cardinality(pending) >= PendingCap THEN pending \ {Oldest(pending)} ELSE pending)
                    \cup {cseq + 1}
    /\ wire' = Append(wire, cseq + 1)
    /\ mine' = [mine EXCEPT ![t] = cseq + 1]

(***************************************************************************)
(* The setter, and outside strict mode the keepalive: the lock is held     *)
(* until the reply or the timeout.                                         *)
(***************************************************************************)
SetterSends ==
    /\ holder = "nobody" /\ writes > 0 /\ ~stopFlag
    /\ writes' = writes - 1
    /\ IF poisoned
         THEN UNCHANGED <<cseq, pending, wire, mine, holder>>
         ELSE Send("setter") /\ holder' = "setter"
    /\ UNCHANGED <<strict, named, late, poisoned, rx, closed, silent, answers, arrived, mixed,
                   failures, fault, stopFlag, reads>>

Failing == failures + 1
Raise(code, about) == fault' = IF fault = NoFault THEN [code |-> code, about |-> about] ELSE fault
Dead == fault # NoFault

\* fail: the third failure in a row ends the session.
FailRound(n) ==
    /\ failures' = Failing
    /\ IF Failing >= MaxFailures THEN Raise("rejected", n) ELSE UNCHANGED fault

\* on_status.
StatusRound(n, ok) ==
    IF ok THEN failures' = 0 /\ UNCHANGED fault
    ELSE IF strict
      THEN FailRound(n) \/ (Raise("refused", n) /\ UNCHANGED failures)   \* 401, 403, 454
      ELSE FailRound(n)

SyncReads(t) ==
    /\ holder = t /\ (rx # <<>> \/ closed)
    /\ \E scan \in {Await(mine[t])} :
       /\ Scanned(scan, scan.late)
       /\ IF scan.end = "more"
            THEN UNCHANGED <<holder, mine, mixed, failures, fault>>
            ELSE /\ holder' = "nobody" /\ mine' = [mine EXCEPT ![t] = 0]
                 /\ IF scan.end = "reply" THEN Deliver(mine[t], scan.reply.to) ELSE UNCHANGED mixed
                 /\ IF t = "setter" THEN UNCHANGED <<failures, fault>>
                    ELSE IF scan.end = "reply" THEN StatusRound(mine[t], scan.reply.ok)
                    ELSE FailRound(mine[t])
    /\ UNCHANGED <<strict, named, cseq, receiver, stopFlag, writes, reads>>

SyncTimesOut(t) ==
    /\ holder = t /\ rx = <<>>
    /\ holder' = "nobody" /\ mine' = [mine EXCEPT ![t] = 0]
    /\ IF t = "setter" THEN UNCHANGED <<failures, fault>> ELSE FailRound(mine[t])
    /\ UNCHANGED <<strict, named, connection, receiver, mixed, stopFlag, writes, reads>>

PlainFeedbackSends ==
    /\ ~strict /\ holder = "nobody" /\ ~Dead /\ ~stopFlag
    /\ Send("feedback") /\ holder' = "feedback"
    /\ UNCHANGED <<strict, named, late, poisoned, rx, closed, silent, answers, arrived, mixed,
                   failures, fault, stopFlag, writes, reads>>

(***************************************************************************)
(* The keepalive of a HomePod: a request is sent when none is outstanding, *)
(* and polled for with the lock held for a moment at a time.               *)
(***************************************************************************)
FeedbackSends ==
    /\ strict /\ holder = "nobody" /\ mine["feedback"] = 0 /\ ~Dead /\ ~stopFlag
    /\ IF poisoned
         THEN FailRound(0) /\ UNCHANGED <<cseq, pending, wire, mine>>
         ELSE Send("feedback") /\ UNCHANGED <<failures, fault>>
    /\ UNCHANGED <<strict, named, late, poisoned, rx, closed, silent, answers, arrived, holder,
                   mixed, stopFlag, writes, reads>>

\* poll_status: the newest request is awaited, which reads past n.
Polled(n) ==
    LET Taken(l) == l[Oldest(LateOf(l, n))].reply
        known == LateOf(late, n)
        scan == Await(cseq)
        all == IF n # cseq /\ scan.end = "reply" THEN RememberLate(scan.late, cseq, scan.reply)
                                                ELSE scan.late
        found == LateOf(all, n)
        Result(end, reply, l) == [end |-> end, reply |-> reply,
                                  scan |-> IF known = {} THEN scan ELSE <<>>, late |-> l]
    IN  IF known # {} THEN Result("reply", Taken(late), Forget(late, n))
        ELSE IF scan.end = "broken" \/ (n = cseq /\ scan.end = "reply")
        THEN Result(scan.end, scan.reply, scan.late)
        ELSE IF found # {} THEN Result("reply", Taken(all), Forget(all, n))
        ELSE Result("more", <<>>, all)

AfterPoll(p) ==
    IF p.scan = <<>> THEN late' = p.late /\ UNCHANGED <<pending, rx, poisoned>>
                     ELSE Scanned(p.scan, p.late)

FeedbackPolls ==
    /\ strict /\ holder = "nobody" /\ mine["feedback"] # 0 /\ ~Dead /\ ~stopFlag
    /\ LET n == mine["feedback"]
       IN  \E p \in {Polled(n)} :
           /\ AfterPoll(p)
           /\ \/ p.end = "reply" /\ mine' = [mine EXCEPT !["feedback"] = 0]
                 /\ Deliver(n, p.reply.to) /\ StatusRound(n, p.reply.ok)
              \/ p.end = "broken" /\ mine' = [mine EXCEPT !["feedback"] = 0]
                 /\ FailRound(n) /\ UNCHANGED mixed
              \/ p.end = "more" /\ UNCHANGED <<mine, mixed, failures, fault>>
    /\ UNCHANGED <<strict, named, cseq, receiver, holder, stopFlag, writes, reads>>

FeedbackTimesOut ==
    /\ strict /\ holder = "nobody" /\ mine["feedback"] # 0 /\ ~Dead /\ ~stopFlag
    /\ \E p \in {Polled(mine["feedback"])} :
       /\ p.end = "more" /\ AfterPoll(p)
       /\ Raise("timeout", mine["feedback"])
    /\ mine' = [mine EXCEPT !["feedback"] = 0]
    /\ UNCHANGED <<strict, named, cseq, receiver, holder, mixed, failures, stopFlag, writes, reads>>

(***************************************************************************)
(* The volume reader: a request another one overtook is given up.          *)
(***************************************************************************)
ReaderSends ==
    /\ strict /\ holder = "nobody" /\ mine["reader"] = 0 /\ reads > 0 /\ ~stopFlag
    /\ reads' = reads - 1
    /\ IF poisoned THEN UNCHANGED <<cseq, pending, wire, mine>> ELSE Send("reader")
    /\ UNCHANGED <<strict, named, late, poisoned, rx, closed, silent, answers, arrived, holder,
                   mixed, failures, fault, stopFlag, writes>>

ReaderPolls ==
    /\ strict /\ holder = "nobody" /\ mine["reader"] # 0 /\ ~stopFlag
    /\ LET n == mine["reader"]
       IN  IF LateOf(late, n) # {} \/ n # cseq
             THEN /\ late' = Forget(late, n) /\ mine' = [mine EXCEPT !["reader"] = 0]
                  /\ UNCHANGED <<pending, rx, poisoned, mixed>>
             ELSE \E scan \in {Await(n)} :
                  /\ Scanned(scan, scan.late)
                  /\ IF scan.end = "reply" THEN Deliver(n, scan.reply.to)
                                            ELSE UNCHANGED mixed
                  /\ mine' = [mine EXCEPT !["reader"] = IF scan.end = "more" THEN n ELSE 0]
    /\ UNCHANGED <<strict, named, cseq, receiver, holder, failures, fault, stopFlag, writes, reads>>

ReaderGivesUp ==
    /\ mine["reader"] # 0 /\ mine' = [mine EXCEPT !["reader"] = 0]
    /\ UNCHANGED <<strict, named, connection, receiver, holder, mixed, failures, fault, stopFlag,
                   writes, reads>>

(***************************************************************************)
(* The receiver, and the stop of the session.                              *)
(***************************************************************************)
Answer ==
    /\ wire # <<>> /\ ~silent /\ ~closed /\ answers > 0
    /\ \E ok \in BOOLEAN :
          rx' = Append(rx, [to |-> Head(wire), name |-> IF named THEN Head(wire) ELSE 0, ok |-> ok])
    /\ arrived' = arrived \cup {Head(wire)}
    /\ wire' = Tail(wire) /\ answers' = answers - 1 /\ silent' = (answers = 1)
    /\ UNCHANGED <<strict, named, cseq, pending, late, poisoned, closed, holder, mine, mixed,
                   failures, fault, stopFlag, writes, reads>>

\* A request it does not answer: only one that names those it does.
Skip ==
    /\ named /\ wire # <<>> /\ ~silent /\ ~closed
    /\ wire' = Tail(wire)
    /\ UNCHANGED <<strict, named, connection, closed, silent, answers, arrived, holder, mine, mixed,
                   failures, fault, stopFlag, writes, reads>>

\* It hangs, closes the connection, or answers what nobody asked.
GoWrong ==
    /\ ~silent /\ ~closed
    /\ \/ silent' = TRUE /\ UNCHANGED <<closed, rx>>
       \/ closed' = TRUE /\ UNCHANGED <<silent, rx>>
       \/ /\ strict /\ silent' = TRUE /\ UNCHANGED closed
          /\ rx' = Append(rx, [to |-> Unsent, name |-> Unsent, ok |-> TRUE])
    /\ UNCHANGED <<strict, named, cseq, pending, late, poisoned, wire, answers, arrived, holder,
                   mine, mixed, failures, fault, stopFlag, writes, reads>>

Stop ==
    /\ ~stopFlag /\ stopFlag' = TRUE
    /\ UNCHANGED <<strict, named, connection, receiver, holder, mine, mixed, failures, fault,
                   writes, reads>>

Next ==
    \/ SetterSends \/ PlainFeedbackSends \/ FeedbackSends \/ FeedbackPolls \/ FeedbackTimesOut
    \/ \E t \in {"setter", "feedback"} : SyncReads(t) \/ SyncTimesOut(t)
    \/ ReaderSends \/ ReaderPolls \/ ReaderGivesUp
    \/ Answer \/ Skip \/ GoWrong \/ Stop

\* A wait ends with what it waits for or with its timeout; the keepalive
\* comes round again and again, and finds the lock free.
Fairness ==
    /\ WF_vars(\E t \in {"setter", "feedback"} : SyncReads(t) \/ SyncTimesOut(t))
    /\ SF_vars(PlainFeedbackSends \/ FeedbackSends)
    /\ SF_vars(FeedbackPolls \/ FeedbackTimesOut)

-----------------------------------------------------------------------------
\* Property.  A thread never takes another request's reply for its own, after
\* timeouts, replies read by other threads, and replies without a CSeq.
OwnReply == ~mixed

\* Property.  The session is not ended for a feedback that went unanswered
\* when its reply has arrived, whoever has read it (take_late).
AnsweredIsNotTimedOut ==
    [][fault.code # "timeout" /\ fault'.code = "timeout" => fault'.about \notin arrived]_vars

\* Property.  A receiver that hangs, closes the connection or loses its place
\* ends the session, while nobody stops it.
BrokenEnds == []<>(silent \/ closed => Dead \/ stopFlag)
=============================================================================
