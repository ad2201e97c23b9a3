----------------------------- MODULE Ap2BringUp -----------------------------
(***************************************************************************)
(* AirPlay 2 sessions from the first connection to the last TEARDOWN       *)
(* (ap2_session.rs, ap2_ptp.rs, ap2_events.rs): the phases of a bring-up,  *)
(* what each leaves behind when a later one fails, the threads of a        *)
(* session, its stop, and how the app replaces one session by another.     *)
(*                                                                         *)
(* A target is the set of receivers one session drives: one, or the        *)
(* members of a stereo pair.  HomePods take the realtime profile, every    *)
(* other receiver the general path.  An attempt is one call of start and   *)
(* the session it becomes.  The order of the members is left out.          *)
(***************************************************************************)
EXTENDS Naturals, FiniteSets

CONSTANTS
    Targets,    \* sets of receivers
    HomePods,   \* receivers that take the realtime profile
    Ptp,        \* other receivers that take their time from PTP
    MaxStarts   \* bound: attempts

\* A receiver is listed once, alone or folded into its pair (fold_pairs).
ASSUME TargetsAssumption == MaxStarts \in Nat /\ \A s, t \in Targets : s = t \/ s \cap t = {}

Receivers == UNION Targets
Starts == 1..MaxStarts

VARIABLES
    who,        \* per attempt: its target
    pc,         \* per attempt: the phase it is in
    left,       \* per attempt: members the phase has still to see to
    open,       \* per attempt: members whose connection is paired, not torn down
    holds,      \* per receiver: the attempts it holds a session for
    threads,    \* per attempt: its threads, besides those of members
    events,     \* per attempt: members whose event channel is served
    feedback,   \* per attempt: members kept alive
    stopFlag,   \* per attempt: AirPlay2Session::stop_flag
    clockStop,  \* per attempt: PtpMaster::stop
    port,       \* per attempt: it holds the PTP ports ("well"), "other"s, "none"
    stuck,      \* per attempt: the buffered sender waits in a full write
    session,    \* App::session: an attempt, or 0
    ended       \* sessions ended by another thread than the select's

attempt == <<who, pc, left, open, threads, events, feedback, stopFlag, clockStop, port, stuck>>
vars == <<attempt, holds, session, ended>>

HomePodPath(i) == who[i] \subseteq HomePods
UsesPtp(i) == who[i] \subseteq HomePods \cup Ptp
Busy == {"wait", "pair", "clock", "setup", "stream", "record", "media", "bind", "unwind", "released"}

Init ==
    /\ who = [i \in Starts |-> {}] /\ pc = [i \in Starts |-> "none"]
    /\ left = [i \in Starts |-> {}] /\ open = [i \in Starts |-> {}]
    /\ holds = [r \in Receivers |-> {}]
    /\ threads = [i \in Starts |-> {}] /\ events = [i \in Starts |-> {}]
    /\ feedback = [i \in Starts |-> {}]
    /\ stopFlag = [i \in Starts |-> FALSE] /\ clockStop = [i \in Starts |-> FALSE]
    /\ port = [i \in Starts |-> "none"] /\ stuck = [i \in Starts |-> FALSE]
    /\ session = 0 /\ ended = {}

(***************************************************************************)
(* The app: one select at a time.  The session of the same target is       *)
(* stopped before the new one connects, another's once the new one is up.  *)
(***************************************************************************)
\* Mutant: the old session is kept when it is the same receiver's.
ReplacesOther(t) == session # 0 /\ who[session] # t
ReplacesSame(t) == session # 0 /\ who[session] = t

Select(i, t) ==
    /\ pc[i] = "none" /\ \A j \in Starts : pc[j] \notin Busy /\ (j < i => pc[j] # "none")
    /\ who' = [who EXCEPT ![i] = t] /\ left' = [left EXCEPT ![i] = t]
    /\ IF ReplacesSame(t)
         THEN /\ pc' = [pc EXCEPT ![i] = "wait", ![session] = "stop"]
              /\ session' = 0
         ELSE pc' = [pc EXCEPT ![i] = "pair"] /\ UNCHANGED session
    /\ UNCHANGED <<open, holds, threads, events, feedback, stopFlag, clockStop, port, stuck, ended>>

Stopping == \E j \in Starts : pc[j] \in {"stop", "join", "clockJoin"}

\* start is called once the stop of the old session has returned.
Proceed(i) ==
    /\ pc[i] = "wait" /\ ~Stopping
    /\ pc' = [pc EXCEPT ![i] = "pair"]
    /\ UNCHANGED <<who, left, open, holds, threads, events, feedback, stopFlag, clockStop,
                   port, stuck, session, ended>>

Bind(i) ==
    /\ pc[i] = "bind" /\ ~Stopping
    /\ IF session # 0
         THEN pc' = [pc EXCEPT ![session] = "stop"] /\ session' = 0
         ELSE pc' = [pc EXCEPT ![i] = "up"] /\ session' = i
    /\ UNCHANGED <<who, left, open, holds, threads, events, feedback, stopFlag, clockStop,
                   port, stuck, ended>>

\* Disable, Forget, or the end of the app.
EndSession ==
    /\ session # 0
    /\ pc' = [pc EXCEPT ![session] = "stop"] /\ session' = 0 /\ ended' = ended \cup {session}
    /\ UNCHANGED <<who, left, open, holds, threads, events, feedback, stopFlag, clockStop,
                   port, stuck>>

(***************************************************************************)
(* The bring-up.  Any request of a phase may fail, and start returns       *)
(* through the destructors of what it has built.                           *)
(***************************************************************************)
Fail(i) ==
    /\ pc' = [pc EXCEPT ![i] = "unwind"]
    /\ UNCHANGED <<who, left, open, holds, threads, events, feedback, stopFlag, clockStop,
                   port, stuck, session, ended>>

\* The phase has seen to r, and ends with the last member.
Seen(i, r, next) ==
    IF left[i] = {r}
      THEN /\ left' = [left EXCEPT ![i] = who[i]]
           /\ pc' = [pc EXCEPT ![i] = next]
      ELSE left' = [left EXCEPT ![i] = @ \ {r}] /\ UNCHANGED pc

ConnectAndPair(i, r) ==
    /\ pc[i] = "pair" /\ r \in left[i]
    /\ \/ /\ Seen(i, r, "clock")
          /\ open' = [open EXCEPT ![i] = @ \cup {r}]
          /\ holds' = [holds EXCEPT ![r] = @ \cup {i}]
          /\ UNCHANGED <<who, threads, events, feedback, stopFlag, clockStop, port, stuck, session, ended>>
       \/ Fail(i)

BindPtp(i) == IF \E j \in Starts : port[j] = "well" THEN "other" ELSE "well"

StartClock(i) ==
    /\ pc[i] = "clock"
    /\ \/ /\ pc' = [pc EXCEPT ![i] = "setup"]
          /\ IF UsesPtp(i)
               THEN /\ port' = [port EXCEPT ![i] = BindPtp(i)]
                    /\ threads' = [threads EXCEPT ![i] = @ \cup {"clock"}]
               ELSE UNCHANGED <<port, threads>>
          /\ UNCHANGED <<who, left, open, holds, events, feedback, stopFlag, clockStop, stuck, session, ended>>
       \/ Fail(i)

\* The event channel is best effort: its thread starts or does not.
SetupSession(i, r) ==
    /\ pc[i] = "setup" /\ r \in left[i]
    /\ \/ /\ Seen(i, r, "stream")
          /\ \E on \in BOOLEAN :
                events' = [events EXCEPT ![i] = IF on THEN @ \cup {r} ELSE @]
          /\ UNCHANGED <<who, open, holds, threads, feedback, stopFlag, clockStop, port, stuck, session, ended>>
       \/ Fail(i)

\* SETPEERS may fail; buffered falls back to realtime, realtime may fail.
SetupStream(i, r) ==
    /\ pc[i] = "stream" /\ r \in left[i]
    /\ \/ /\ Seen(i, r, "record")
          /\ UNCHANGED <<who, open, holds, threads, events, feedback, stopFlag, clockStop, port,
                         stuck, session, ended>>
       \/ Fail(i)

Record(i, r) ==
    /\ pc[i] = "record" /\ r \in left[i]
    /\ \/ /\ Seen(i, r, "media")
          /\ UNCHANGED <<who, open, holds, threads, events, feedback, stopFlag, clockStop, port,
                         stuck, session, ended>>
       \/ Fail(i)

\* The general path starts the sync, timing and resend threads before its
\* sender, and the start of any of them may fail.
SpawnGeneral(i) ==
    /\ pc[i] = "media" /\ ~HomePodPath(i)
    /\ \E aux \in {{}, {"aux"}} :
          \/ /\ pc' = [pc EXCEPT ![i] = "bind"]
             /\ threads' = [threads EXCEPT ![i] = @ \cup aux \cup {"sender"}]
             /\ feedback' = [feedback EXCEPT ![i] = who[i]]
          \/ /\ pc' = [pc EXCEPT ![i] = "unwind"]
             /\ threads' = [threads EXCEPT ![i] = @ \cup aux]
             /\ UNCHANGED feedback
    /\ UNCHANGED <<who, left, open, holds, events, stopFlag, clockStop, port, stuck, session, ended>>

SpawnHomePod(i) ==
    /\ pc[i] = "media" /\ HomePodPath(i)
    /\ \/ /\ pc' = [pc EXCEPT ![i] = "bind"]
          /\ threads' = [threads EXCEPT ![i] = @ \cup {"sender", "volume"}]
          /\ feedback' = [feedback EXCEPT ![i] = who[i]]
          /\ UNCHANGED <<who, left, open, holds, events, stopFlag, clockStop, port, stuck, session, ended>>
       \/ Fail(i)

Teardown(i) ==
    /\ open' = [open EXCEPT ![i] = {}]
    /\ holds' = [r \in Receivers |-> IF r \in open[i] THEN holds[r] \ {i} ELSE holds[r]]

(***************************************************************************)
(* A failed start.  The general path's clock is told to stop and not       *)
(* waited for, and nobody sets its stop flag.  The HomePod path joins the  *)
(* clock, then drops its connections, then sets the flag.                  *)
(***************************************************************************)
UnwindGeneral(i) ==
    /\ pc[i] = "unwind" /\ ~HomePodPath(i)
    /\ pc' = [pc EXCEPT ![i] = "gone"]
    /\ clockStop' = [clockStop EXCEPT ![i] = TRUE]
    /\ Teardown(i)
    /\ UNCHANGED <<who, left, threads, events, feedback, stopFlag, port, stuck, session, ended>>

\* Mutant: the clock is only told to stop.
ClockTold(i) == clockStop[i]
\* PtpGuard: whether the clock it drops is still to be waited for.
ClockJoined(i) == "clock" \notin threads[i]

UnwindClock(i) ==
    /\ pc[i] = "unwind" /\ HomePodPath(i)
    /\ pc' = [pc EXCEPT ![i] = "released"]
    /\ clockStop' = [clockStop EXCEPT ![i] = TRUE]
    /\ UNCHANGED <<who, left, open, holds, threads, events, feedback, stopFlag, port, stuck, session, ended>>

UnwindHomePod(i) ==
    /\ pc[i] = "released" /\ ClockJoined(i)
    /\ pc' = [pc EXCEPT ![i] = "gone"]
    /\ Teardown(i)
    /\ stopFlag' = [stopFlag EXCEPT ![i] = TRUE]
    /\ UNCHANGED <<who, left, threads, events, feedback, clockStop, port, stuck, session, ended>>

(***************************************************************************)
(* stop: the flag, the data connection shut, every thread joined, the      *)
(* followers torn down, the clock joined, the leader torn down.            *)
(***************************************************************************)
\* Mutant: the threads are joined before they are told to stop.
StopUnflagged(i) ==
    /\ pc[i] = "stop"
    /\ pc' = [pc EXCEPT ![i] = "join"]
    /\ stuck' = [stuck EXCEPT ![i] = FALSE]
    /\ UNCHANGED <<who, left, open, holds, threads, events, feedback, stopFlag, clockStop, port,
                   session, ended>>
StopBegins(i) ==
    /\ pc[i] = "stop"
    /\ pc' = [pc EXCEPT ![i] = "join"]
    /\ stopFlag' = [stopFlag EXCEPT ![i] = TRUE]
    /\ stuck' = [stuck EXCEPT ![i] = FALSE]
    /\ UNCHANGED <<who, left, open, holds, threads, events, feedback, clockStop, port, session, ended>>

StopJoins(i) ==
    /\ pc[i] = "join"
    /\ threads[i] \subseteq {"clock"} /\ events[i] = {} /\ feedback[i] = {}
    /\ pc' = [pc EXCEPT ![i] = "clockJoin"]
    /\ clockStop' = [clockStop EXCEPT ![i] = TRUE]
    /\ UNCHANGED <<who, left, open, holds, threads, events, feedback, stopFlag, port, stuck, session, ended>>

StopEnds(i) ==
    /\ pc[i] = "clockJoin" /\ threads[i] = {}
    /\ pc' = [pc EXCEPT ![i] = "gone"]
    /\ Teardown(i)
    /\ UNCHANGED <<who, left, threads, events, feedback, stopFlag, clockStop, port, stuck, session, ended>>

(***************************************************************************)
(* The threads.                                                            *)
(***************************************************************************)
ClockEnds(i) ==
    /\ "clock" \in threads[i] /\ clockStop[i]
    /\ threads' = [threads EXCEPT ![i] = @ \ {"clock"}]
    /\ port' = [port EXCEPT ![i] = "none"]
    /\ UNCHANGED <<who, pc, left, open, holds, events, feedback, stopFlag, clockStop, stuck, session, ended>>

\* Stopped, or (a sender) its sends fail.
ThreadEnds(i, t) ==
    /\ t \in threads[i] \ {"clock"}
    /\ stopFlag[i] \/ t = "sender"
    /\ t = "sender" => ~stuck[i]
    /\ threads' = [threads EXCEPT ![i] = @ \ {t}]
    /\ UNCHANGED <<who, pc, left, open, holds, events, feedback, stopFlag, clockStop, port, stuck,
                   session, ended>>

\* A receiver stops consuming, and the sender's write waits for it, until
\* its timeout or stop's shutdown of the connection.
Stall(i) ==
    /\ "sender" \in threads[i] /\ ~HomePodPath(i) /\ UsesPtp(i) /\ ~stopFlag[i]
    /\ ~stuck[i] /\ stuck' = [stuck EXCEPT ![i] = TRUE]
    /\ UNCHANGED <<who, pc, left, open, holds, threads, events, feedback, stopFlag, clockStop,
                   port, session, ended>>

WriteTimesOut(i) ==
    /\ stuck[i] /\ stuck' = [stuck EXCEPT ![i] = FALSE]
    /\ threads' = [threads EXCEPT ![i] = @ \ {"sender"}]
    /\ UNCHANGED <<who, pc, left, open, holds, events, feedback, stopFlag, clockStop, port, session, ended>>

\* Its flag is set, or the receiver closes the channel.
EventEnds(i, r) ==
    /\ r \in events[i]
    /\ stopFlag[i] \/ i \notin holds[r] \/ pc[i] = "up"
    /\ events' = [events EXCEPT ![i] = @ \ {r}]
    /\ UNCHANGED <<who, pc, left, open, holds, threads, feedback, stopFlag, clockStop, port, stuck,
                   session, ended>>

\* Its flag is set, or the receiver has not answered for too long.
FeedbackEnds(i, r) ==
    /\ r \in feedback[i]
    /\ feedback' = [feedback EXCEPT ![i] = @ \ {r}]
    /\ UNCHANGED <<who, pc, left, open, holds, threads, events, stopFlag, clockStop, port, stuck,
                   session, ended>>

MemberStep(i) ==
    \E r \in who[i] : ConnectAndPair(i, r) \/ SetupSession(i, r) \/ SetupStream(i, r) \/ Record(i, r)
Caller(i) ==
    \/ Proceed(i) \/ Bind(i) \/ MemberStep(i) \/ StartClock(i) \/ SpawnGeneral(i) \/ SpawnHomePod(i)
    \/ UnwindGeneral(i) \/ UnwindClock(i) \/ UnwindHomePod(i)
Stopper(i) == StopBegins(i) \/ StopJoins(i) \/ StopEnds(i)

Next ==
    \/ EndSession
    \/ \E i \in Starts :
        \/ \E t \in Targets : Select(i, t)
        \/ Proceed(i)
        \/ Bind(i)
        \/ \E r \in who[i] : ConnectAndPair(i, r)
        \/ StartClock(i)
        \/ \E r \in who[i] : SetupSession(i, r)
        \/ \E r \in who[i] : SetupStream(i, r)
        \/ \E r \in who[i] : Record(i, r)
        \/ SpawnGeneral(i)
        \/ SpawnHomePod(i)
        \/ UnwindGeneral(i)
        \/ UnwindClock(i)
        \/ UnwindHomePod(i)
        \/ StopBegins(i)
        \/ StopJoins(i)
        \/ StopEnds(i)
        \/ ClockEnds(i)
        \/ \E t \in threads[i] : ThreadEnds(i, t)
        \/ Stall(i)
        \/ WriteTimesOut(i)
        \/ \E r \in who[i] : EventEnds(i, r)
        \/ \E r \in who[i] : FeedbackEnds(i, r)

\* Requests are answered or time out, threads run, and each wait of a thread
\* has a timeout, after which it looks at its flag.
Fairness ==
    \A i \in Starts :
        /\ WF_vars(Caller(i)) /\ WF_vars(Stopper(i)) /\ WF_vars(ClockEnds(i))
        /\ WF_vars(WriteTimesOut(i))
        /\ \A t \in {"sender", "aux", "volume"} : WF_vars(stopFlag[i] /\ ThreadEnds(i, t))
        /\ \A r \in Receivers :
              WF_vars(stopFlag[i] /\ EventEnds(i, r)) /\ WF_vars(stopFlag[i] /\ FeedbackEnds(i, r))

Spec == Init /\ [][Next]_vars /\ Fairness

-----------------------------------------------------------------------------
\* Property.  An attempt that is over leaves no half-open session on any of
\* its receivers, whatever phase it failed in (Drop for Ap2Rtsp, stop).
HalfOpenEnds == \A i \in Starts : pc[i] = "gone" => \A r \in Receivers : i \notin holds[r]

\* Property.  A select asks no receiver for a session while it still holds
\* another of ours, unless another thread is ending that one: the receiver
\* would refuse (replacing_same).
ReselectWaits ==
    \A r \in Receivers : \A i, j \in holds[r] : i # j => {i, j} \cap ended # {}

\* Property.  A receiver's session is open only while something here owns
\* it, and is not asked for again before the one it replaces has ended.
ReceiversFreed == HalfOpenEnds /\ ReselectWaits

\* Property.  A stop, and a failed bring-up of the HomePod profile, return,
\* and in the end none of the session's threads is left: whatever phase the
\* bring-up had reached, and a receiver that no longer consumes included.
CleanEnd ==
    \A i \in Starts :
        pc[i] = "stop" \/ (pc[i] = "unwind" /\ HomePodPath(i)) ~>
            pc[i] = "gone" /\ threads[i] = {} /\ events[i] = {} /\ feedback[i] = {}

\* Property.  A start that follows failed HomePod bring-ups and stops, with
\* no other session up, gets the PTP ports (PtpGuard).
RetryOwnsPorts ==
    [][\A i \in Starts :
        /\ port[i] = "none" /\ port'[i] # "none"
        /\ \A j \in Starts \ {i} :
              pc[j] \in {"none", "gone"} /\ (pc[j] = "gone" => stopFlag[j])
        => port'[i] = "well"]_vars

\* What app.rs says of a receiver that is selected again: the old session
\* must be torn down first.
TornDownFirst == \A r \in Receivers : Cardinality(holds[r]) <= 1

\* What ap2_ptp.rs says of its ports: one session at a time owns them.
PortsOwned == \A i \in Starts : port[i] # "other"
=============================================================================
