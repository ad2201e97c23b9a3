------------------------------ MODULE VolumeSync ------------------------------
(***************************************************************************)
(* One volume level in three places: the Windows slider (the driver's      *)
(* volume node), the service (`VolumeSync`, shown by the window) and the   *)
(* speaker.  A change on any of them is carried to the other two, and what *)
(* comes back from there is an echo to be dropped.                         *)
(*                                                                         *)
(* The threads of the code that take part: "events" reads the driver's     *)
(* events, "gena" the speaker's notifications, "window" is the user        *)
(* interface, "volume" sends to the speaker, and "connect" brings a new    *)
(* speaker's level in.  Each changes the shared state under one lock and   *)
(* pushes to Windows or queues for the speaker after releasing it.         *)
(*                                                                         *)
(* Time is not counted.  An echo window ends at any moment once nothing it *)
(* is meant to cover is under way: echoes arrive within their windows.     *)
(*                                                                         *)
(* No lock orders a push to Windows against another thread's or against a  *)
(* move of the slider, so two that cross can leave the three places apart. *)
(* A behaviour with one hand leaves such crossings out, to check that     *)
(* nothing else does.                                                      *)
(* Mute, which has no echo suppression, is not part of this module.        *)
(***************************************************************************)
EXTENDS Naturals, Sequences

CONSTANTS
    MaxLevel,   \* the scale is 0..MaxLevel (100 in the code)
    Cap,        \* the highest level the speaker takes
    MaxMoves,   \* bound: times a user moves a slider, with one hand or not
    MaxBinds,   \* bound: speakers bound after the first
    None

Levels == 0..MaxLevel

ConstantsOK ==
    /\ MaxLevel \in Nat /\ Cap \in Levels /\ None \notin Levels
    /\ MaxMoves \in [BOOLEAN -> Nat] /\ MaxBinds \in Nat

Pushers == {"gena", "window", "volume", "connect"}   \* threads that set the slider
Hands == {"windows", "speaker", "window", None}

VARIABLES
    slider,      \* the driver's volume node, which Windows shows
    events,      \* its level events on their way to the service
    last,        \* Inner::last_level
    toWindows,   \* sent_to_windows: levels of the run of pushes, and is it live
    run,         \* to_speaker: SpeakerRun
    levelSet,    \* level_set_since_bound
    pending,     \* PendingCommands: levels queued, with their session numbers
    session,     \* SpeakerControlShared::session
    speaker,     \* the bound speaker's level
    changed,     \* it has a change it has not reported yet
    reports,     \* its notifications on their way
    push,        \* per thread: the level it is about to push to Windows
    queue,       \* per thread: the level it is about to queue
    sending,     \* the volume thread's command, between send_start and done
    settleDue,   \* run_speaker_control's settle_due
    connecting,  \* the level read of a new session: its number, where it is
    oneHand,     \* one slider at a time is moved, and nothing crosses a push to Windows
    hand,        \* whose move may still be under way
    moves, binds

vars == <<slider, events, last, toWindows, run, levelSet, pending, session, speaker,
          changed, reports, push, queue, sending, settleDue, connecting,
          oneHand, hand, moves, binds>>
inner == <<last, toWindows, run, levelSet>>
device == <<speaker, changed, reports>>
windows == <<slider, events>>
control == <<pending, session, sending, settleDue>>
bounds == <<oneHand, hand, moves, binds>>

NoRun == [sent |-> {}, inFlight |-> FALSE, active |-> FALSE, lastEcho |-> None]

TypeOK ==
    /\ slider \in Levels /\ events \in Seq(Levels)
    /\ last \in Levels \cup {None}
    /\ toWindows \in [levels : SUBSET Levels, live : BOOLEAN]
    /\ run \in [sent : SUBSET Levels, inFlight : BOOLEAN, active : BOOLEAN,
                lastEcho : Levels \cup {None}]
    /\ levelSet \in BOOLEAN /\ settleDue \in BOOLEAN
    /\ pending \in Seq([number : Nat, level : Levels]) /\ Len(pending) <= 1
    /\ session \in Nat
    /\ speaker \in Levels /\ changed \in BOOLEAN /\ reports \in Seq(Levels)
    /\ push \in [Pushers -> Levels \cup {None}]
    /\ queue \in [{"events", "window"} -> Levels \cup {None}]
    /\ sending \in [meant : Nat, to : Nat, level : Levels, set : BOOLEAN] \cup {None}
    /\ connecting \in [number : Nat, at : {"read", "check", "apply"},
                       level : Levels \cup {None}] \cup {None}
    /\ oneHand \in BOOLEAN /\ hand \in Hands
    /\ moves \in 0..MaxMoves[oneHand] /\ binds \in 0..MaxBinds

\* A first speaker has just been bound; nothing is known of its level yet.
Init ==
    /\ slider \in Levels /\ speaker \in 0..Cap
    /\ events = << >> /\ reports = << >> /\ changed = FALSE
    /\ last \in {None, slider}
    /\ toWindows = [levels |-> {}, live |-> FALSE] /\ run = NoRun
    /\ levelSet = FALSE /\ settleDue = FALSE
    /\ pending = << >> /\ session = 1 /\ sending = None
    /\ push = [t \in Pushers |-> None] /\ queue = [t \in {"events", "window"} |-> None]
    /\ connecting = [number |-> 1, at |-> "read", level |-> None]
    /\ oneHand \in BOOLEAN /\ hand = None /\ moves = 0 /\ binds = 0

NoPush == \A t \in Pushers : push[t] = None

\* Nothing is on its way, but perhaps a new speaker's level read.
AtRest ==
    /\ events = << >> /\ reports = << >> /\ ~changed
    /\ pending = << >> /\ sending = None /\ ~settleDue
    /\ NoPush
    /\ \A t \in {"events", "window"} : queue[t] = None
    /\ ~toWindows.live /\ ~run.active /\ ~run.inFlight

Quiet == AtRest /\ connecting = None
-----------------------------------------------------------------------------
(* VolumeSync: each operator is one critical section of its lock.          *)

Live == run.inFlight \/ run.active

Touched == IF Live THEN [run EXCEPT !.active = TRUE] ELSE [NoRun EXCEPT !.active = TRUE]

Remembered(v) ==
    [levels |-> (IF toWindows.live THEN toWindows.levels ELSE {}) \cup {v}, live |-> TRUE]

WindowsEcho(v) == toWindows.live /\ v \in toWindows.levels

\* sonos_changed: an echo is kept aside; a level the speaker came to by
\* itself is ours from now on and goes to Windows.
SonosChanged(t, v) ==
    IF Live /\ v \in run.sent
      THEN /\ run' = [run EXCEPT !.lastEcho = v]
           /\ UNCHANGED <<last, toWindows, push>>
      ELSE /\ run' = IF Live THEN [run EXCEPT !.lastEcho = None] ELSE NoRun
           /\ IF v = last
                THEN UNCHANGED <<last, toWindows, push>>
                ELSE /\ last' = v
                     /\ toWindows' = Remembered(v)
                     /\ push' = [push EXCEPT ![t] = v]
-----------------------------------------------------------------------------
(* The outside.                                                            *)

\* With one hand at a time a move follows one of the same hand (a drag) or
\* comes when all is quiet; the Windows slider waits for its echo
\* window, and only the window is used during a level read.
MayMove(h) ==
    /\ moves < MaxMoves[oneHand]
    /\ oneHand => /\ AtRest \/ hand = h
                  /\ h = "windows" => ~toWindows.live
                  /\ connecting # None => h = "window" /\ connecting.at # "apply"

UserMovesSlider == \E v \in Levels :
    /\ MayMove("windows") /\ v # slider
    /\ slider' = v /\ events' = Append(events, v)
    /\ hand' = "windows" /\ moves' = moves + 1
    /\ UNCHANGED <<inner, device, control, push, queue, connecting, oneHand, binds>>

UserMovesSpeaker == \E v \in 0..Cap :
    /\ MayMove("speaker") /\ v # speaker
    /\ speaker' = v /\ changed' = TRUE
    /\ hand' = "speaker" /\ moves' = moves + 1
    /\ UNCHANGED <<inner, windows, control, reports, push, queue, connecting, oneHand, binds>>

\* Notifications are moderated: one names the level the speaker is at then.
SpeakerReports ==
    /\ changed
    /\ reports' = Append(reports, speaker) /\ changed' = FALSE
    /\ UNCHANGED <<inner, windows, control, speaker, push, queue, connecting, bounds>>

\* OnExternalVolumeChange: the node takes the level; Windows, told of the
\* change, may write it back, which the driver reports like any other.
PushToWindows == \E t \in Pushers :
    /\ push[t] # None
    /\ slider' = push[t]
    /\ events' \in {events, Append(events, push[t])}
    /\ push' = [push EXCEPT ![t] = None]
    /\ UNCHANGED <<inner, device, control, queue, connecting, bounds>>
-----------------------------------------------------------------------------
(* The service's threads.                                                  *)

\* A thread does one thing after the other; with one hand no push is decided
\* while another one, or a move of the Windows slider, is on its way.
MayPush(t) == push[t] = None /\ (oneHand => NoPush /\ (hand = "windows" => events = << >>))

\* driver_changed, by the driver event consumer.
DriverChanged ==
    /\ events # << >> /\ queue["events"] = None
    /\ LET v == Head(events) IN
       IF WindowsEcho(v) \/ v = last
         THEN UNCHANGED <<last, run, levelSet, queue>>
         ELSE /\ last' = v /\ run' = Touched /\ levelSet' = TRUE
              /\ queue' = [queue EXCEPT !["events"] = v]
    /\ events' = Tail(events)
    /\ UNCHANGED <<slider, toWindows, device, control, push, connecting, bounds>>

\* The GENA callback: speaker_event with a level.
SpeakerEvent ==
    /\ reports # << >> /\ MayPush("gena")
    /\ SonosChanged("gena", Head(reports))
    /\ reports' = Tail(reports)
    /\ UNCHANGED <<windows, control, levelSet, speaker, changed, queue, connecting, bounds>>

\* set_speaker_volume: the level is queued for the speaker in any case, and
\* pushed to Windows when it is new.
WindowChanged == \E v \in Levels :
    /\ MayMove("window")
    /\ MayPush("window") /\ queue["window"] = None
    /\ run' = Touched /\ levelSet' = TRUE
    /\ queue' = [queue EXCEPT !["window"] = v]
    /\ IF v = last
         THEN UNCHANGED <<last, toWindows, push>>
         ELSE /\ last' = v
              /\ toWindows' = Remembered(v)
              /\ push' = [push EXCEPT !["window"] = v]
    /\ hand' = "window" /\ moves' = moves + 1
    /\ UNCHANGED <<windows, device, control, connecting, oneHand, binds>>

\* PendingCommands::push: a level replaces the one waiting at the back.
Queued(v) == << [number |-> session, level |-> v] >>

\* SpeakerControl::send.  The window pushes to Windows before it queues.
Send == \E t \in {"events", "window"} :
    /\ queue[t] # None
    /\ t = "window" => push["window"] = None
    /\ pending' = Queued(queue[t])
    /\ queue' = [queue EXCEPT ![t] = None]
    /\ UNCHANGED <<inner, windows, device, session, sending, settleDue, push, connecting, bounds>>

\* A mutant of ForBound: what is queued goes to whoever is bound.
ForBoundAlways(c) == TRUE

\* Is a command still meant for the speaker that is bound?
ForBound(c) == c.number = session

\* run_speaker_control: take a command; speaker_send_start under the
\* session lock.
VolumeTakes ==
    /\ sending = None /\ push["volume"] = None
    /\ pending # << >>
    /\ LET c == Head(pending) IN
       IF ForBound(c)
         THEN /\ sending' = [meant |-> c.number, to |-> session, level |-> c.level, set |-> FALSE]
              /\ run' = [Touched EXCEPT !.sent = @ \cup {c.level}, !.inFlight = TRUE]
         ELSE UNCHANGED <<sending, run>>
    /\ pending' = Tail(pending)
    /\ UNCHANGED <<windows, device, last, toWindows, levelSet, session, settleDue, push,
                   queue, connecting, bounds>>

CapAt(v) == IF v > Cap THEN Cap ELSE v

\* The speaker gets the level, unless it is not the bound one any more.
VolumeSets ==
    /\ sending # None /\ ~sending.set
    /\ sending' = [sending EXCEPT !.set = TRUE]
    /\ IF sending.to = session
         THEN /\ speaker' = CapAt(sending.level)
              /\ changed' = (changed \/ speaker' # speaker)
         ELSE UNCHANGED <<speaker, changed>>
    /\ UNCHANGED <<inner, windows, reports, pending, session, settleDue, push, queue,
                   connecting, bounds>>

\* speaker_send_done; ignored when a speaker bound meanwhile cleared the run.
Done == IF run.inFlight THEN [run EXCEPT !.inFlight = FALSE, !.active = TRUE] ELSE run

VolumeDone ==
    /\ sending # None /\ sending.set
    /\ run' = Done
    /\ sending' = None /\ settleDue' = TRUE
    /\ UNCHANGED <<windows, device, last, toWindows, levelSet, pending, session, push,
                   queue, connecting, bounds>>

\* Where the speaker ended up, when that is not where we left it.
Settled == IF run.lastEcho = last THEN None ELSE run.lastEcho

\* speaker_settle: nothing is queued and the run is over.
Settle ==
    /\ settleDue /\ pending = << >> /\ sending = None /\ MayPush("volume") /\ ~Live
    /\ settleDue' = FALSE
    /\ run' = NoRun
    /\ IF Settled = None
         THEN UNCHANGED <<last, toWindows, push>>
         ELSE /\ last' = Settled
              /\ toWindows' = Remembered(Settled)
              /\ push' = [push EXCEPT !["volume"] = Settled]
    /\ UNCHANGED <<windows, device, levelSet, pending, session, sending, queue, connecting, bounds>>
-----------------------------------------------------------------------------
(* A new speaker.                                                          *)

\* bind_session, with the level read to follow on a thread of its own.
\* Bound: the last session's level read is over.
Bind == \E v \in 0..Cap :
    /\ binds < MaxBinds /\ connecting = None
    /\ oneHand => Quiet
    /\ session' = session + 1
    /\ run' = NoRun /\ levelSet' = FALSE
    /\ speaker' = v /\ changed' = FALSE /\ reports' = << >>
    /\ connecting' = [number |-> session + 1, at |-> "read", level |-> None]
    /\ hand' = None /\ binds' = binds + 1
    /\ UNCHANGED <<windows, last, toWindows, pending, sending, settleDue, push, queue,
                   oneHand, moves>>

ReadLevel ==
    /\ connecting # None /\ connecting.at = "read"
    /\ connecting' = [connecting EXCEPT !.at = "check", !.level = speaker]
    /\ UNCHANGED <<inner, windows, device, control, push, queue, bounds>>

\* speaker_level_on_connect and the first half of speaker_connected: still
\* the bound one, and nothing set for it meanwhile?
CheckLevel ==
    /\ connecting # None /\ connecting.at = "check"
    /\ connecting' = IF connecting.number # session \/ levelSet THEN None
                     ELSE [connecting EXCEPT !.at = "apply"]
    /\ UNCHANGED <<inner, windows, device, control, push, queue, bounds>>

ApplyLevel ==
    /\ connecting # None /\ connecting.at = "apply" /\ MayPush("connect")
    /\ SonosChanged("connect", connecting.level)
    /\ connecting' = None
    /\ UNCHANGED <<windows, device, control, levelSet, queue, bounds>>
-----------------------------------------------------------------------------
(* The echo windows run out.                                               *)

WindowsWindowEnds ==
    /\ toWindows.live
    /\ events = << >> /\ NoPush
    /\ toWindows' = [toWindows EXCEPT !.live = FALSE]
    /\ UNCHANGED <<windows, last, run, levelSet, device, control, push, queue, connecting, bounds>>

SpeakerWindowEnds ==
    /\ run.active /\ ~run.inFlight
    /\ ~changed /\ reports = << >>
    /\ connecting # None => connecting.at # "apply"
    /\ NoPush
    /\ pending = << >> /\ \A t \in {"events", "window"} : queue[t] = None
    /\ run' = [run EXCEPT !.active = FALSE]
    /\ UNCHANGED <<windows, last, toWindows, levelSet, device, control, push, queue,
                   connecting, bounds>>

ServiceStep ==
    \/ PushToWindows \/ SpeakerReports \/ DriverChanged \/ SpeakerEvent \/ Send
    \/ VolumeTakes \/ VolumeSets \/ VolumeDone \/ Settle
    \/ ReadLevel \/ CheckLevel \/ ApplyLevel
    \/ WindowsWindowEnds \/ SpeakerWindowEnds

Next ==
    \/ UserMovesSlider \/ UserMovesSpeaker \/ WindowChanged \/ Bind
    \/ ServiceStep

Spec == Init /\ [][Next]_vars

\* Every thread, the driver, the speaker and the clock go on.
FairSpec == Spec /\ WF_vars(ServiceStep)
-----------------------------------------------------------------------------
\* VolumeSync's purpose: with one hand on the sliders, once every echo has
\* come in and its window has run out, the Windows slider, the service and
\* the speaker show one level, or the speaker the highest it takes of it.
Agreement == oneHand /\ Quiet => last = slider /\ speaker = CapAt(last)

\* No change bounces for ever between Windows and the speaker, whatever the
\* order its reports and pushes come in (echo suppression; FairSpec).
ComesToRest == <>[]Quiet

\* A level queued for one speaker is never set on another, however slow the
\* send before it was (run_speaker_control's check under the session lock).
NeverToAnother ==
    [][(sending # None /\ ~sending.set /\ speaker' # speaker /\ session' = session
          /\ moves' = moves) => sending.meant = session]_vars

\* speaker_connected: a level queued for the speaker since it was bound wins
\* over the level the speaker was found at as its session started.
LevelSetWins == [][connecting # None /\ connecting' = None /\ levelSet => last' = last]_vars
=============================================================================
