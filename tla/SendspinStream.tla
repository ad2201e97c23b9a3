---------------------------- MODULE SendspinStream ----------------------------
(* One admitted connection of the Sendspin source: its event loop, which     *)
(* acts on activations, clock replies and start and stop commands, and its   *)
(* audio thread, which sends what is captured while the stream is open and   *)
(* Music Assistant is the selected output.  The server and the selection     *)
(* are the environment's.                                                    *)
EXTENDS Naturals

CONSTANTS
    MaxCommands,     \* bound on what the server asks
    MaxSelects       \* bound on the changes of the selected output

ConstantsOK == MaxCommands \in Nat /\ MaxSelects \in Nat

VARIABLES
    selected,        \* output_selected > 0
    active,          \* source_active
    synced,          \* the clock filter is synchronised
    stateSent, startPending,
    loop,            \* the event loop: "waits", or "starts" once it has seen the selection
    streamOpen, lock,\* the stream's mutex and what it guards; lock: "free" or "audio"
    audio,           \* the audio thread: "waits", "saw" (selection read), "locks", "sends"
    saw, wasSelected,\* its copies of the selection
    reported,        \* the availability it last reported
    wire,            \* what the server was told: "ended" or "started"
    told,            \* the availability the server was last told
    alive, asked, changes

vars == <<selected, active, synced, stateSent, startPending, loop, streamOpen, lock, audio, saw,
          wasSelected, reported, wire, told, alive, asked, changes>>
audioVars == <<lock, audio, saw, wasSelected, reported>>
loopVars == <<active, synced, stateSent, startPending, loop>>

Init ==
    /\ selected \in BOOLEAN
    /\ active = TRUE /\ synced \in BOOLEAN /\ stateSent = FALSE /\ startPending = FALSE
    /\ loop = "waits" /\ streamOpen = FALSE /\ lock = "free"
    /\ audio = "waits" /\ saw = FALSE /\ wasSelected = FALSE /\ reported = "nothing"
    /\ wire = "ended" /\ told = "nothing"
    /\ alive = TRUE /\ asked = 0 /\ changes = 0

-----------------------------------------------------------------------------
(* The stream, under its mutex. *)

Availability == IF selected THEN "available" ELSE "unavailable"

SendState == told' = Availability /\ stateSent' = TRUE

StartStream ==
    /\ lock = "free"
    /\ streamOpen' = TRUE
    /\ wire' = IF streamOpen THEN wire ELSE "started"

StopStream ==
    /\ lock = "free"
    /\ streamOpen' = FALSE
    /\ wire' = IF streamOpen THEN "ended" ELSE wire

-----------------------------------------------------------------------------
(* The event loop. *)

Asked == loop = "waits" /\ alive /\ asked < MaxCommands /\ asked' = asked + 1

\* An activation gives or takes the source role; without it the stream stops.
ActivateRoles(now) ==
    /\ Asked
    /\ active' = now
    /\ IF active /\ ~now THEN StopStream ELSE UNCHANGED <<streamOpen, wire>>
    /\ IF now /\ synced THEN SendState
       ELSE stateSent' = (stateSent /\ now) /\ UNCHANGED told
    /\ UNCHANGED <<selected, synced, startPending, loop, audioVars, alive, changes>>

\* A clock reply that synchronises: the state is sent, and a start that waited for it runs.
TimeReply ==
    /\ loop = "waits" /\ alive /\ ~synced
    /\ synced' = TRUE
    /\ IF active /\ ~stateSent THEN SendState ELSE UNCHANGED <<stateSent, told>>
    /\ IF startPending /\ active /\ selected
       THEN startPending' = FALSE /\ loop' = "starts" ELSE UNCHANGED <<startPending, loop>>
    /\ UNCHANGED <<selected, active, streamOpen, wire, audioVars, alive, asked, changes>>

\* A start is ignored unless Music Assistant is the selected output and the role is active.
CommandStart ==
    /\ Asked
    /\ loop' = IF selected /\ active /\ synced THEN "starts" ELSE loop
    /\ startPending' = (startPending \/ (selected /\ active /\ ~synced))
    /\ UNCHANGED <<selected, active, synced, stateSent, streamOpen, wire, told, audioVars, alive, changes>>

\* The stream opens after the selection was looked at.
Starts ==
    /\ loop = "starts"
    /\ loop' = "waits"
    /\ StartStream
    /\ UNCHANGED <<selected, active, synced, stateSent, startPending, audioVars, told, alive, asked, changes>>

CommandStop ==
    /\ Asked
    /\ startPending' = FALSE
    /\ StopStream
    /\ UNCHANGED <<selected, active, synced, stateSent, loop, audioVars, told, alive, changes>>

-----------------------------------------------------------------------------
(* The audio thread. *)

\* A captured frame: the selection is read, once for all that follows.
Frame ==
    /\ audio = "waits" /\ alive
    /\ saw' = selected
    /\ audio' = "saw"
    /\ UNCHANGED <<selected, loopVars, streamOpen, lock, wasSelected, reported, wire, told, alive, asked, changes>>

NotRemembered == FALSE
Remembered == saw

\* Unselected since the last frame: the stream ends.  A change is reported.
FrameActs ==
    /\ audio = "saw"
    /\ IF wasSelected /\ ~saw THEN StopStream ELSE UNCHANGED <<streamOpen, wire>>
    /\ wasSelected' = Remembered
    /\ LET now == IF saw THEN "available" ELSE "unavailable"
       IN IF reported # now /\ active /\ synced
          THEN reported' = now /\ SendState ELSE UNCHANGED <<reported, told, stateSent>>
    /\ audio' = "locks"
    /\ UNCHANGED <<selected, active, synced, startPending, loop, lock, saw, alive, asked, changes>>

\* The audio is sent with the mutex held, if the stream is open.
FrameLocks ==
    /\ audio = "locks" /\ lock = "free"
    /\ IF streamOpen /\ saw THEN lock' = "audio" /\ audio' = "sends"
       ELSE audio' = "waits" /\ UNCHANGED lock
    /\ UNCHANGED <<selected, loopVars, streamOpen, saw, wasSelected, reported, wire, told, alive, asked, changes>>

FrameSends ==
    /\ audio = "sends"
    /\ audio' = "waits" /\ lock' = "free"
    /\ UNCHANGED <<selected, loopVars, streamOpen, saw, wasSelected, reported, wire, told, alive, asked, changes>>

-----------------------------------------------------------------------------
Select ==
    /\ changes < MaxSelects
    /\ changes' = changes + 1
    /\ selected' = ~selected
    /\ UNCHANGED <<loopVars, streamOpen, audioVars, wire, told, alive, asked>>

\* The connection ends: the helper threads see it at their next turn.
ConnectionEnds ==
    /\ alive
    /\ alive' = FALSE
    /\ UNCHANGED <<selected, loopVars, streamOpen, audioVars, wire, told, asked, changes>>

Next ==
    \/ ActivateRoles(TRUE) \/ ActivateRoles(FALSE)
    \/ TimeReply \/ CommandStart \/ Starts \/ CommandStop
    \/ Frame \/ FrameActs \/ FrameLocks \/ FrameSends
    \/ Select \/ ConnectionEnds

\* Windows delivers frames, silent ones included, while the capture runs.
Fairness == WF_vars(Starts) /\ WF_vars(Frame \/ FrameActs \/ FrameLocks \/ FrameSends)

Spec == Init /\ [][Next]_vars /\ Fairness

-----------------------------------------------------------------------------
\* A stream that was playing ends once Music Assistant is no longer the selected output.
UnselectedEnds ==
    (streamOpen /\ audio = "sends" /\ ~selected) ~> (~streamOpen \/ selected \/ ~alive)
=============================================================================
