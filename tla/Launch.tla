------------------------------- MODULE Launch -------------------------------
(* Copies of the program being started on one PC: the machine-wide mutex     *)
(* every copy creates, the mutex and the event of a session through which a  *)
(* second launch hands over to the window, the stream port, and the window   *)
(* that a launch at sign-in hides in the tray.  A session is of one account. *)
EXTENDS Naturals, FiniteSets

CONSTANTS Launches, Sessions, Account, Kinds

VARIABLES
    pc,         \* what a launch is doing
    kind,       \* "window", "signin" or "headless"
    session,    \* where it runs
    lock,       \* what creating the machine-wide mutex said
    machine,    \* the launches with a handle to the machine-wide mutex
    creator,    \* the account that mutex was created by
    claimed,    \* the launches with a handle to the mutex of their session
    event,      \* the event of a session: "none", "reset" or "set"
    port,       \* the launches that have the stream port: one or none
    gui,        \* the window's start, then its frames
    hide,       \* the window is to be hidden after its first frame
    visible, window, pending,
    thread,     \* the hand-off thread: "none", "wait" or "show"
    missed,     \* a hand-off came between a frame's check and its hiding
    handed      \* a hand-off came before that check

vars == <<pc, kind, session, lock, machine, creator, claimed, event, port, gui, hide, visible, window,
          pending, thread, missed, handed>>
guiVars == <<gui, hide, visible, window, pending, missed, handed>>
lockVars == <<lock, machine, creator, claimed, port>>

Init ==
    /\ pc = [l \in Launches |-> "off"]
    /\ kind \in [Launches -> Kinds]
    /\ session \in [Launches -> Sessions]
    /\ lock = [l \in Launches |-> "none"]
    /\ machine = {} /\ creator = 0 /\ claimed = {} /\ port = {}
    /\ event = [s \in Sessions |-> "none"]
    /\ gui = [l \in Launches |-> "none"]
    /\ thread = [l \in Launches |-> "none"]
    /\ hide = {} /\ visible = {} /\ window = {} /\ pending = {} /\ missed = {} /\ handed = {}

Live(l) == pc[l] \notin {"off", "gone", "quit"}
Holder(s) == {l \in claimed : session[l] = s}

(* The process ends, and its handles with it: a mutex or an event without    *)
(* handles is gone.                                                          *)
Ends(l) ==
    /\ pc' = [pc EXCEPT ![l] = IF l \in port THEN "quit" ELSE "gone"]
    /\ machine' = machine \ {l}
    /\ claimed' = claimed \ {l}
    /\ port' = port \ {l}
    /\ event' = IF thread[l] # "none" THEN [event EXCEPT ![session[l]] = "none"] ELSE event
    /\ thread' = [thread EXCEPT ![l] = "none"]
    /\ visible' = visible \ {l}
    /\ UNCHANGED <<kind, session, lock, creator, gui, hide, window, pending, missed, handed>>

------------------------------------------------------------------------------
(* create_singleton_mutex, and what its outcome means.                       *)
CreateMachineMutex(l) ==
    /\ pc[l] = "off"
    /\ LET mine == Account[session[l]]
           held == machine # {}
       IN  /\ lock' = [lock EXCEPT ![l] =
                  IF ~held THEN "Created" ELSE IF creator = mine THEN "HeldByThisAccount" ELSE "HeldElsewhere"]
           /\ machine' = IF held /\ creator # mine THEN machine ELSE machine \union {l}
           /\ creator' = IF held THEN creator ELSE mine
    /\ pc' = [pc EXCEPT ![l] = IF kind[l] = "headless" THEN "run" ELSE "claim"]
    /\ UNCHANGED <<kind, session, claimed, event, port, thread, guiVars>>

(* claim: the session's mutex.                                               *)
ClaimSession(l) ==
    /\ pc[l] = "claim"
    /\ pc' = [pc EXCEPT ![l] = IF Holder(session[l]) = {} THEN "event" ELSE "signal"]
    /\ claimed' = claimed \union {l}
    /\ UNCHANGED <<kind, session, lock, machine, creator, event, port, thread, guiVars>>

CreateEvent(l) ==
    /\ pc[l] = "event"
    /\ event' = [event EXCEPT ![session[l]] = "reset"]
    /\ thread' = [thread EXCEPT ![l] = "wait"]
    /\ pc' = [pc EXCEPT ![l] = "decide"]
    /\ UNCHANGED <<kind, session, lockVars, guiVars>>

(* signal_first: the event can lag the mutex.                                *)
Signal(l) ==
    /\ pc[l] = "signal" /\ event[session[l]] # "none"
    /\ event' = [event EXCEPT ![session[l]] = "set"]
    /\ pc' = [pc EXCEPT ![l] = "bye"]
    /\ UNCHANGED <<kind, session, lockVars, thread, guiVars>>

(* Twenty tries, over two seconds, found no event: the one that claimed the  *)
(* session is gone, a live one makes its event at once.                      *)
GiveUp(l) ==
    /\ pc[l] = "signal" /\ event[session[l]] = "none"
    /\ \A m \in Launches : ~(pc[m] = "event" /\ session[m] = session[l])
    /\ Ends(l)

Leave(l) == pc[l] = "bye" /\ Ends(l)

(* launch: a copy with no window in this session runs elsewhere.             *)
Decide(l) ==
    /\ pc[l] = "decide"
    /\ \/ /\ lock[l] = "Created"
          /\ pc' = [pc EXCEPT ![l] = "run"]
          /\ UNCHANGED <<kind, session, lockVars, event, thread, guiVars>>
       \/ lock[l] # "Created" /\ Ends(l)

(* run: the stream port can be bound once.                                   *)
BindPort(l) ==
    /\ pc[l] = "run" /\ l \notin port
    /\ \/ /\ port = {}
          /\ port' = {l}
          /\ gui' = [gui EXCEPT ![l] = IF kind[l] = "headless" THEN "none" ELSE "create"]
          /\ UNCHANGED <<pc, kind, session, lock, machine, creator, claimed, event, thread, hide,
                         visible, window, pending, missed, handed>>
       \/ port # {} /\ Ends(l)

Quit(l) == l \in port /\ Ends(l)

------------------------------------------------------------------------------
(* Mutant: nothing is kept for a window that is not there yet.               *)
PendingNever(l) == pending

PendingWith(l) == pending \union {l}

(* The hand-off thread: on_activation.                                       *)
Activated(l) ==
    /\ thread[l] = "wait" /\ event[session[l]] = "set"
    /\ event' = [event EXCEPT ![session[l]] = "reset"]
    /\ thread' = [thread EXCEPT ![l] = "show"]
    /\ pending' = PendingWith(l)
    /\ missed' = IF gui[l] = "hide" THEN missed \union {l} ELSE missed
    /\ handed' = IF gui[l] \in {"hide", "frames"} THEN handed ELSE handed \union {l}
    /\ UNCHANGED <<pc, kind, session, lockVars, gui, hide, visible, window>>

ActivatedShows(l) ==
    /\ thread[l] = "show"
    /\ thread' = [thread EXCEPT ![l] = "wait"]
    /\ visible' = IF l \in window THEN visible \union {l} ELSE visible
    /\ missed' = IF gui[l] = "hide" THEN missed \union {l} ELSE missed
    /\ UNCHANGED <<pc, kind, session, lockVars, event, gui, hide, window, pending, handed>>

(* The window is created; a hand-off that came before keeps it from hiding.  *)
CreateWindow(l) ==
    /\ gui[l] = "create" /\ l \in port
    /\ hide' = IF kind[l] = "signin" /\ l \notin pending THEN hide \union {l} ELSE hide
    /\ gui' = [gui EXCEPT ![l] = "set"]
    /\ UNCHANGED <<pc, kind, session, lockVars, event, thread, visible, window, pending, missed, handed>>

SetWindow(l) ==
    /\ gui[l] = "set" /\ l \in port
    /\ window' = window \union {l}
    /\ visible' = IF l \in hide THEN visible ELSE visible \union {l}
    /\ gui' = [gui EXCEPT ![l] = "first"]
    /\ UNCHANGED <<pc, kind, session, lockVars, event, thread, hide, pending, missed, handed>>

(* A frame: a hand-off shows the window and cancels the hiding.  After the   *)
(* first one eframe shows the window, whatever is asked for; the second      *)
(* hides it.                                                                 *)
Frame(l) ==
    /\ gui[l] \in {"first", "second", "frames"} /\ l \in port
    /\ gui[l] = "frames" => l \in visible
    /\ LET asked == l \in pending
           stays == l \in hide /\ ~asked
       IN  /\ pending' = pending \ {l}
           /\ hide' = IF asked THEN hide \ {l} ELSE hide
           /\ visible' = IF asked \/ gui[l] = "first" THEN visible \union {l} ELSE visible
           /\ gui' = [gui EXCEPT ![l] =
                  CASE gui[l] = "first" -> "second"
                    [] gui[l] = "second" /\ stays -> "hide"
                    [] OTHER -> "frames"]
           /\ missed' = IF asked THEN missed \ {l} ELSE missed
    /\ UNCHANGED <<pc, kind, session, lockVars, event, thread, window, handed>>

(* The rest of the second frame.                                             *)
HideAtSignIn(l) ==
    /\ gui[l] = "hide" /\ l \in port
    /\ gui' = [gui EXCEPT ![l] = "frames"]
    /\ hide' = hide \ {l}
    /\ visible' = visible \ {l}
    /\ UNCHANGED <<pc, kind, session, lockVars, event, thread, window, pending, missed, handed>>

HideToTray(l) ==
    /\ gui[l] = "frames" /\ l \in visible /\ l \in port /\ l \notin pending
    /\ visible' = visible \ {l}
    /\ UNCHANGED <<pc, kind, session, lockVars, event, thread, gui, hide, window, pending, missed, handed>>

Next ==
    \/ \E l \in Launches : CreateMachineMutex(l)
    \/ \E l \in Launches : ClaimSession(l)
    \/ \E l \in Launches : CreateEvent(l)
    \/ \E l \in Launches : Signal(l)
    \/ \E l \in Launches : GiveUp(l)
    \/ \E l \in Launches : Leave(l)
    \/ \E l \in Launches : Decide(l)
    \/ \E l \in Launches : BindPort(l)
    \/ \E l \in Launches : Quit(l)
    \/ \E l \in Launches : Activated(l)
    \/ \E l \in Launches : ActivatedShows(l)
    \/ \E l \in Launches : CreateWindow(l)
    \/ \E l \in Launches : SetWindow(l)
    \/ \E l \in Launches : Frame(l)
    \/ \E l \in Launches : HideAtSignIn(l)
    \/ \E l \in Launches : HideToTray(l)

(* A process that was started runs; nobody has to quit or to hide a window.  *)
Starts(l) ==
    Live(l) /\ (ClaimSession(l) \/ CreateEvent(l) \/ Signal(l) \/ GiveUp(l) \/ Leave(l) \/ Decide(l) \/ BindPort(l))
HandsOver(l) == Activated(l) \/ ActivatedShows(l)
Shows(l) == CreateWindow(l) \/ SetWindow(l) \/ Frame(l) \/ HideAtSignIn(l)

Fairness == \A l \in Launches : WF_vars(Starts(l)) /\ WF_vars(HandsOver(l)) /\ WF_vars(Shows(l))

Spec == Init /\ [][Next]_vars /\ Fairness

------------------------------------------------------------------------------
(* Two copies never work side by side: one that has started without the      *)
(* other's port has no window and no audio.                                  *)
Working == {l \in Launches : pc[l] = "run" /\ kind[l] # "headless"}
OneWindow == Cardinality(Working) <= 1

(* The start at sign-in does not hide a window that a hand-off asked for,    *)
(* however early in the start it came.                                       *)
AskedIsNotHidden == \A l \in Launches : gui[l] = "hide" => l \notin handed

(* A second launch's hand-off is not lost: the first shows its window,       *)
(* during its start, hidden in the tray or started at sign-in, unless it     *)
(* ends, or the hand-off comes while the second frame of a start at sign-in  *)
(* is about to hide the window.                                              *)
HandOffShown ==
    \A l \in Launches :
        (thread[l] # "none" /\ event[session[l]] = "set") ~> (l \in visible \/ ~Live(l) \/ l \in missed)

(* "If another instance is already running in this session, ask it to show   *)
(* its window and exit" (main.rs:299): copies do not all exit in favour of   *)
(* another one.                                                              *)
OneRuns == (\E l \in Launches : pc[l] = "gone") => \E l \in Launches : Live(l) \/ pc[l] = "quit"
==============================================================================
