------------------------------ MODULE Equalizer ------------------------------
(* The equalizer from the editor to the samples (equalizer.rs, and the card  *)
(* and the calls that drive it): the GUI asks for curves, short-lived worker *)
(* threads design them, the audio loop takes the newest and crossfades.      *)
(* A curve is its switch, its preamp, whether its bands are flat and the     *)
(* peak of their response, in dB.                                            *)
EXTENDS Integers, FiniteSets

CONSTANTS
    Curves,         \* the curves there are
    Gui, Workers,   \* the window's thread and the design threads that can be made
    FadeLen,        \* frames a crossfade takes
    NoCurve,
    MaxAsked        \* requests made

VARIABLES
    saved,          \* user_config.equalizer
    draft,          \* eq_draft
    previewed,      \* eq_previewed
    asked,          \* the requests made: how many, and the last one's curve
    asking,         \* the GUI has stored a request and not yet seen to its design
    request, running,
    job,            \* what each thread does, and its design
    ready, readyFlag, report,
    playing,        \* the audio thread's Equalizer
    unseen          \* the draft was reset to the saved curve and dropped in one frame

vars == <<saved, draft, previewed, asked, asking, request, running, job, ready, readyFlag,
          report, playing, unseen>>
editor == <<saved, draft, previewed, unseen>>
control == <<request, running, job, ready, readyFlag, report>>

ConstantsOK ==
    /\ Gui \notin Workers /\ FadeLen \in Nat \ {0} /\ NoCurve \notin Curves
    /\ \A c \in Curves : c.preamp <= 0 /\ c.peak >= 0 /\ (c.flat => c.peak = 0)

Threads == Workers \union {Gui}
Gone == [at |-> "gone", design |-> NoCurve]

\* EqDesign: what the headroom leaves of the preamp, and the pass-through.
Effective(c) == c.preamp - (IF c.preamp + c.peak > 0 THEN c.preamp + c.peak ELSE 0)
Bypass(c) == ~c.on \/ (c.flat /\ Effective(c) = 0)

Default == CHOOSE c \in Curves : ~c.on /\ c.flat /\ c.preamp = 0

\* A design is the number of the request it was made for, and its curve.
Design(n, c) == [n |-> n, curve |-> c]

Init ==
    /\ saved \in Curves
    /\ draft = NoCurve /\ previewed = NoCurve /\ unseen = FALSE
    /\ asked = Design(IF saved.on THEN 1 ELSE 0, IF saved.on THEN saved ELSE Default)
    /\ asking = saved.on
    /\ request = IF saved.on THEN asked ELSE NoCurve
    /\ running = FALSE /\ job = [t \in Threads |-> Gone]
    /\ ready = NoCurve /\ readyFlag = FALSE /\ report = NoCurve
    /\ playing = [current |-> Design(0, Default), old |-> NoCurve, pos |-> 0, queued |-> NoCurve]

------------------------------------------------------------------------------
(* The editor.  EqControl::request: the curve first, then a worker unless    *)
(* one says it is running.                                                   *)
GuiFree == ~asking /\ job[Gui] = Gone

Ask(c) ==
    /\ asked.n < MaxAsked
    /\ asked' = Design(asked.n + 1, c) /\ request' = asked' /\ asking' = TRUE /\ unseen' = FALSE
    /\ UNCHANGED <<running, job, ready, readyFlag, report, playing>>
NoAsk == UNCHANGED <<asked, asking, control, playing>>

\* A frame with the card open: the draft as edited, and its preview.
Edit ==
    /\ GuiFree
    /\ draft' \in Curves /\ previewed' = draft'
    /\ draft = NoCurve => draft' = saved
    /\ IF previewed # draft' THEN Ask(draft') ELSE NoAsk /\ UNCHANGED unseen
    /\ UNCHANGED saved

\* The buttons, drawn after the preview of the same frame.
Buttons == GuiFree /\ draft # NoCurve /\ draft = previewed
Dirty == Buttons /\ draft # saved

Apply == Dirty /\ Ask(draft) /\ saved' = draft /\ UNCHANGED <<draft, previewed>>

Revert == Dirty /\ Ask(saved) /\ draft' = saved /\ previewed' = saved /\ UNCHANGED saved

ResetToFlat ==
    /\ Buttons
    /\ draft' = [Default EXCEPT !.on = draft.on] /\ draft' \in Curves
    /\ NoAsk /\ UNCHANGED <<saved, previewed, unseen>>

\* The card is closed or the window hidden to the tray.
DiscardPreview ==
    /\ GuiFree /\ draft # NoCurve
    /\ draft' = NoCurve /\ previewed' = NoCurve
    /\ IF draft # saved THEN Ask(saved) ELSE NoAsk /\ unseen' = (previewed # saved)
    /\ UNCHANGED saved

\* One worker at a time; a thread that cannot be made leaves the work to the
\* caller.
Spawn ==
    /\ asking /\ asking' = FALSE /\ running' = TRUE
    /\ IF running THEN UNCHANGED job
       ELSE \/ \E w \in Workers : job[w] = Gone /\ job' = [job EXCEPT ![w].at = "look"]
            \/ job' = [job EXCEPT ![Gui].at = "look"]
    /\ UNCHANGED <<editor, asked, request, ready, readyFlag, report, playing>>

------------------------------------------------------------------------------
(* design_worker and, in steps of its own, design_pending.                   *)
To(t, where) == job' = [job EXCEPT ![t].at = where]

\* The request is taken; with none, the worker says it is not running.  The
\* GUI's own design ends after one.
TakeRequest(t) ==
    /\ job[t].at = "look" /\ request' = NoCurve
    /\ IF request = NoCurve THEN To(t, "release")
       ELSE job' = [job EXCEPT ![t] = [at |-> "slot", design |-> request]]
    /\ UNCHANGED <<running, ready, readyFlag, report>>

Publish(t) ==
    /\ job[t].at = "slot" /\ To(t, "flag")
    /\ report' = job[t].design.curve /\ ready' = job[t].design
    /\ UNCHANGED <<request, running, readyFlag>>

RaiseFlag(t) ==
    /\ job[t].at = "flag" /\ readyFlag' = TRUE
    /\ job' = [job EXCEPT ![t] = [at |-> IF t = Gui THEN "release" ELSE "look", design |-> NoCurve]]
    /\ UNCHANGED <<request, running, ready, report>>

Release(t) ==
    /\ job[t].at = "release" /\ running' = FALSE
    /\ To(t, IF t = Gui THEN "gone" ELSE "recheck")
    /\ UNCHANGED <<request, ready, readyFlag, report>>

\* A request that came in between is seen to by whoever claims it first.
Recheck(t) ==
    /\ job[t].at = "recheck"
    /\ To(t, IF request = NoCurve THEN "gone" ELSE "reclaim")
    /\ UNCHANGED <<request, running, ready, readyFlag, report>>

Reclaim(t) ==
    /\ job[t].at = "reclaim" /\ running' = TRUE
    /\ To(t, IF running THEN "gone" ELSE "look")
    /\ UNCHANGED <<request, ready, readyFlag, report>>

ThreadStep(t) ==
    /\ \/ TakeRequest(t) \/ Publish(t) \/ RaiseFlag(t)
       \/ Release(t) \/ Recheck(t) \/ Reclaim(t)
    /\ UNCHANGED <<editor, asked, asking, playing>>

------------------------------------------------------------------------------
(* The audio thread: take_ready and set_design before each packet, and the   *)
(* packet's frames.                                                          *)
\* A mutant of SetDesign: a design that comes in mid-fade starts its own at once.
SetDesignAtOnce(e, d) ==
    IF d.curve = e.current.curve \/ (Bypass(d.curve) /\ Bypass(e.current.curve)) THEN e
    ELSE [e EXCEPT !.current = d, !.old = e.current, !.pos = 0]

SetDesign(e, d) ==
    IF e.old # NoCurve THEN [e EXCEPT !.queued = d]
    ELSE IF d.curve = e.current.curve \/ (Bypass(d.curve) /\ Bypass(e.current.curve)) THEN e
    ELSE [e EXCEPT !.current = d, !.old = e.current, !.pos = 0]

\* The lock is held for an assignment at a time: found taken, the flag stays.
TakeReady ==
    /\ readyFlag /\ readyFlag' = FALSE /\ ready' = NoCurve
    /\ playing' = IF ready = NoCurve THEN playing ELSE SetDesign(playing, ready)
    /\ UNCHANGED <<editor, asked, asking, request, running, job, report>>

\* One frame of a fade; at its end a design that waited is next.
FadeFrame ==
    /\ playing.old # NoCurve
    /\ LET moved == [playing EXCEPT !.pos = @ + 1]
           ended == [moved EXCEPT !.old = NoCurve, !.queued = NoCurve]
       IN playing' = IF moved.pos < FadeLen THEN moved
                     ELSE IF playing.queued = NoCurve THEN ended
                     ELSE SetDesign(ended, playing.queued)
    /\ UNCHANGED <<editor, asked, asking, control>>

Next ==
    \/ Edit \/ Apply \/ Revert \/ ResetToFlat \/ DiscardPreview \/ Spawn
    \/ \E t \in Threads : ThreadStep(t)
    \/ TakeReady \/ FadeFrame

AudioStep == TakeReady \/ FadeFrame

Spec ==
    /\ Init /\ [][Next]_vars
    /\ WF_vars(Spawn) /\ WF_vars(TakeReady) /\ WF_vars(FadeFrame)
    /\ \A t \in Threads : WF_vars(ThreadStep(t))

------------------------------------------------------------------------------
Same(c, d) == c = d \/ (Bypass(c) /\ Bypass(d))

\* What of each curve is heard, in FadeLen-ths; curves that pass the samples
\* through are one.
Heard(e, c) ==
    (IF ~Same(e.current.curve, c) THEN 0 ELSE IF e.old = NoCurve THEN FadeLen ELSE e.pos)
    + (IF e.old = NoCurve \/ ~Same(e.old.curve, c) THEN 0 ELSE FadeLen - e.pos)

\* No curve comes or goes by more than a frame's share of the fade, whenever
\* in a fade the next design comes.
NoClick ==
    [][\A c \in Curves :
          Heard(playing', c) - Heard(playing, c) \in {-1, 0, 1}]_vars

\* A design never gives way to an older one, whichever threads made the two.
NewestWins ==
    [][/\ playing'.current.n >= playing.current.n
       /\ report' # report => report' = asked.curve \/ request # NoCurve \/ asking]_vars

\* One thread designs at a time.
OneDesigner ==
    Cardinality({t \in Threads : job[t].at \in {"look", "slot", "flag", "release"}}) <= 1

\* With the card closed or the window hidden, what was last asked for is the
\* saved curve (unless that draft was reset in the very frame before).
NothingUnseen == draft = NoCurve /\ ~unseen => Same(asked.curve, saved)

\* The last curve asked for is the one that comes to play, and its headroom
\* the one shown.
Settled ==
    /\ playing.old = NoCurve /\ Same(playing.current.curve, asked.curve)
    /\ asked.n > 0 => report = asked.curve

\* At the peak of its response no design that plays goes over full scale.
WithinScale == Effective(playing.current.curve) + playing.current.curve.peak <= 0

EqualizerKept == OneDesigner /\ NothingUnseen /\ WithinScale
==============================================================================
