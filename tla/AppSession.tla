------------------------------ MODULE AppSession ------------------------------
(***************************************************************************)
(* Which speaker the service plays to: `App` of app.rs.  Several threads   *)
(* select a speaker (the window, the tray, the web API, the drop watchdog, *)
(* auto-connect, the reconnect at launch, the end of a PIN pairing), while *)
(* others disable streaming, forget the speaker or turn Sendspin off.      *)
(*                                                                         *)
(* `session` is read and written under its own lock, so one critical       *)
(* section of the code is one action here; a network call (bringing a      *)
(* session up, stopping one) is an action of its own, before or after      *)
(* which anything else may happen.  `connecting` is the slot one select    *)
(* holds at a time.  A worker thread that a select spawns is modelled by   *)
(* the thread that spawned it.                                             *)
(***************************************************************************)
EXTENDS Naturals, FiniteSets

CONSTANTS
    Speakers,          \* the devices
    SendspinSpeakers,  \* those reached with Sendspin
    PinSpeakers,       \* those that ask for a PIN until they are paired
    Users,             \* threads that act for the user: window, tray, web API
    Background,        \* background threads of this instance
    Launches,          \* how launch may reconnect the saved speaker
    MaxOps,            \* bound: user operations started
    None

ASSUME SpeakersAssumption ==
    SendspinSpeakers \subseteq Speakers /\ PinSpeakers \subseteq Speakers /\ None \notin Speakers
ASSUME ThreadsAssumption ==
    /\ Background \subseteq {"watchdog", "auto", "launch", "pin"}
    /\ Users \cap {"watchdog", "auto", "launch", "pin", None} = {}
    /\ None \notin Background
ASSUME LaunchesAssumption == Launches \subseteq {"none", "sendspin", "pair"}
ASSUME MaxOpsAssumption == MaxOps \in Nat

Threads == Users \cup Background

VARIABLES
    streaming,   \* App::streaming_enabled
    sendspin,    \* user_config.sendspin.enabled
    session,     \* App::session
    connecting,  \* App::connecting: the thread holding the slot, or None
    last,        \* App::last_speaker_id
    saved,       \* user_config.last_speaker_id
    picked,      \* user_pick_count() moved since launch looked at it
    tried,       \* auto-connect's speakers already tried
    ceremony,    \* App::pin_ceremony: the speaker being paired and the stage
    paired,      \* speakers with a stored PIN pairing
    promised,    \* Enable answered "the connect in progress will bind"
    pc, req,     \* per thread: where it is, and what it is selecting
    made,        \* per thread: the session it has just brought up
    old,         \* per thread: the session it took and is stopping
    ops          \* user operations left

vars == <<streaming, sendspin, session, connecting, last, saved, picked, tried,
          ceremony, paired, promised, pc, req, made, old, ops>>
flags == <<streaming, sendspin, picked, tried, ceremony, paired, promised>>
memory == <<last, saved>>
work == <<req, made, old>>

\* An established session: whose it is, who brought it up, and whether it
\* still plays (is_dead, final_fault, ended_by_speaker).
Session == [spk : Speakers, by : Threads, st : {"live", "dead", "final", "ended"}]
IsDead == {"dead", "final"}

\* A pairing ceremony: the speaker, and what its modal shows or was answered.
Ceremony == [id : Speakers, stage : {"starting", "awaiting", "entered", "cancelled"}]
ASSUME NoneAssumption == None \notin Ceremony

\* What a select was called with.
Request == [id : Speakers \cup {None}, choice : BOOLEAN, interactive : BOOLEAN,
            onlyIfIdle : BOOLEAN, unlessPicked : BOOLEAN]
Select(id, choice, interactive) ==
    [id |-> id, choice |-> choice, interactive |-> interactive,
     onlyIfIdle |-> FALSE, unlessPicked |-> FALSE]
NoRequest == Select(None, FALSE, FALSE)
Reconnect(id) == [Select(id, FALSE, FALSE) EXCEPT !.unlessPicked = TRUE]

\* What a thread holding the slot is doing in select_speaker_inner.
Connecting == {"enable", "guard", "same", "takeSame", "stopSame", "bring", "swap",
               "stopOld", "decide", "discard", "refuse", "remember", "save", "release", "failed"}
Steps == Connecting \cup
    {"idle", "claim", "done",
     "offTake", "offStop", "onCheck", "onLast",
     "fgTake", "fgStop", "fgLast", "fgSave", "spTake", "spStop",
     "wdStop", "wdGrace", "wdConfirm", "wdWait", "laWait", "paWait", "paPick",
     "pinStart", "pinAwait", "pinClaim", "pinSetup", "pinAlone", "pinWait"}

TypeOK ==
    /\ streaming \in BOOLEAN /\ sendspin \in BOOLEAN
    /\ picked \in BOOLEAN /\ promised \in BOOLEAN
    /\ session \in Session \cup {None}
    /\ connecting \in Threads \cup {None}
    /\ last \in Speakers \cup {None} /\ saved \in Speakers \cup {None}
    /\ tried \subseteq Speakers /\ paired \subseteq Speakers
    /\ ceremony \in Ceremony \cup {None}
    /\ pc \in [Threads -> Steps]
    /\ req \in [Threads -> Request]
    /\ \A t \in Threads : pc[t] \in Connecting \cup {"claim", "laWait", "pinWait"}
            => req[t].id \in Speakers
    /\ made \in [Threads -> Session \cup {None}]
    /\ old \in [Threads -> Session \cup {None}]
    /\ ops \in 0..MaxOps

Init ==
    /\ streaming = TRUE /\ sendspin \in BOOLEAN
    /\ session = None /\ connecting = None /\ ceremony = None
    /\ saved \in Speakers \cup {None} /\ last = saved
    /\ picked = FALSE /\ promised = FALSE /\ tried = {} /\ paired \in SUBSET PinSpeakers
    /\ made = [t \in Threads |-> None] /\ old = [t \in Threads |-> None]
    /\ ops = MaxOps
    /\ \E l \in Launches :
          LET sendspinPlan == l = "sendspin" /\ sendspin /\ saved \in SendspinSpeakers
              pairPlan == l = "pair" /\ saved \in Speakers \ SendspinSpeakers
          IN  /\ pc = [t \in Threads |->
                    IF t # "launch" THEN "idle"
                    ELSE IF sendspinPlan THEN "laWait"
                    ELSE IF pairPlan THEN "paWait" ELSE "done"]
              /\ req = [t \in Threads |->
                    IF t = "launch" /\ sendspinPlan THEN Reconnect(saved) ELSE NoRequest]

Goto(t, where) == pc' = [pc EXCEPT ![t] = where]

\* Where a thread goes when its select is over.
Home(t) == IF t = "launch" THEN "done" ELSE "idle"

\* session.take(): the taker owns it and will stop it.
Take(t) == session' = None /\ old' = [old EXCEPT ![t] = session]
-----------------------------------------------------------------------------
(* Claiming the slot: select_speaker_async_full and select_speaker.        *)

\* A mutant of Refused: a connect in flight is not looked at.
RefusedNever(t) ==
    \/ req[t].onlyIfIdle /\ connecting = None /\ session # None
    \/ req[t].unlessPicked /\ picked

\* Every reason a select gives up before it holds the slot.
Refused(t) ==
    \/ req[t].onlyIfIdle /\ connecting = None /\ session # None
    \/ req[t].unlessPicked /\ picked
    \/ connecting # None

Claim(t) ==
    /\ pc[t] = "claim"
    /\ IF Refused(t)
         THEN /\ Goto(t, IF t = "watchdog" THEN "wdWait" ELSE Home(t))
              /\ UNCHANGED connecting
         ELSE /\ connecting' = t
              /\ Goto(t, "enable")
    /\ UNCHANGED <<flags, session, memory, work, ops>>
-----------------------------------------------------------------------------
(* select_speaker_inner, by the thread holding the slot.                   *)

\* A choice of the user turns streaming on before anything else.
EnableForChoice(t) ==
    /\ pc[t] = "enable"
    /\ streaming' = (streaming \/ req[t].choice)
    /\ Goto(t, "guard")
    /\ UNCHANGED <<sendspin, picked, tried, ceremony, paired, promised, session,
                   connecting, memory, work, ops>>

PairingNow(id) == ceremony # None /\ ceremony.id = id

GuardCeremony(t) ==
    /\ pc[t] = "guard"
    /\ Goto(t, IF PairingNow(req[t].id) THEN "failed" ELSE "same")
    /\ UNCHANGED <<flags, session, connecting, memory, work, ops>>

\* Is this speaker the one already bound?  Then that session goes first.
LookSame(t) ==
    /\ pc[t] = "same"
    /\ Goto(t, IF session # None /\ session.spk = req[t].id THEN "takeSame" ELSE "bring")
    /\ UNCHANGED <<flags, session, connecting, memory, work, ops>>

TakeSame(t) ==
    /\ pc[t] = "takeSame"
    /\ Take(t)
    /\ Goto(t, IF session = None THEN "bring" ELSE "stopSame")
    /\ UNCHANGED <<flags, connecting, memory, req, made, ops>>

StopSame(t) ==
    /\ pc[t] = "stopSame"
    /\ old' = [old EXCEPT ![t] = None]
    /\ Goto(t, "bring")
    /\ UNCHANGED <<flags, session, connecting, memory, req, made, ops>>

NeedsPin(id) == id \in PinSpeakers \ paired

BringUp(t) ==
    /\ pc[t] = "bring"
    /\ ~NeedsPin(req[t].id)
    /\ req[t].id \in SendspinSpeakers => sendspin
    /\ made' = [made EXCEPT ![t] = [spk |-> req[t].id, by |-> t, st |-> "live"]]
    /\ Goto(t, "swap")
    /\ UNCHANGED <<flags, session, connecting, memory, req, old, ops>>

\* The speaker is unreachable, refuses, or its protocol is switched off.
BringUpFails(t) ==
    /\ pc[t] = "bring"
    /\ Goto(t, "failed")
    /\ UNCHANGED <<flags, session, connecting, memory, work, ops>>

\* begin_pin_pairing: only a click in the window starts a ceremony, and only
\* one runs at a time.  Bound: the last ceremony's thread has ended.
BringUpNeedsPin(t) ==
    /\ pc[t] = "bring"
    /\ NeedsPin(req[t].id)
    /\ IF req[t].interactive /\ ceremony = None /\ "pin" \in Background /\ pc["pin"] = "idle"
         THEN /\ ceremony' = [id |-> req[t].id, stage |-> "starting"]
              /\ pc' = [pc EXCEPT ![t] = "failed", !["pin"] = "pinStart"]
         ELSE Goto(t, "failed") /\ UNCHANGED ceremony
    /\ UNCHANGED <<streaming, sendspin, picked, tried, paired, promised, session,
                   connecting, memory, work, ops>>

\* A mutant of MayBind: a choice of the user needs no second look.
MayBindSendspin(s) == s.spk \in SendspinSpeakers => sendspin

\* Both flags are read under the session lock: streaming was not disabled
\* meanwhile, and the speaker's protocol is still on.
MayBind(s) == streaming /\ (s.spk \in SendspinSpeakers => sendspin)

\* The rest of the critical section once no session is left in the way.
Decide(t) ==
    IF MayBind(made[t])
      THEN /\ session' = made[t]
           /\ made' = [made EXCEPT ![t] = None]
           /\ promised' = FALSE
           /\ Goto(t, "remember")
      ELSE /\ Goto(t, IF streaming THEN "refuse" ELSE "discard")
           /\ UNCHANGED <<session, made, promised>>

\* A mutant of Swap: the old session is dropped by the bind, never stopped.
Overwrite(t) ==
    /\ pc[t] = "swap"
    /\ Decide(t)
    /\ UNCHANGED <<streaming, sendspin, picked, tried, ceremony, paired, connecting,
                   memory, req, old, ops>>

Swap(t) ==
    /\ pc[t] = "swap"
    /\ IF session # None
         THEN /\ Take(t)
              /\ Goto(t, "stopOld")
              /\ UNCHANGED <<made, promised>>
         ELSE Decide(t) /\ UNCHANGED old
    /\ UNCHANGED <<streaming, sendspin, picked, tried, ceremony, paired, connecting,
                   memory, req, ops>>

StopOld(t) ==
    /\ pc[t] = "stopOld"
    /\ old' = [old EXCEPT ![t] = None]
    /\ Goto(t, "decide")
    /\ UNCHANGED <<flags, session, connecting, memory, req, made, ops>>

DecideAfterStop(t) ==
    /\ pc[t] = "decide"
    /\ Decide(t)
    /\ UNCHANGED <<streaming, sendspin, picked, tried, ceremony, paired, connecting,
                   memory, req, old, ops>>

\* The new session is not wanted any more: stop it and give up, with an
\* error only when its protocol was switched off.
Discard(t) ==
    /\ pc[t] \in {"discard", "refuse"}
    /\ made' = [made EXCEPT ![t] = None]
    /\ Goto(t, IF pc[t] = "refuse" THEN "failed" ELSE "release")
    /\ UNCHANGED <<flags, session, connecting, memory, req, old, ops>>

Remember(t) ==
    /\ pc[t] = "remember"
    /\ last' = req[t].id
    /\ Goto(t, "save")
    /\ UNCHANGED <<flags, session, connecting, saved, work, ops>>

Save(t) ==
    /\ pc[t] = "save"
    /\ saved' = req[t].id
    /\ Goto(t, "release")
    /\ UNCHANGED <<flags, session, connecting, last, work, ops>>

\* The slot is freed; an error is then shown to the user.
Release(t) ==
    /\ pc[t] \in {"release", "failed"}
    /\ connecting' = None
    /\ promised' = (promised /\ pc[t] = "release")
    /\ req' = [req EXCEPT ![t] = NoRequest]
    /\ Goto(t, Home(t))
    /\ UNCHANGED <<streaming, sendspin, picked, tried, ceremony, paired, session,
                   memory, made, old, ops>>

ConnectStep(t) ==
    \/ Claim(t) \/ EnableForChoice(t) \/ GuardCeremony(t)
    \/ LookSame(t) \/ TakeSame(t) \/ StopSame(t)
    \/ BringUp(t) \/ BringUpFails(t) \/ BringUpNeedsPin(t)
    \/ Swap(t) \/ StopOld(t) \/ DecideAfterStop(t)
    \/ Discard(t) \/ Remember(t) \/ Save(t) \/ Release(t)
-----------------------------------------------------------------------------
(* The user: each operation begins on an idle thread.                      *)

Begin(u) == pc[u] = "idle" /\ ops > 0 /\ ops' = ops - 1

\* select_speaker_async (a click, interactive) and select_speaker (the web
\* API): the pick is counted before the slot is claimed.
Pick(u) == \E id \in Speakers, interactive \in BOOLEAN :
    /\ Begin(u)
    /\ picked' = TRUE
    /\ req' = [req EXCEPT ![u] = Select(id, TRUE, interactive)]
    /\ Goto(u, "claim")
    /\ UNCHANGED <<streaming, sendspin, tried, ceremony, paired, promised, session,
                   connecting, memory, made, old>>

\* set_streaming_enabled(false): the flag first, then the session.
Disable(u) ==
    /\ Begin(u)
    /\ streaming' = FALSE
    /\ promised' = FALSE
    /\ IF streaming THEN Goto(u, "offTake") ELSE UNCHANGED pc
    /\ UNCHANGED <<sendspin, picked, tried, ceremony, paired, session, connecting,
                   memory, work>>

\* A thread that ends a session: take it under the lock, stop it after.
TakeAnd(t, from, stop, none) ==
    /\ pc[t] = from
    /\ Take(t)
    /\ Goto(t, IF session = None THEN none ELSE stop)
    /\ UNCHANGED <<flags, connecting, memory, req, made, ops>>

StopAnd(t, from, then) ==
    /\ pc[t] = from
    /\ old' = [old EXCEPT ![t] = None]
    /\ Goto(t, then)
    /\ UNCHANGED <<flags, session, connecting, memory, req, made, ops>>

DisableTakes(u) == TakeAnd(u, "offTake", "offStop", "idle")

DisableStops(u) == StopAnd(u, "offStop", "idle")

\* set_streaming_enabled(true).
Enable(u) ==
    /\ Begin(u)
    /\ streaming' = TRUE
    /\ IF streaming THEN UNCHANGED pc ELSE Goto(u, "onCheck")
    /\ UNCHANGED <<sendspin, picked, tried, ceremony, paired, promised, session,
                   connecting, memory, work>>

EnableChecks(u) ==
    /\ pc[u] = "onCheck"
    /\ promised' = (connecting # None)
    /\ Goto(u, IF connecting # None THEN "idle" ELSE "onLast")
    /\ UNCHANGED <<streaming, sendspin, picked, tried, ceremony, paired, session,
                   connecting, memory, work, ops>>

EnableReselects(u) ==
    /\ pc[u] = "onLast"
    /\ IF last = None
         THEN Goto(u, "idle") /\ UNCHANGED <<picked, req>>
         ELSE /\ picked' = TRUE
              /\ req' = [req EXCEPT ![u] = Select(last, TRUE, FALSE)]
              /\ Goto(u, "claim")
    /\ UNCHANGED <<streaming, sendspin, tried, ceremony, paired, promised, session,
                   connecting, memory, made, old, ops>>

\* forget_saved_speaker.
Forget(u) ==
    /\ Begin(u)
    /\ streaming' = FALSE
    /\ promised' = FALSE
    /\ Goto(u, "fgTake")
    /\ UNCHANGED <<sendspin, picked, tried, ceremony, paired, session, connecting,
                   memory, work>>

ForgetTakes(u) == TakeAnd(u, "fgTake", "fgStop", "fgLast")
ForgetStops(u) == StopAnd(u, "fgStop", "fgLast")

ForgetLast(u) ==
    /\ pc[u] = "fgLast"
    /\ last' = None
    /\ Goto(u, "fgSave")
    /\ UNCHANGED <<flags, session, connecting, saved, work, ops>>

ForgetSaves(u) ==
    /\ pc[u] = "fgSave"
    /\ saved' = None
    /\ Goto(u, "idle")
    /\ UNCHANGED <<flags, session, connecting, last, work, ops>>

\* set_sendspin_enabled: the setting is saved first, the session looked for
\* after, and taken only if it is a Sendspin one.
SendspinOn(u) ==
    /\ Begin(u)
    /\ sendspin' = TRUE
    /\ UNCHANGED <<streaming, picked, tried, ceremony, paired, promised, session,
                   connecting, memory, pc, work>>

SendspinOff(u) ==
    /\ Begin(u)
    /\ sendspin' = FALSE
    /\ Goto(u, "spTake")
    /\ UNCHANGED <<streaming, picked, tried, ceremony, paired, promised, session,
                   connecting, memory, work>>

SendspinTakes(u) ==
    /\ pc[u] = "spTake"
    /\ IF session # None /\ session.spk \in SendspinSpeakers
         THEN Take(u) /\ Goto(u, "spStop")
         ELSE Goto(u, "idle") /\ UNCHANGED <<session, old>>
    /\ UNCHANGED <<flags, connecting, memory, req, made, ops>>

SendspinStops(u) == StopAnd(u, "spStop", "idle")

\* submit_pin: the modal's answer, a PIN or a cancel.
SubmitPin(u) ==
    /\ ceremony # None /\ ceremony.stage = "awaiting"
    /\ Begin(u)
    /\ \E answer \in {"entered", "cancelled"} : ceremony' = [ceremony EXCEPT !.stage = answer]
    /\ UNCHANGED <<streaming, sendspin, picked, tried, paired, promised, session,
                   connecting, memory, pc, work>>

UserStep(u) ==
    \/ Pick(u) \/ Disable(u) \/ DisableTakes(u) \/ DisableStops(u)
    \/ Enable(u) \/ EnableChecks(u) \/ EnableReselects(u)
    \/ Forget(u) \/ ForgetTakes(u) \/ ForgetStops(u) \/ ForgetLast(u) \/ ForgetSaves(u)
    \/ SendspinOn(u) \/ SendspinOff(u) \/ SendspinTakes(u) \/ SendspinStops(u)
    \/ SubmitPin(u)
-----------------------------------------------------------------------------
(* The drop watchdog: spawn_reconnect_watchdog, with reconnecting on.      *)

\* A mutant of WatchdogEnds: a session its speaker ended is left to the
\* reconnect, which only looks at dropped ones.
WatchdogEndsFinal ==
    /\ pc["watchdog"] = "idle"
    /\ session # None /\ session.st = "final"
    /\ Take("watchdog")
    /\ Goto("watchdog", "wdStop")
    /\ UNCHANGED <<flags, connecting, memory, req, made, ops>>

\* A session its speaker ended, or one that failed for good, is ended here.
\* The look and the take share one critical section.
WatchdogEnds ==
    /\ pc["watchdog"] = "idle"
    /\ session # None /\ session.st \in {"ended", "final"}
    /\ Take("watchdog")
    /\ Goto("watchdog", "wdStop")
    /\ UNCHANGED <<flags, connecting, memory, req, made, ops>>

WatchdogStops == StopAnd("watchdog", "wdStop", "idle")

\* The three looks that start a reconnect; each is repeated after the grace.
WatchdogSees ==
    /\ pc["watchdog"] = "idle"
    /\ streaming /\ connecting = None
    /\ session # None /\ session.st \in IsDead
    /\ req' = [req EXCEPT !["watchdog"] = Select(session.spk, FALSE, FALSE)]
    /\ Goto("watchdog", "wdGrace")
    /\ UNCHANGED <<flags, session, connecting, memory, made, old, ops>>

\* Five seconds, cut short by a Disable.
WatchdogWaits ==
    /\ pc["watchdog"] = "wdGrace"
    /\ Goto("watchdog", IF streaming THEN "wdConfirm" ELSE "idle")
    /\ UNCHANGED <<flags, session, connecting, memory, work, ops>>

StillDead == session # None /\ session.st \in IsDead /\ session.spk = req["watchdog"].id

WatchdogConfirms ==
    /\ pc["watchdog"] = "wdConfirm"
    /\ Goto("watchdog", IF StillDead THEN "claim" ELSE "idle")
    /\ UNCHANGED <<flags, session, connecting, memory, work, ops>>

\* After its select the watchdog waits for whatever connect is running.
WatchdogAwaits ==
    /\ pc["watchdog"] = "wdWait"
    /\ connecting = None
    /\ Goto("watchdog", "idle")
    /\ UNCHANGED <<flags, session, connecting, memory, work, ops>>

WatchdogStep == WatchdogEnds \/ WatchdogStops \/ WatchdogSees \/ WatchdogWaits
                \/ WatchdogConfirms \/ WatchdogAwaits
-----------------------------------------------------------------------------
(* spawn_auto_connect: speakers set to connect whenever they appear, here  *)
(* every speaker.                                                          *)

AutoSees == \E id \in Speakers \ tried :
    /\ pc["auto"] = "idle"
    /\ session = None /\ connecting = None /\ streaming /\ ceremony = None
    /\ tried' = tried \cup {id}
    /\ req' = [req EXCEPT !["auto"] = [Select(id, FALSE, FALSE) EXCEPT !.onlyIfIdle = TRUE]]
    /\ Goto("auto", "claim")
    /\ UNCHANGED <<streaming, sendspin, picked, ceremony, paired, promised, session,
                   connecting, memory, made, old, ops>>

\* The speaker drops out of the list and comes back.
Reappears == \E id \in tried :
    /\ pc["auto"] = "idle"
    /\ tried' = tried \ {id}
    /\ UNCHANGED <<streaming, sendspin, picked, ceremony, paired, promised, session,
                   connecting, memory, pc, work, ops>>
-----------------------------------------------------------------------------
(* Launch: reconnect_saved_sendspin_speaker, or the stereo-pair wait of    *)
(* main.rs.                                                                *)

\* sendspin_launch_step: give up after a pick or when the plan changed
\* (Sendspin off, another speaker saved), select once discovery has seen
\* the speaker.
LaunchSendspin ==
    /\ pc["launch"] = "laWait"
    /\ Goto("launch", IF picked \/ ~sendspin \/ saved # req["launch"].id
                        THEN "done" ELSE "claim")
    /\ UNCHANGED <<flags, session, connecting, memory, work, ops>>

\* The pair is complete; is anything bound or connecting?
LaunchPairSeen ==
    /\ pc["launch"] = "paWait"
    /\ Goto("launch", IF session # None \/ connecting # None THEN "done" ELSE "paPick")
    /\ UNCHANGED <<flags, session, connecting, memory, work, ops>>

\* select_speaker_async: launch picks as if the user had clicked.
LaunchPairPicks == \E id \in Speakers \ SendspinSpeakers :
    /\ pc["launch"] = "paPick"
    /\ picked' = TRUE
    /\ req' = [req EXCEPT !["launch"] = Select(id, TRUE, TRUE)]
    /\ Goto("launch", "claim")
    /\ UNCHANGED <<streaming, sendspin, tried, ceremony, paired, promised, session,
                   connecting, memory, made, old, ops>>

LaunchStep == LaunchSendspin \/ LaunchPairSeen \/ LaunchPairPicks
-----------------------------------------------------------------------------
(* The PIN ceremony: the thread of begin_pin_pairing.                      *)

EndCeremony == ceremony' = None /\ Goto("pin", "idle")

PinShown ==
    /\ pc["pin"] = "pinStart"
    /\ \/ ceremony' = [ceremony EXCEPT !.stage = "awaiting"] /\ Goto("pin", "pinAwait")
       \/ EndCeremony
    /\ UNCHANGED <<streaming, sendspin, picked, tried, paired, promised, session,
                   connecting, memory, work, ops>>

\* An answer, a cancel, or two minutes without either (which may be up just
\* as the answer comes).
PinAnswered ==
    /\ pc["pin"] = "pinAwait"
    /\ \/ ceremony.stage = "entered" /\ Goto("pin", "pinClaim") /\ UNCHANGED ceremony
       \/ EndCeremony
    /\ UNCHANGED <<streaming, sendspin, picked, tried, paired, promised, session,
                   connecting, memory, work, ops>>

\* The banner is the slot, when it is free; otherwise pairing goes on without.
PinClaims ==
    /\ pc["pin"] = "pinClaim"
    /\ IF connecting = None
         THEN connecting' = "pin" /\ Goto("pin", "pinSetup")
         ELSE Goto("pin", "pinAlone") /\ UNCHANGED connecting
    /\ UNCHANGED <<flags, session, memory, work, ops>>

\* Pair-setup is over; the slot is released only if it was claimed.
PinSetup(good) ==
    /\ connecting' = IF pc["pin"] = "pinSetup" THEN None ELSE connecting
    /\ promised' = IF pc["pin"] = "pinSetup" THEN FALSE ELSE promised
    /\ ceremony' = None
    /\ IF good
         THEN /\ paired' = paired \cup {ceremony.id}
              /\ req' = [req EXCEPT !["pin"] = Select(ceremony.id, FALSE, FALSE)]
              /\ Goto("pin", "pinWait")
         ELSE Goto("pin", "idle") /\ UNCHANGED <<paired, req>>

PinPairs == \E good \in BOOLEAN :
    /\ pc["pin"] \in {"pinSetup", "pinAlone"}
    /\ PinSetup(good)
    /\ UNCHANGED <<streaming, sendspin, picked, tried, session, memory, made, old, ops>>

\* Wait out a connect in flight, up to 30 s.
PinSelects ==
    /\ pc["pin"] = "pinWait"
    /\ Goto("pin", "claim")
    /\ UNCHANGED <<flags, session, connecting, memory, work, ops>>

PinStep == PinShown \/ PinAnswered \/ PinClaims \/ PinPairs \/ PinSelects
-----------------------------------------------------------------------------
\* The bound speaker drops, fails for good, or ends the session itself.
SessionFails == \E how \in {"dead", "final", "ended"} :
    /\ session # None /\ session.st = "live"
    /\ how = "ended" => session.spk \in SendspinSpeakers
    /\ session' = [session EXCEPT !.st = how]
    /\ UNCHANGED <<flags, connecting, memory, pc, work, ops>>

Next ==
    \/ \E t \in Threads : ConnectStep(t)
    \/ \E u \in Users : UserStep(u)
    \/ "watchdog" \in Background /\ WatchdogStep
    \/ "auto" \in Background /\ (AutoSees \/ Reappears)
    \/ "launch" \in Background /\ LaunchStep
    \/ "pin" \in Background /\ PinStep
    \/ SessionFails

Spec == Init /\ [][Next]_vars

\* Every thread runs when it can, and every network call returns.
Fairness ==
    /\ \A t \in Threads : WF_vars(ConnectStep(t))
    /\ \A u \in Users : WF_vars(UserStep(u) /\ ops' = ops)
    /\ WF_vars("watchdog" \in Background /\ WatchdogStep)
    /\ WF_vars("pin" \in Background /\ PinStep)
-----------------------------------------------------------------------------
(* Properties.                                                             *)

\* At most one thread is in the middle of a select, and the slot names it;
\* the pairing banner counts as one.
OneSelect == \A t \in Threads :
    pc[t] \in Connecting \cup {"pinSetup"} <=> connecting = t

\* Off means unbound.  With streaming off a session is bound only until the
\* Disable or Forget that turned it off gets to it, and with Sendspin off a
\* Sendspin session only until the switch does: a connect that finishes
\* meanwhile does not bind.
OffMeansUnbound ==
    /\ ~streaming /\ session # None => \E u \in Users : pc[u] \in {"offTake", "fgTake"}
    /\ ~sendspin /\ session # None /\ session.spk \in SendspinSpeakers
           => \E u \in Users : pc[u] = "spTake"

\* A bound session is never overwritten: it is taken, and so stopped, first.
TakenBeforeReplaced ==
    [][session # None /\ session' # None => session' = [session EXCEPT !.st = session'.st]]_vars

\* An automatic connect never ends a session that someone else has bound, nor
\* does the launch reconnect of a Sendspin speaker end one the user picked,
\* however the two are timed.
AutomaticYields ==
    /\ "auto" \in Background => pc["auto"] \notin {"stopSame", "stopOld"}
    /\ "launch" \in Background =>
           ~(old["launch"] # None /\ old["launch"].by \in Users /\ ~req["launch"].choice)

\* A PIN pair-setup has its device to itself: no select is bringing up a
\* session to the speaker being paired.
PairingAlone == \A t \in Threads :
    pc[t] \in {"same", "takeSame", "stopSame", "bring", "swap", "stopOld"}
        => ~(ceremony # None /\ ceremony.id = req[t].id)

\* One select at a time, and none of a device whose pairing ceremony is on.
OneAtATime == OneSelect /\ PairingAlone

\* A session is taken before another is bound, and not by an automatic connect
\* when it was bound by someone else.
BindsInTurn == TakenBeforeReplaced /\ []AutomaticYields

\* A select ends, and with it the slot is freed.
SelectsEnd == \A t \in Threads : []<>(connecting # t)

\* With streaming left on, a session that dropped does not stay bound: it is
\* replaced, or given up.
DropsAreHandled == []<>(session = None \/ session.st = "live")
-----------------------------------------------------------------------------
(* What the comments of the code say of it, and the code does not do.      *)

\* Enable during a connect leaves the connect to bind: no connect may then
\* end without having bound or reported an error.
EnableIsKept == promised => connecting # None

\* No session is brought up to a speaker that an older session's stop is
\* still on its way to.
StoppedBeforeStarted == \A t, u \in Threads :
    old[t] # None /\ made[u] # None => old[t].spk # made[u].spk

\* Streaming is turned on by the user only.
OnlyUsersEnable ==
    [][~streaming /\ streaming' => \E u \in Users : pc'[u] # pc[u] \/ ops' # ops]_vars

\* A reconnect only ever replaces the session that dropped.
ReconnectsOnlyDropped == "watchdog" \in Background =>
    ~(pc["watchdog"] = "stopOld" /\ old["watchdog"].st = "live")

\* Whatever is bound once nothing is under way is what Enable and the next
\* launch come back to.
BoundIsRemembered ==
    session # None /\ (\A t \in Threads : pc[t] \in {"idle", "done"})
        => last = session.spk /\ saved = session.spk
=============================================================================
