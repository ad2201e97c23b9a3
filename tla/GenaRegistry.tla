----------------------------- MODULE GenaRegistry -----------------------------
(***************************************************************************)
(* Event subscriptions to UPnP speakers.  Each session has a manager that  *)
(* subscribes as the session starts, renews or re-subscribes on a thread   *)
(* of its own, and unsubscribes when the session is stopped, which may     *)
(* come at any moment of that.  One registry holds every subscription by   *)
(* its SID; the HTTP server asks it whether a notification is wanted, and  *)
(* lets one wait whose subscription is still being made.                   *)
(***************************************************************************)
EXTENDS Naturals, Sequences, FiniteSets

CONSTANTS
    Managers,    \* one per session
    Speakers,
    Conns,       \* connections that carry notifications
    MaxSubs,     \* bound: subscriptions a manager makes
    None

\* What is assumed of the constants.
ConstantsOK == MaxSubs \in Nat /\ None \notin Managers \X Nat

Sids == Managers \X (1..MaxSubs)   \* a speaker gives each subscription a SID of its own

VARIABLES
    at,        \* [Managers -> Speakers]: whose events the session wants
    live,      \* RegistryInner::live
    pending,   \* RegistryInner::pending: managers with a SUBSCRIBE in flight
    state,     \* GenaManager::state: the SID held
    closed,    \* GenaManager::closed
    pc,        \* the manager's subscribing thread: the bring-up, then the renewer
    made,      \* subscriptions made so far
    answer,    \* the SID in the answer to a SUBSCRIBE, or of the one it replaced
    stop,      \* the thread that unsubscribes
    stopSid,   \* the SID it has taken
    known,     \* subscriptions the speakers hold
    conn,      \* [Conns -> what its thread is doing, and for which SID]
    arrived    \* the connections with a notification, in the order they came

vars == <<at, live, pending, state, closed, pc, made, answer, stop, stopSid, known, conn, arrived>>
manager == <<state, closed, made>>
stopper == <<stop, stopSid>>
registry == <<live, pending>>
server == <<conn, arrived>>

InFlight == {"asked", "answered"}
AtRest == {"none", "idle", "off"}

TypeOK ==
    /\ at \in [Managers -> Speakers]
    /\ live \subseteq Sids
    /\ pending = {m \in Managers : pc[m] \in InFlight}
    /\ state \in [Managers -> Sids \cup {None}] /\ closed \in [Managers -> BOOLEAN]
    /\ pc \in [Managers -> {"new", "stored", "registered", "check", "withdraw", "renew"}
                             \cup InFlight \cup AtRest]
    /\ made \in [Managers -> 0..MaxSubs] /\ answer \in [Managers -> Sids \cup {None}]
    /\ stop \in [Managers -> {"idle", "closed", "taken", "done"}]
    /\ stopSid \in [Managers -> Sids \cup {None}]
    /\ known \subseteq Sids
    /\ conn \in [Conns -> [does : {"idle", "check", "wait", "body", "ready"}, sid : Sids \cup {None}]]
    /\ Len(arrived) <= Cardinality(Conns)
    /\ {arrived[i] : i \in 1..Len(arrived)} = {c \in Conns : conn[c].does # "idle"}

Init ==
    /\ at \in [Managers -> Speakers]
    /\ live = {} /\ pending = {} /\ known = {}
    /\ state = [m \in Managers |-> None] /\ closed = [m \in Managers |-> FALSE]
    /\ pc = [m \in Managers |-> "new"] /\ made = [m \in Managers |-> 0]
    /\ answer = [m \in Managers |-> None]
    /\ stop = [m \in Managers |-> "idle"] /\ stopSid = [m \in Managers |-> None]
    /\ conn = [c \in Conns |-> [does |-> "idle", sid |-> None]]
    /\ arrived = <<>>

Mine(m) == {s \in live : s[1] = m}

Quiet(m) == pc[m] \in AtRest /\ stop[m] \in {"idle", "done"}
-----------------------------------------------------------------------------
(* GenaManager::subscribe.                                                 *)

\* closed is looked at, then the SUBSCRIBE noted and sent.
BeginSubscribe(m) ==
    /\ pc[m] = "new" /\ made[m] < MaxSubs
    /\ IF closed[m]
         THEN pc' = [pc EXCEPT ![m] = "idle"] /\ UNCHANGED <<pending, made>>
         ELSE /\ pending' = pending \cup {m}
              /\ made' = [made EXCEPT ![m] = @ + 1]
              /\ pc' = [pc EXCEPT ![m] = "asked"]
    /\ UNCHANGED <<at, live, state, closed, answer, stopper, known, server>>

\* The speaker subscribes us or not; its answer may be lost.
SpeakerAnswers(m) ==
    /\ pc[m] = "asked"
    /\ \/ known' = known \cup {<<m, made[m]>>} /\ answer' = [answer EXCEPT ![m] = <<m, made[m]>>]
       \/ known' = known \cup {<<m, made[m]>>} /\ answer' = [answer EXCEPT ![m] = None]
       \/ known' = known /\ answer' = [answer EXCEPT ![m] = None]
    /\ pc' = [pc EXCEPT ![m] = "answered"]
    /\ UNCHANGED <<at, registry, manager, stopper, server>>

\* A bring-up that fails to subscribe starts no renewer.
AfterFailure(m) == IF made[m] = 1 THEN "none" ELSE "idle"

PendingAfter(m) == pending \ {m}

\* finish_subscribe: out of pending and into live in one critical section.
FinishSubscribe(m) ==
    /\ pc[m] = "answered"
    /\ pending' = PendingAfter(m)
    /\ live' = IF answer[m] = None THEN live ELSE live \cup {answer[m]}
    /\ pc' = [pc EXCEPT ![m] = IF answer[m] = None THEN AfterFailure(m) ELSE "registered"]
    /\ UNCHANGED <<at, manager, answer, stopper, known, server>>

Store(m) ==
    /\ pc[m] = "registered"
    /\ state' = [state EXCEPT ![m] = answer[m]]
    /\ answer' = [answer EXCEPT ![m] = state[m]]
    /\ pc' = [pc EXCEPT ![m] = "stored"]
    /\ UNCHANGED <<at, registry, closed, made, stopper, known, server>>

Superseded(m) == {answer[m]}

RemoveOld(m) ==
    /\ pc[m] = "stored"
    /\ live' = live \ Superseded(m)
    /\ pc' = [pc EXCEPT ![m] = "check"]
    /\ UNCHANGED <<at, pending, manager, answer, stopper, known, server>>

\* A mutant of LostRace: closed is not looked at again.
LostRaceNever(m) == FALSE

\* unsubscribe() came while the SUBSCRIBE was in flight.
LostRace(m) == closed[m]

CheckClosed(m) ==
    /\ pc[m] = "check"
    /\ IF LostRace(m)
         THEN /\ answer' = [answer EXCEPT ![m] = state[m]]
              /\ state' = [state EXCEPT ![m] = None]
              /\ pc' = [pc EXCEPT ![m] = "withdraw"]
         ELSE /\ pc' = [pc EXCEPT ![m] = "idle"]
              /\ UNCHANGED <<answer, state>>
    /\ UNCHANGED <<at, registry, closed, made, stopper, known, server>>

\* What was just added is removed again, here and at the speaker.  A
\* bring-up that fails this way starts no renewer.
Withdraw(m) ==
    /\ pc[m] = "withdraw"
    /\ live' = live \ {answer[m]}
    /\ known' \in {known, known \ {answer[m]}}
    /\ pc' = [pc EXCEPT ![m] = AfterFailure(m)]
    /\ UNCHANGED <<at, pending, manager, answer, stopper, server>>
-----------------------------------------------------------------------------
(* spawn_renewer and unsubscribe.                                          *)

\* It sleeps, looks at closed and takes a copy of the state.
RenewerWakes(m) ==
    /\ pc[m] = "idle"
    /\ IF closed[m] THEN pc' = [pc EXCEPT ![m] = "off"]
       ELSE /\ state[m] # None
            /\ pc' = [pc EXCEPT ![m] = "renew"]
    /\ UNCHANGED <<at, registry, manager, answer, stopper, known, server>>

\* The speaker renews it, or it fails: the subscription has run out there,
\* or the answer is lost.
Renew(m) ==
    /\ pc[m] = "renew"
    /\ \/ pc' = [pc EXCEPT ![m] = "idle"]
       \/ pc' = [pc EXCEPT ![m] = IF closed[m] THEN "off" ELSE "new"]
    /\ UNCHANGED <<at, registry, manager, answer, stopper, known, server>>

\* The session is stopped.
Close(m) ==
    /\ stop[m] = "idle" /\ made[m] > 0
    /\ made[m] = 1 => pc[m] \notin {"asked", "answered", "registered", "stored", "check"}
    /\ closed' = [closed EXCEPT ![m] = TRUE]
    /\ stop' = [stop EXCEPT ![m] = "closed"]
    /\ UNCHANGED <<at, registry, state, pc, made, answer, stopSid, known, server>>

TakeState(m) ==
    /\ stop[m] = "closed"
    /\ stopSid' = [stopSid EXCEPT ![m] = state[m]]
    /\ state' = [state EXCEPT ![m] = None]
    /\ stop' = [stop EXCEPT ![m] = "taken"]
    /\ UNCHANGED <<at, registry, closed, pc, made, answer, known, server>>

\* Out of the registry; the speaker is told, which may fail.
Unsubscribe(m) ==
    /\ stop[m] = "taken"
    /\ live' = live \ {stopSid[m]}
    /\ known' \in {known, known \ {stopSid[m]}}
    /\ stop' = [stop EXCEPT ![m] = "done"]
    /\ UNCHANGED <<at, pending, manager, pc, answer, stopSid, server>>
-----------------------------------------------------------------------------
(* Notifications.                                                          *)

SpeakerNotifies(c) == \E s \in known :
    /\ conn[c].does = "idle"
    /\ conn' = [conn EXCEPT ![c] = [does |-> "check", sid |-> s]]
    /\ arrived' = Append(arrived, c)
    /\ UNCHANGED <<at, registry, manager, pc, answer, stopper, known>>

SubscriptionEnds == \E s \in known :
    /\ known' = known \ {s}
    /\ UNCHANGED <<at, registry, manager, pc, answer, stopper, server>>

Goes(c, does) ==
    /\ conn' = [conn EXCEPT ![c].does = does]
    /\ UNCHANGED <<at, registry, manager, pc, answer, stopper, known, arrived>>

\* The notification has been answered.
Answered(c) ==
    /\ conn' = [conn EXCEPT ![c] = [does |-> "idle", sid |-> None]]
    /\ arrived' = SelectSeq(arrived, LAMBDA d : d # c)
    /\ UNCHANGED <<at, registry, manager, pc, answer, stopper, known>>

\* A mutant of Worth: a SUBSCRIBE in flight is not looked for.
WorthNever(s) == FALSE

\* A SUBSCRIBE to the speaker it came from is in flight.
Worth(s) == \E m \in pending : at[m] = at[s[1]]

\* check, and each turn of wait_live.
Admit(c) ==
    /\ conn[c].does \in {"check", "wait"}
    /\ LET s == conn[c].sid IN
         \/ s \in live /\ Goes(c, "body")
         \/ s \notin live /\ Worth(s) /\ Goes(c, "wait")
         \/ s \notin live /\ ~Worth(s) /\ Answered(c)

\* NOTIFY_SUBSCRIBE_WAIT is over.
GiveUp(c) == conn[c].does = "wait" /\ Answered(c)

\* The body is read, for which the speaker may take its time, or is not.
ReadBody(c) == conn[c].does = "body" /\ (Goes(c, "ready") \/ Answered(c))

\* notify_lock is had and the event handed to the volume synchronisation.
Callback(c) == conn[c].does = "ready" /\ Answered(c)

Subscriber(m) ==
    \/ BeginSubscribe(m) \/ SpeakerAnswers(m) \/ FinishSubscribe(m) \/ Store(m)
    \/ RemoveOld(m) \/ CheckClosed(m) \/ Withdraw(m) \/ RenewerWakes(m) \/ Renew(m)

Stopper(m) == TakeState(m) \/ Unsubscribe(m)

Server(c) == Admit(c) \/ GiveUp(c) \/ ReadBody(c) \/ Callback(c)

Next ==
    \/ \E m \in Managers : Subscriber(m) \/ Close(m) \/ Stopper(m)
    \/ \E c \in Conns : SpeakerNotifies(c) \/ Server(c)
    \/ SubscriptionEnds

Spec == Init /\ [][Next]_vars
-----------------------------------------------------------------------------
\* A session that is stopped leaves no subscription in the registry, even
\* when the stop came while its SUBSCRIBE was in flight (subscribe's second
\* look at closed, against unsubscribe's store and take).
NoneLeaked == \A m \in Managers :
    stop[m] = "done" /\ Quiet(m) => Mine(m) = {} /\ m \notin pending

\* While its threads are at rest a session's one registered subscription is
\* the one it holds, so events of a subscription it has replaced are
\* refused and those of the one it renews are taken.
OneRegistered == \A m \in Managers :
    Quiet(m) /\ stop[m] = "idle" => Mine(m) = {state[m]} \ {None}

\* The registry holds what the managers hold: nothing after a stop, and one
\* subscription per service while a session runs.
RegistryMatches == NoneLeaked /\ OneRegistered

\* A speaker's first event may come before the answer that names its SID is
\* read: it is not turned away while that SUBSCRIBE is in flight, unless the
\* wait has run out.
EarlyEventWaits ==
    [][\A c \in Conns : \A m \in Managers :
         (pc[m] \in InFlight /\ conn[c].does = "check" /\ conn[c].sid = <<m, made[m]>>
            /\ conn'[c].does = "idle") => FALSE]_vars

\* unsubscribe: once it is done no event of the old subscription is handed
\* on.
RefusedOnceClosed ==
    [][\A c \in Conns : \A m \in Managers :
         (stop[m] = "done" /\ conn[c].does = "ready" /\ conn[c].sid[1] = m)
           => conn'[c] = conn[c]]_vars

\* Server::notify_lock: the events of a subscription are handed on in the
\* order they arrived.
InArrivalOrder ==
    [][\A i, j \in 1..Len(arrived) :
         LET c == arrived[i]  d == arrived[j] IN
         (i < j /\ conn[c].sid = conn[d].sid /\ {conn[c].does, conn[d].does} = {"ready"})
           => conn'[d] = conn[d]]_vars
=============================================================================
