---------------------------- MODULE MCAppSession ----------------------------
(* Two speakers, one of them a Sendspin speaker.  A behaviour is of one of *)
(* several scenes: which threads run beside each other, and how often the  *)
(* user does something; or, with none of these, of the event subscriptions *)
(* of two other sessions, on one speaker or two.                           *)
EXTENDS AppSession, TLC

CONSTANTS s1, s2, u1, u2, Scenes, m1, m2, g1, g2, c1

VARIABLE scene

VARIABLES
    gAt, gLive, gPending, gState, gClosed, gPc, gMade, gAnswer, gStop, gStopSid, gKnown, gConn,
    gArrived

TwoSpeakers == {s1, s2}
TwoUsers == {u1, u2}
JustS1 == {s1}
AllBackground == {"watchdog", "auto", "launch", "pin"}
AllLaunches == {"none", "sendspin", "pair"}

\* Two users beside the watchdog; one beside auto-connect and the launch; one
\* beside a PIN ceremony and auto-connect.
ManyScenes ==
    {[threads |-> {u1, u2, "watchdog"}, most |-> 3]}
    \cup {[threads |-> {u, "auto", "launch"}, most |-> 2] : u \in TwoUsers}
    \cup {[threads |-> {u, "pin", "auto"}, most |-> 3] : u \in TwoUsers}

Subscriptions == {[threads |-> {}, most |-> 0]}
AllScenes == ManyScenes \cup Subscriptions

Sessions == {m1, m2}
Publishers == {g1, g2}
Gena == INSTANCE GenaRegistry WITH
    Managers <- Sessions, Speakers <- Publishers, Conns <- {c1}, MaxSubs <- 2,
    at <- gAt, live <- gLive, pending <- gPending, state <- gState, closed <- gClosed,
    pc <- gPc, made <- gMade, answer <- gAnswer, stop <- gStop, stopSid <- gStopSid,
    known <- gKnown, conn <- gConn, arrived <- gArrived

gVars == <<gAt, gLive, gPending, gState, gClosed, gPc, gMade, gAnswer, gStop, gStopSid, gKnown,
    gConn, gArrived>>

ASSUME GenaAssumption == Gena!ConstantsOK

\* Sound for invariants and step properties: nothing tells one user from
\* another, nor one session or one speaker of the subscriptions.
Symmetry == Permutations(TwoUsers) \cup Permutations(Sessions) \cup Permutations(Publishers)

\* Without a ceremony the PIN is stored already.
MCInit ==
    /\ Init /\ Gena!Init
    /\ scene \in Scenes
    /\ "pin" \notin scene.threads => paired = PinSpeakers
    /\ "launch" \notin scene.threads => pc["launch"] = "done"
    /\ scene \notin Subscriptions => gAt[m1] = gAt[m2]
    /\ scene \in Subscriptions => saved = None /\ ~sendspin

AppNext ==
    /\ Next
    /\ \A t \in Threads \ scene.threads : pc'[t] = pc[t]
    /\ "auto" \notin scene.threads => tried' = tried
    /\ MaxOps - ops' <= scene.most
    /\ UNCHANGED <<scene, gVars>>

\* One of the sessions subscribes once, the other may subscribe again.
GenaNext ==
    /\ Gena!Next
    /\ \E m \in Sessions : gMade'[m] <= 1

MCNext ==
    \/ scene \notin Subscriptions /\ AppNext
    \/ scene \in Subscriptions /\ GenaNext /\ UNCHANGED <<scene, vars>>

MCSpec == MCInit /\ [][MCNext]_<<vars, gVars, scene>>

\* A session that is stopped leaves no subscription in the registry, and one that
\* runs has its own there; a first event that overtakes the answer naming its
\* subscription waits for it.
SubscriptionsKept == []Gena!RegistryMatches /\ Gena!EarlyEventWaits
=============================================================================
