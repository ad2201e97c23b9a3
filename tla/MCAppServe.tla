------------------------------ MODULE MCAppServe ------------------------------
(* Who is served the audio: one connection beside selects and the user's    *)
(* switches, or several connections that fill the budgets while the speaker *)
(* changes.  And, as a scene of its own, a user beside the watchdog, for    *)
(* what must happen of selects and sessions.                                *)
EXTENDS StreamServe, TLC

CONSTANTS s1, s2, o1, u1, Scenes

VARIABLE scene

VARIABLES
    nStreaming, nSendspin, nSession, nConnecting, nLast, nSaved, nPicked, nTried, nCeremony,
    nPaired, nPromised, nPc, nReq, nMade, nOld, nOps

TwoSpeakers == {s1, s2}

Session == INSTANCE AppSession WITH Speakers <- TwoSpeakers, SendspinSpeakers <- {s1}, PinSpeakers
    <- {s1}, Users <- {u1}, Background <- {"watchdog"}, Launches <- {"none"}, MaxOps <- 3, None <-
    NoPeer,
    streaming <- nStreaming, sendspin <- nSendspin, session <- nSession, connecting <- nConnecting,
    last <- nLast, saved <- nSaved, picked <- nPicked, tried <- nTried, ceremony <- nCeremony,
    paired <- nPaired, promised <- nPromised, pc <- nPc, req <- nReq, made <- nMade, old <- nOld,
    ops <- nOps

nVars == <<nStreaming, nSendspin, nSession, nConnecting, nLast, nSaved, nPicked, nTried, nCeremony,
    nPaired, nPromised, nPc, nReq, nMade, nOld, nOps>>

\* The audio: one connection and its requests for the stream, beside a select
\* and two switches, or two selects, of the same speaker or of two.  The
\* budgets: three connections that wait for a request, with one select, and two
\* of which the second evicts the first in the midst of anything.  The web:
\* selects asked for over the API.
Listening ==
    {[slots |-> {1}, from |-> {s1, o1}, of |-> "audio",
      selects |-> 1, speakers |-> {s1}, switches |-> 2],
     [slots |-> {1}, from |-> {s1}, of |-> "audio",
      selects |-> 2, speakers |-> Speakers, switches |-> 0]}
Crowding ==
    {[slots |-> Conns, from |-> {s1, o1} \cup LocalPeers, of |-> "budgets",
      selects |-> 1, speakers |-> {s1}, switches |-> 0],
     [slots |-> {1, 2}, from |-> {o1}, of |-> "evicted",
      selects |-> 0, speakers |-> {}, switches |-> 0]}
Web ==
    {[slots |-> {1}, from |-> {o1}, of |-> "web",
      selects |-> 2, speakers |-> {s1}, switches |-> 2]}
Sessions ==
    {[slots |-> {}, from |-> {}, of |-> "session",
      selects |-> 0, speakers |-> {}, switches |-> 0]}
AllScenes == Listening \cup Crowding \cup Web \cup Sessions

MCInit ==
    /\ Init /\ Session!Init /\ scene \in Scenes
    /\ scene.of # "audio" => ~privacy
    /\ nPaired = {s1}
    /\ scene.of # "session" => ~nSendspin /\ nSaved = NoPeer

ServeNext ==
    /\ Next
    /\ \A c \in Conns : ph'[c] # "free" => c \in scene.slots /\ peer'[c] \in scene.from
    /\ \A i \in Selects : i > scene.selects => pc'[i] = "ready"
    /\ \A i \in Selects : target'[i] \in scene.speakers \cup {NoPeer}
    /\ MaxOps - ops' <= scene.switches
    /\ \A c \in Conns : ph[c] = "free" /\ ph'[c] # "free" => \A d \in 1..c-1 : ph[d] # "free"
    /\ scene.of # "web" => webOn' = webOn
    /\ scene.of \notin {"audio", "evicted"} =>
        /\ \A c \in Conns : ph'[c] \in {"free", "head"}
        /\ privacy' = privacy

MCNext ==
    \/ scene.of # "session" /\ ServeNext /\ UNCHANGED <<scene, nVars>>
    \/ scene.of = "session" /\ Session!Next /\ UNCHANGED <<scene, vars>>

MCSpec ==
    /\ MCInit /\ [][MCNext]_<<scene, vars, nVars>>
    /\ Fairness
    /\ Session!Fairness

\* A connection that makes room gives its thread back; one slot is as good as
\* another.
RoomIsMade == EvictedEnds(1)
\* A select frees its slot, and a dropped session does not stay bound.
SelectsAndDropsEnd == Session!SelectsEnd /\ Session!DropsAreHandled
===============================================================================
