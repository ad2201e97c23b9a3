----------------------------- MODULE StreamServe -----------------------------
(***************************************************************************)
(* Who is served the audio over HTTP: the stream gate (stream_gate.rs),    *)
(* the connections and their budgets (http_server.rs), and the app's side  *)
(* of both, the grants of a speaker's session and the pruning of listeners *)
(* (app.rs).  Every connection has a thread; a bring-up, the user's        *)
(* switches and the audio loop run beside them.  The gate's privacy flag,  *)
(* streaming flag and grants are read one after the other, by a check and  *)
(* by a prune.                                                             *)
(*                                                                         *)
(* A select attempt is also the id of the grant it makes and of the        *)
(* session it becomes.  Requests are told apart by what the server does    *)
(* with them, not by their text.                                           *)
(***************************************************************************)
EXTENDS Integers, Sequences, FiniteSets, SequencesExt

CONSTANTS
    Speakers, Others,   \* addresses of speakers, and of other devices
    Loopback,           \* this PC, as its own programs reach the server
    OwnAddress,         \* this PC's address in the network (StreamGate::local)
    Conns,              \* connections open at a time (slots)
    MaxSelects,         \* bound: selects
    MaxOps,             \* bound: switches the user throws
    QueueFrames,        \* frames a listener's queue holds (128 in the code)
    SharedCap,          \* MAX_CONNECTIONS
    PeerCap,            \* MAX_CONNECTIONS_PER_PEER
    ProtectedCap,       \* MAX_PROTECTED_CONNECTIONS_PER_PEER
    NoPeer

LocalPeers == {Loopback, OwnAddress}
Peers == Speakers \cup Others \cup LocalPeers
Selects == 1..MaxSelects
User == 0           \* the switches' thread, among those that prune
Pruners == Selects \cup {User}

ASSUME CapsAssumption ==
    /\ SharedCap \in Nat \ {0} /\ PeerCap \in Nat \ {0} /\ ProtectedCap \in Nat
    /\ PeerCap <= ProtectedCap /\ QueueFrames \in Nat \ {0}
ASSUME PeersAssumption == NoPeer \notin Peers /\ Loopback \notin Speakers
ASSUME BoundsAssumption == MaxSelects \in Nat /\ MaxOps \in Nat

VARIABLES
    privacy, streaming, \* StreamGate::privacy, App::streaming_enabled
    grants,             \* StreamGate::grants: the ids of live grants
    target,             \* per select: the address its grant covers
    session,            \* App::session: the select it came from, or 0
    pc,                 \* per pruner: what it is about to do
    old,                \* per pruner: the session it took and stops
    snap,               \* per pruner: its AllowSnapshot
    webOn, key,         \* WebAccess: enabled, the current secret (a number)
    ops                 \* switches left
VARIABLES
    conns,              \* ConnLimiter::conns, oldest first
    peer, priority,     \* per connection
    ph,                 \* per connection: where its thread is
    asked,              \* the gate is asked for a "probe", a "get" or an "open" stream
    saw,                \* what the check has read: privacy, streaming
    shut,               \* its socket was shut down
    subs, queue,        \* StreamHub::subscribers, frames queued to each
    due                 \* a second has passed since its last check

gateVars == <<privacy, streaming, grants, target, session, old, snap>>
appVars == <<gateVars, pc, webOn, key, ops>>
connVars == <<conns, peer, priority, ph, asked, saw, shut, subs, queue, due>>
vars == <<appVars, connVars>>

\* What a local variable holds outside its scope.
NoSnap == [privacy |-> FALSE, streaming |-> TRUE, granted |-> {}]
Nothing == [privacy |-> FALSE, streaming |-> FALSE]

Init ==
    /\ privacy \in BOOLEAN /\ streaming = TRUE
    /\ grants = {} /\ target = [i \in Selects |-> NoPeer] /\ session = 0
    /\ pc = [a \in Pruners |-> "ready"]
    /\ old = [a \in Pruners |-> 0]
    /\ snap = [a \in Pruners |-> NoSnap]
    /\ webOn = FALSE /\ key = 1 /\ ops = MaxOps
    /\ conns = <<>> /\ peer = [c \in Conns |-> NoPeer]
    /\ priority = [c \in Conns |-> FALSE]
    /\ ph = [c \in Conns |-> "free"] /\ asked = [c \in Conns |-> "probe"]
    /\ saw = [c \in Conns |-> Nothing] /\ shut = [c \in Conns |-> FALSE]
    /\ subs = {} /\ queue = [c \in Conns |-> 0]
    /\ due = [c \in Conns |-> FALSE]
-----------------------------------------------------------------------------
(* The gate.                                                               *)

Granted(p) == \E i \in grants : target[i] = p

\* The rule, over its inputs at one moment.
Decide(p, private, on, granted) == p \in LocalPeers \/ (on /\ (~private \/ granted))

Allowed(p) == Decide(p, privacy, streaming, Granted(p))

\* A mutant of Revoked: what is revoked are the addresses, not the grant.
RevokedAddresses(i) == {j \in grants : target[j] # target[i]}

\* Dropping a session drops its grant.
Revoked(i) == grants \ {i}
-----------------------------------------------------------------------------
(* A select: the grant before the handshake, then the old session out, the *)
(* new one in if streaming is still enabled, and the prune.                *)

Go(a, state) == pc' = [pc EXCEPT ![a] = state]

Idle(a) == pc[a] \in {"ready", "done"}

\* One select at a time (App::connecting); the user's choice enables streaming.
StartSelect(i, p) ==
    /\ pc[i] = "ready" /\ \A j \in Selects : Idle(j)
    /\ \A j \in Selects : j < i => pc[j] = "done"
    /\ streaming' = TRUE
    /\ target' = [target EXCEPT ![i] = p] /\ grants' = grants \cup {i}
    /\ Go(i, "up")
    /\ UNCHANGED <<privacy, session, old, snap, webOn, key, ops>>

\* The bring-up's error path drops the grant.
BringUpFails(i) ==
    /\ pc[i] = "up" /\ Go(i, "done") /\ grants' = Revoked(i)
    /\ UNCHANGED <<privacy, streaming, target, session, old, snap, webOn, key, ops>>

\* Under the session lock, which is released while the old session is stopped.
TakeOld(i) ==
    /\ pc[i] = "up"
    /\ old' = [old EXCEPT ![i] = session] /\ session' = 0
    /\ Go(i, "stop")
    /\ UNCHANGED <<privacy, streaming, grants, target, snap, webOn, key, ops>>

\* The end of stop(): the session is dropped, and with it its grant.
StopOld(a) ==
    /\ pc[a] = "stop"
    /\ grants' = IF old[a] = 0 THEN grants ELSE Revoked(old[a])
    /\ old' = [old EXCEPT ![a] = 0]
    /\ Go(a, IF a = User THEN "prune" ELSE "bind")
    /\ UNCHANGED <<privacy, streaming, target, session, snap, webOn, key, ops>>

Bind(i) ==
    /\ pc[i] = "bind" /\ Go(i, "prune")
    /\ IF streaming THEN session' = i /\ UNCHANGED grants
                    ELSE grants' = Revoked(i) /\ UNCHANGED session
    /\ UNCHANGED <<privacy, streaming, target, old, snap, webOn, key, ops>>

\* StreamGate::snapshot copies the grants under their lock and then reads the
\* flags; disconnect_clients applies the copy to the subscribers.
CopyGrants(a) ==
    /\ pc[a] = "prune" /\ Go(a, "flags")
    /\ snap' = [snap EXCEPT ![a].granted = {target[i] : i \in grants}]
    /\ UNCHANGED <<privacy, streaming, grants, target, session, old, webOn, key, ops>>

CopyFlags(a) ==
    /\ pc[a] = "flags" /\ Go(a, "cut")
    /\ snap' = [snap EXCEPT ![a].privacy = privacy, ![a].streaming = streaming]
    /\ UNCHANGED <<privacy, streaming, grants, target, session, old, webOn, key, ops>>

CutClients(a) ==
    /\ pc[a] = "cut" /\ Go(a, IF a = User THEN "ready" ELSE "done")
    /\ subs' = {c \in subs :
            Decide(peer[c], snap[a].privacy, snap[a].streaming, peer[c] \in snap[a].granted)}
    /\ snap' = [snap EXCEPT ![a] = NoSnap]
    /\ UNCHANGED <<privacy, streaming, grants, target, session, old, webOn, key, ops>>
    /\ UNCHANGED <<conns, peer, priority, ph, asked, saw, shut, queue, due>>

SelectStep(i) ==
    \/ /\ BringUpFails(i) \/ TakeOld(i) \/ StopOld(i) \/ Bind(i) \/ CopyGrants(i) \/ CopyFlags(i)
       /\ UNCHANGED connVars
    \/ CutClients(i)
-----------------------------------------------------------------------------
(* The user's switches, one at a time.                                     *)

Throws(state) == ops > 0 /\ ops' = ops - 1 /\ pc[User] = "ready" /\ Go(User, state)

\* Disable and Forget: the flag first, then the session, then the prune.
Disable ==
    /\ streaming /\ streaming' = FALSE /\ Throws("take")
    /\ UNCHANGED <<privacy, grants, target, session, old, snap, webOn, key>>

\* The watchdog, and Remove of a manual speaker, end a session as it is.
EndSession ==
    /\ session # 0 /\ Throws("take")
    /\ UNCHANGED <<privacy, streaming, grants, target, session, old, snap, webOn, key>>

TakeSession ==
    /\ pc[User] = "take" /\ Go(User, "stop")
    /\ old' = [old EXCEPT ![User] = session] /\ session' = 0
    /\ UNCHANGED <<privacy, streaming, grants, target, snap, webOn, key, ops>>

\* Enable; the select of the remembered speaker it makes is StartSelect.
Enable ==
    /\ ~streaming /\ streaming' = TRUE /\ Throws("ready")
    /\ UNCHANGED <<privacy, grants, target, session, old, snap, webOn, key>>

\* Only turning privacy on prunes.
SetPrivacy(on) ==
    /\ privacy # on /\ privacy' = on /\ Throws(IF on THEN "prune" ELSE "ready")
    /\ UNCHANGED <<streaming, grants, target, session, old, snap, webOn, key>>

\* The web UI's switch and "new link".
SetWeb(on) ==
    /\ webOn # on /\ webOn' = on /\ Throws("ready")
    /\ UNCHANGED <<gateVars, key>>
NewLink ==
    /\ webOn /\ key' = key + 1 /\ Throws("ready")
    /\ UNCHANGED <<gateVars, webOn>>

UserSwitch ==
    /\ Disable \/ EndSession \/ Enable \/ NewLink
       \/ \E on \in BOOLEAN : SetPrivacy(on) \/ SetWeb(on)
    /\ UNCHANGED connVars
UserStep ==
    \/ (TakeSession \/ StopOld(User) \/ CopyGrants(User) \/ CopyFlags(User)) /\ UNCHANGED connVars
    \/ CutClients(User)
-----------------------------------------------------------------------------
(* Connections and their budgets.                                          *)

\* The places in conns charged to a budget, and the connection at the first.
SamePeer(p) == {k \in DOMAIN conns : peer[conns[k]] = p}
Shared == {k \in DOMAIN conns : ~priority[conns[k]]}
Oldest(S) == {conns[k] : k \in {i \in S : \A j \in S : i <= j}}

\* A mutant of Evicted: the oldest of all makes room for a newcomer.
EvictedAnyone(p, prio) ==
    IF Len(conns) >= SharedCap THEN {Head(conns)} ELSE {}

\* The connection admit shuts down to make room for one from p.
Evicted(p, prio) ==
    IF Cardinality(SamePeer(p)) >= (IF prio THEN ProtectedCap ELSE PeerCap)
    THEN Oldest(SamePeer(p))
    ELSE IF ~prio /\ Cardinality(Shared) >= SharedCap THEN Oldest(Shared) ELSE {}

\* A mutant of Untrack: whoever leaves, the oldest is forgotten.
UntrackOldest(cs) == IF cs = {} \/ conns = <<>> THEN conns ELSE RemoveAt(conns, 1)

\* What is left of conns without the one connection in cs, which it may hold once.
Untrack(cs) ==
    LET at == {k \in DOMAIN conns : conns[k] \in cs}
    IN IF at = {} THEN conns ELSE RemoveAt(conns, CHOOSE k \in at : TRUE)

\* accept_loop asks once whether the peer is the speaker's, then admits it;
\* loopback is protected like the speaker, the PC's other address is not.
Accept(c, p) ==
    LET prio == Granted(p) \/ p = Loopback
        out == Evicted(p, prio) IN
    /\ ph[c] = "free" /\ ph' = [ph EXCEPT ![c] = "head"]
    /\ peer' = [peer EXCEPT ![c] = p] /\ priority' = [priority EXCEPT ![c] = prio]
    /\ conns' = Append(Untrack(out), c)
    /\ shut' = [d \in Conns |-> IF d = c THEN FALSE ELSE d \in out \/ shut[d]]
    /\ UNCHANGED <<asked, saw, subs, queue, due>>

At(c, state) == ph' = [ph EXCEPT ![c] = state]

\* The thread returns: the permit and the receiver are dropped.
Close(c) ==
    /\ At(c, "free") /\ conns' = Untrack({c}) /\ subs' = subs \ {c}
    /\ peer' = [peer EXCEPT ![c] = NoPeer]
    /\ queue' = [queue EXCEPT ![c] = 0] /\ due' = [due EXCEPT ![c] = FALSE]
    /\ shut' = [shut EXCEPT ![c] = FALSE]
    /\ asked' = [asked EXCEPT ![c] = "probe"] /\ priority' = [priority EXCEPT ![c] = FALSE]
    /\ saw' = [saw EXCEPT ![c] = Nothing]

\* A whole request head has been read and parsed.
Asks(c) == ph[c] = "head" /\ ~shut[c]

\* Closed, timed out, a malformed or too large head, a foreign Host header.
HeadFails(c) == ph[c] = "head" /\ Close(c)

\* GET or HEAD /stream.raw: the gate is asked.  Privacy is read first.
AskGate(c, what) ==
    /\ Asks(c) /\ At(c, "check")
    /\ asked' = [asked EXCEPT ![c] = what]
    /\ saw' = [saw EXCEPT ![c].privacy = privacy]
    /\ UNCHANGED <<conns, peer, priority, shut, subs, queue, due>>

ReadStreaming(c) ==
    /\ ph[c] = "check" /\ At(c, "decide")
    /\ saw' = [saw EXCEPT ![c].streaming = streaming]
    /\ UNCHANGED <<conns, peer, priority, asked, shut, subs, queue, due>>

Admitted(c) == Decide(peer[c], saw[c].privacy, saw[c].streaming, Granted(peer[c]))

Reusable(keepAlive, body, bodyRead) == keepAlive /\ (~body \/ bodyRead)

Reply(c, keepAlive, body, bodyRead) ==
    IF Reusable(keepAlive, body, bodyRead)
    THEN /\ At(c, "head") /\ saw' = [saw EXCEPT ![c] = Nothing]
         /\ UNCHANGED <<conns, peer, priority, asked, shut, subs, queue, due>>
    ELSE Close(c)

Answer(c) == \E keepAlive, body \in BOOLEAN : Reply(c, keepAlive, body, FALSE)

\* The probe is answered; a request goes on to subscribe; a stream goes on.
Admit(c) ==
    /\ ph[c] = "decide" /\ Admitted(c)
    /\ \/ asked[c] = "probe" /\ Answer(c)
       \/ /\ asked[c] # "probe" /\ At(c, IF asked[c] = "get" THEN "sub" ELSE "wait")
          /\ saw' = [saw EXCEPT ![c] = Nothing]
          /\ UNCHANGED <<conns, peer, priority, asked, shut, subs, queue, due>>

\* An open stream ends; a request is answered 403.
Refuse(c) ==
    /\ ph[c] = "decide" /\ ~Admitted(c)
    /\ \/ asked[c] = "open" /\ Close(c)
       \/ asked[c] # "open" /\ Answer(c)

\* serve_stream: subscribed before the headers are sent.
Subscribe(c) ==
    /\ ph[c] = "sub" /\ At(c, "send")
    /\ subs' = subs \cup {c}
    /\ UNCHANGED <<conns, peer, priority, asked, saw, shut, queue, due>>

\* A mutant of MustAsk: an open stream is not asked about again.
MustAskNever(c) == FALSE

MustAsk(c) == due[c]

\* StreamReader::read, once a second: the gate again.
Recheck(c) ==
    /\ ph[c] = "recv" /\ MustAsk(c) /\ At(c, "check")
    /\ due' = [due EXCEPT ![c] = FALSE] /\ asked' = [asked EXCEPT ![c] = "open"]
    /\ saw' = [saw EXCEPT ![c].privacy = privacy]
    /\ UNCHANGED <<conns, peer, priority, shut, subs, queue>>

\* Not due: straight on to the wait for a frame.
SkipCheck(c) ==
    /\ ph[c] = "recv" /\ ~MustAsk(c) /\ At(c, "wait")
    /\ UNCHANGED <<conns, peer, priority, asked, saw, shut, subs, queue, due>>

Second(c) ==
    /\ ph[c] \in {"send", "recv", "wait"} /\ ~due[c] /\ due' = [due EXCEPT ![c] = TRUE]
    /\ UNCHANGED <<conns, peer, priority, ph, asked, saw, shut, subs, queue>>

\* The wait may have taken longer than a second.
TakeFrame(c) ==
    /\ ph[c] = "wait" /\ queue[c] > 0
    /\ queue' = [queue EXCEPT ![c] = @ - 1] /\ At(c, "send")
    /\ UNCHANGED <<conns, peer, priority, asked, saw, shut, subs, due>>

\* A mutant of EndOfAudio: a listener is waited with for as long as it takes.
EndOfAudioCut(c) == ph[c] = "wait" /\ queue[c] = 0 /\ c \notin subs /\ Close(c)

\* Cut off by a prune, or no frame for 30 s.
EndOfAudio(c) == ph[c] = "wait" /\ queue[c] = 0 /\ Close(c)

\* The client takes what is written to it.
Sent(c) ==
    /\ ph[c] = "send" /\ ~shut[c] /\ At(c, "recv")
    /\ UNCHANGED <<conns, peer, priority, asked, saw, shut, subs, queue, due>>

\* The socket is gone, or a client other than the speaker took nothing for two
\* minutes.
SendFails(c) == ph[c] = "send" /\ (shut[c] \/ ~priority[c] \/ peer[c] = Loopback) /\ Close(c)

\* StreamHub::publish, by the audio loop: a full queue loses the frame.
Publish ==
    /\ subs # {} /\ \E c \in subs : queue[c] < QueueFrames
    /\ queue' = [c \in Conns |-> IF c \in subs /\ queue[c] < QueueFrames THEN queue[c] + 1 ELSE queue[c]]
    /\ UNCHANGED <<conns, peer, priority, ph, asked, saw, shut, subs, due>>
-----------------------------------------------------------------------------
(* Every other request: answered at once, with or without having read the  *)
(* body, after which the connection may carry another one.                 *)

Unread(c, keepAlive, body) == Reply(c, keepAlive, body, FALSE)

\* A Host header of another site: refused, and closed.
ForeignHost(c) == Asks(c) /\ Close(c)

\* The page, its script, health, an unknown path.
Page(c, keepAlive, body) == Asks(c) /\ Unread(c, keepAlive, body)

\* read_body takes the whole body, or fails with some of it unread.
BodyRead(body) == {FALSE, body}

Notify(c, keepAlive, body) ==
    Asks(c) /\ \E bodyRead \in BodyRead(body) : Reply(c, keepAlive, body, bodyRead)

\* The web UI is off, or the key is not the current one.
ApiRefused(c, k, keepAlive, body) ==
    Asks(c) /\ ~(webOn /\ k = key) /\ Unread(c, keepAlive, body)

\* The list, resync, latency; a cross-site request; a select that is not JSON.
ApiOther(c, k, keepAlive, body) ==
    Asks(c) /\ webOn /\ k = key /\ Unread(c, keepAlive, body)

\* A select whose body could not be read, names no speaker, or fails.
ApiSelectFails(c, k, keepAlive) ==
    /\ Asks(c) /\ webOn /\ k = key
    /\ \E bodyRead \in BodyRead(TRUE) : Reply(c, keepAlive, TRUE, bodyRead)

\* POST /api/select; the select it asks for is StartSelect.
ApiSelect(c, k, i, p) ==
    Asks(c) /\ webOn /\ k = key /\ StartSelect(i, p) /\ Reply(c, TRUE, TRUE, TRUE)

\* handle: every request but a select that is made changes the connection only.
Requests(c) ==
    \/ ForeignHost(c) \/ AskGate(c, "get") \/ AskGate(c, "probe")
    \/ \E keepAlive, body \in BOOLEAN :
        \/ Page(c, keepAlive, body) \/ Notify(c, keepAlive, body)
        \/ \E k \in 1..key :
            \/ ApiRefused(c, k, keepAlive, body) \/ ApiOther(c, k, keepAlive, body)
            \/ ApiSelectFails(c, k, keepAlive)

GateStep(c) ==
    \/ ReadStreaming(c) \/ Admit(c) \/ Refuse(c) \/ Subscribe(c)
    \/ Recheck(c) \/ SkipCheck(c)
ConnStep(c) ==
    \/ HeadFails(c) \/ Requests(c) \/ GateStep(c)
    \/ Second(c) \/ TakeFrame(c) \/ EndOfAudio(c) \/ Sent(c) \/ SendFails(c)

Next ==
    \/ \E i \in Selects :
        \/ SelectStep(i)
        \/ \E p \in Speakers :
            \/ StartSelect(i, p) /\ UNCHANGED connVars
            \/ \E c \in Conns, k \in 1..key : ApiSelect(c, k, i, p)
    \/ UserSwitch \/ UserStep
    \/ \E c \in Conns :
        \/ (ConnStep(c) \/ \E p \in Peers : Accept(c, p)) /\ UNCHANGED appVars
    \/ Publish /\ UNCHANGED appVars

Spec == Init /\ [][Next]_vars

\* What a connection's thread does of itself.  A socket that was shut down fails
\* it at once.
ThreadStep(c) ==
    \/ GateStep(c) \/ TakeFrame(c) \/ EndOfAudio(c)
    \/ shut[c] /\ (HeadFails(c) \/ SendFails(c))

\* A connection's thread goes on, waiting 30 s for a frame at most, a second
\* passes, and a prune begun comes to its end.  Nothing is asked of the network:
\* no client need send, read or stay.
Fairness ==
    /\ \A c \in Conns : WF_vars(ThreadStep(c) /\ UNCHANGED appVars)
                      /\ WF_vars(Second(c) /\ UNCHANGED appVars)
    /\ \A i \in Selects : WF_vars(SelectStep(i))
    /\ WF_vars(UserStep)
-----------------------------------------------------------------------------
(* Properties.                                                             *)

\* A listener the gate no longer admits, whatever the moment it lost its right
\* (between the reads of a check, before it was subscribed, after a prune that
\* missed it), is handed no more audio from some time on (check_stream_client,
\* prune_stream_clients, StreamReader).
RightLostIsAudioLost ==
    \A c \in Conns : (<>[]~Allowed(peer[c])) => <>[][~TakeFrame(c)]_vars

\* What is bound can fetch, and only that: a bound session's addresses are
\* granted, whichever sessions of the same speaker came, failed or ended before
\* or meanwhile (stream_gate.rs: "neither can clear the other's"), and once
\* nothing is on its way no grant of a session that has gone is left behind.
BoundIsGranted ==
    /\ session # 0 => Granted(target[session])
    /\ (\A a \in Pruners : pc[a] \notin {"up", "stop", "bind"})
        => \A p \in Peers : Granted(p) => session # 0 /\ target[session] = p

\* The connections that are open to a client: its thread has not come to the
\* end, nor was it shut down.
Open == {c \in Conns : ph[c] # "free" /\ ~shut[c]}
OpenFrom(p) == {c \in Open : peer[c] = p}
OpenShared == {c \in Open : ~priority[c]}

\* However its connections came and went and whatever it was granted meanwhile,
\* no host has more of them open than the greatest budget of one host
\* (ConnLimiter; a connection is counted until its permit is dropped).
HostsBounded == \A p \in Peers : Cardinality(OpenFrom(p)) <= ProtectedCap

\* The newcomer of a step, if there is one.
Newcomers == {d \in Conns : ph[d] = "free" /\ ph'[d] # "free"}

\* A connection is shut down only for a newcomer, and only when what is open
\* then fills a budget of both: the host's own, which is the greater one for as
\* long as the host is the speaker's, or the one that all who are not protected
\* share.  So nobody crowds out the speaker but the speaker, and what has ended
\* takes nobody's place.
RoomMadeOnlyWhenFull ==
    [][\A c \in Conns : shut'[c] /\ ~shut[c] => \E d \in Newcomers :
        \/ /\ peer'[d] = peer[c]
           /\ Cardinality(OpenFrom(peer[c])) >=
                  IF Granted(peer[c]) \/ peer[c] = Loopback THEN ProtectedCap ELSE PeerCap
        \/ /\ ~priority[c] /\ ~Granted(peer'[d]) /\ peer'[d] # Loopback
           /\ Cardinality(OpenShared) >= SharedCap]_vars

\* The shared budget is exceeded only by a host that was the speaker when it
\* opened the connection it now gives up for one that is not protected.
OverBudgetOnlyByFormerSpeaker ==
    [][Cardinality(OpenShared) >= SharedCap /\ Cardinality(OpenShared') > Cardinality(OpenShared) =>
        \E c \in Open \ Open', d \in Newcomers :
            priority[c] /\ peer'[d] = peer[c] /\ ~Granted(peer[c])]_vars

\* The budgets hold, and serve whom they are for.
ServedRightly == []HostsBounded /\ RoomMadeOnlyWhenFull /\ OverBudgetOnlyByFormerSpeaker

\* A connection shut down to make room gives its thread back, however far it had
\* got, with audio or without: the budgets bound the threads too.
EvictedEnds(c) == shut[c] ~> ph[c] = "free"

\* http_server.rs, ConnLimiter: "when a budget is full, the oldest connection
\* charged to it is shut down to make room".
SharedBudgetHeld == Cardinality(OpenShared) <= SharedCap
=============================================================================
