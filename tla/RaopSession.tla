---------------------------- MODULE RaopSession ----------------------------
(* An AirPlay 1 session from its bring-up to its end: the paths tried to a   *)
(* receiver, the RTSP connection, the requests made on it one at a time, the *)
(* threads that live as long as the session, and what the receiver holds for *)
(* a sender that announced itself until it is told TEARDOWN.  A receiver can *)
(* be slow: what was asked is then done, and the reply comes after its time. *)
EXTENDS Naturals, Sequences

CONSTANTS
    None,
    MaxSets,    \* volume changes and metadata while the session is up
    MaxSlow,    \* replies that take longer than their request waits
    MaxNo       \* requests refused

\* None is no request, nor who has the mutex.
Methods == {"OPTIONS", "AUTH", "ANNOUNCE", "SETUP", "RECORD", "SET_PARAMETER", "TEARDOWN"}
Requests == [what : Methods, cseq : Nat, attempt : {0, 1}]
ConstantsOK == None \notin Requests /\ None # "start"

VARIABLES
    kind,       \* the receiver: ANNOUNCE needs auth-setup, all need a password, CSeq in replies
    password,   \* "none", "right" or "wrong"
    tries,      \* what is still to try, the handshake under way first
    step,       \* of start and stop
    conn,       \* number of the connection
    client,     \* RtspClient; its CSeq counts again from 1 when nothing is under way
    req,        \* the request waited for
    asked,      \* requests the receiver has yet to take
    replies,    \* replies yet to be read
    unlocked,   \* auth-setup was done on this connection
    held,       \* the connections whose session the receiver holds
    lost,       \* those on which TEARDOWN could not be said or was not answered in time
    holder,     \* of the client's mutex
    threads,    \* the background threads
    stopFlag, dead,
    failures,   \* keepalives failed in a row
    setter,     \* a volume or metadata handle: "none", "has" or "asks"
    pin,        \* an AirPlay 2 attempt wants to be paired first
    mixed,      \* a reply was taken for another request's
    sets, slow, no

vars == <<kind, password, tries, step, conn, client, req, asked, replies, unlocked, held, lost, holder,
          threads, stopFlag, dead, failures, setter, pin, mixed, sets, slow, no>>
fixed == <<kind, password>>
line == <<req, asked, replies, unlocked, held, mixed, slow, no>>
life == <<threads, stopFlag, dead, failures>>

Fresh == [announced |-> FALSE, tornDown |-> FALSE, poisoned |-> FALSE, digest |-> FALSE, cseq |-> 0]

(* airplay_attempts, best first; and the AirPlay 1 path is one handshake, or *)
(* with the encryption of et=4 on trial two.                                 *)
Attempts(d) ==
    LET raop == CASE ~d.raop \/ d.pair -> <<>>
                  [] d.opener = "trial" -> <<"auth", "auth">>
                  [] OTHER -> <<d.opener>>
        ap2 == IF d.ap2 THEN <<"ap2">> ELSE <<>>
    IN  IF d.requires THEN ap2 \o raop ELSE raop \o ap2

Devices ==
    {d \in [pair : BOOLEAN, raop : BOOLEAN, ap2 : BOOLEAN, requires : BOOLEAN,
            opener : {"trial", "auth", "options"}] :
        /\ d.pair \/ d.requires => d.ap2
        /\ ~d.raop => d.opener = "options"}

Init ==
    /\ kind \in [gated : BOOLEAN, locked : BOOLEAN, named : BOOLEAN]
    /\ password \in {"none", "right", "wrong"}
    /\ kind.locked \/ password = "none"
    /\ tries \in {Attempts(d) : d \in Devices}
    /\ step = "connect" /\ conn = 0 /\ client = Fresh
    /\ req = None /\ asked = <<>> /\ replies = <<>> /\ unlocked = FALSE
    /\ held = {} /\ lost = {} /\ holder = "start"
    /\ threads = {} /\ stopFlag = FALSE /\ dead = FALSE /\ failures = 0
    /\ setter = "none" /\ pin = FALSE /\ mixed = FALSE
    /\ sets = 0 /\ slow = 0 /\ no = 0

------------------------------------------------------------------------------
(* Requests.  A poisoned connection takes no more of them: they fail at once.*)
Quiet == asked = <<>> /\ replies = <<>>

Sends(what, attempt) ==
    /\ client' = [client EXCEPT !.cseq = IF Quiet THEN 1 ELSE @ + 1,
                                !.tornDown = @ \/ what = "TEARDOWN",
                                !.digest = @ \/ attempt = 1]
    /\ req' = [what |-> what, cseq |-> client'.cseq, attempt |-> attempt]
    /\ asked' = Append(asked, [what |-> what, cseq |-> client'.cseq, digest |-> client'.digest])

Ask(what) == req = None /\ ~client.poisoned /\ Sends(what, 0) /\ UNCHANGED <<replies, unlocked, held, mixed, slow, no>>

(* A reply to an earlier request is told by its CSeq, if it has one; the     *)
(* first 401 teaches the realm and is answered with the password.            *)
Stale == kind.named /\ Head(replies).cseq < req.cseq
Retried == Head(replies).status = "401" /\ req.attempt = 0 /\ password # "none"

\* Only reached if a request can give up and leave the connection usable: see LateIsDiscarded.
Discards ==
    /\ req # None /\ replies # <<>> /\ Stale
    /\ replies' = Tail(replies)
    /\ UNCHANGED <<fixed, tries, step, conn, client, req, asked, unlocked, held, mixed, slow, no, lost,
                   holder, life, setter, pin, sets>>

Challenged ==
    /\ req # None /\ replies # <<>> /\ ~Stale /\ Retried
    /\ replies' = Tail(replies)
    /\ Sends(req.what, 1)
    /\ mixed' = (mixed \/ Head(replies).cseq # req.cseq)
    /\ UNCHANGED <<fixed, tries, step, conn, unlocked, held, slow, no, lost, holder, life, setter, pin, sets>>

(* send_and_read: a reply that was not read is somewhere on the stream.      *)
Poisons(result) == result = "late"

(* What the request made comes to: a status, a 401 that is not retried, or   *)
(* no reply in time.                                                         *)
Hears(result) ==
    /\ req # None
    /\ \/ /\ replies # <<>> /\ ~Stale /\ ~Retried
          /\ result = Head(replies).status
          /\ replies' = Tail(replies)
          /\ mixed' = (mixed \/ Head(replies).cseq # req.cseq)
          /\ UNCHANGED slow
       \/ /\ replies = <<>> /\ slow < MaxSlow /\ result = "late"
          /\ slow' = slow + 1
          /\ UNCHANGED <<replies, mixed>>
    /\ client' = [client EXCEPT !.poisoned = @ \/ Poisons(result),
                                !.announced = @ \/ (req.what = "ANNOUNCE" /\ result = "200")]
    /\ req' = None
    /\ UNCHANGED <<fixed, asked, unlocked, held, sets, no>>
Results == {"200", "no", "401", "403", "late"}

(* The receiver takes the requests of a connection in turn.                  *)
Answers ==
    /\ asked # <<>>
    /\ LET r == Head(asked)
           denied == kind.locked /\ ~(r.digest /\ password = "right")
           gated == r.what = "ANNOUNCE" /\ kind.gated /\ ~unlocked
       IN  \E status \in {"200", "no", "401", "403"} :
              /\ status = "401" <=> denied
              /\ status = "403" <=> gated /\ ~denied
              /\ status = "no" => no < MaxNo
              /\ no' = IF status = "no" THEN no + 1 ELSE no
              /\ replies' = Append(replies, [cseq |-> r.cseq, status |-> status])
              /\ unlocked' = (unlocked \/ (r.what = "AUTH" /\ status = "200"))
              /\ held' = IF r.what = "ANNOUNCE" /\ status = "200" THEN held \union {conn}
                         ELSE IF r.what = "TEARDOWN" /\ status = "200" THEN held \ {conn} ELSE held
              /\ lost' = IF r.what = "TEARDOWN" /\ status # "200" THEN lost \union {conn} ELSE lost
    /\ asked' = Tail(asked)
    /\ UNCHANGED <<fixed, tries, step, conn, client, req, mixed, slow, holder, life, setter, pin, sets>>

------------------------------------------------------------------------------
(* start_airplay: the AirPlay 2 session is another module's.                 *)
NextTry == IF Len(tries) > 1 THEN "connect" ELSE "failed"

NoPath ==
    /\ step = "connect" /\ tries = <<>>
    /\ step' = "failed"
    /\ UNCHANGED <<fixed, tries, conn, client, line, lost, holder, life, setter, pin, sets>>

TryAp2 ==
    /\ step = "connect" /\ tries # <<>> /\ Head(tries) = "ap2"
    /\ \/ step' = "ap2" /\ UNCHANGED <<tries, pin>>
       \/ step' = NextTry /\ tries' = Tail(tries) /\ pin' \in {pin, TRUE}
    /\ UNCHANGED <<fixed, conn, client, line, lost, holder, life, setter, sets>>

(* start: each handshake on a connection of its own, which is answered with  *)
(* 200 except that the OPTIONS and the volume may be refused, and that an    *)
(* ANNOUNCE refused with 403 is repeated after an auth-setup.                *)
Handshake == {"opener", "announce", "unlock", "again", "setup", "record", "volume"}

MethodOf(s) ==
    CASE s = "opener" -> IF Head(tries) = "options" THEN "OPTIONS" ELSE "AUTH"
      [] s \in {"announce", "again"} -> "ANNOUNCE"
      [] s = "unlock" -> "AUTH"
      [] s = "setup" -> "SETUP"
      [] s = "record" -> "RECORD"
      [] OTHER -> "SET_PARAMETER"

After(s) ==
    CASE s = "opener" -> "announce" [] s = "announce" -> "setup" [] s = "unlock" -> "again"
      [] s = "again" -> "setup" [] s = "setup" -> "record" [] s = "record" -> "volume"
      [] s = "volume" -> "sync" [] s = "sync" -> "audio" [] s = "audio" -> "resend"
      [] s = "resend" -> "keepalive" [] s = "keepalive" -> "up"

Accepts(s, result) ==
    \/ result = "200"
    \/ s = "volume"
    \/ MethodOf(s) = "OPTIONS" /\ result \in {"no", "403"}

Connect ==
    /\ step = "connect" /\ tries # <<>> /\ Head(tries) # "ap2"
    /\ conn' = conn + 1 /\ client' = Fresh
    /\ asked' = <<>> /\ replies' = <<>> /\ unlocked' = FALSE
    /\ step' \in {"opener", "drop"}
    /\ threads' = {"timing"} /\ stopFlag' = FALSE /\ dead' = FALSE
    /\ UNCHANGED <<fixed, tries, req, held, mixed, slow, no, lost, holder, failures, setter, pin, sets>>

HandshakeAsks ==
    /\ step \in Handshake
    /\ Ask(MethodOf(step))
    /\ UNCHANGED <<fixed, tries, step, conn, lost, holder, life, setter, pin, sets>>

HandshakeHears ==
    /\ step \in Handshake
    /\ \E result \in Results :
          /\ Hears(result)
          /\ step' = IF Accepts(step, result) THEN After(step)
                     ELSE IF step = "announce" /\ result = "403" THEN "unlock" ELSE "drop"
    /\ UNCHANGED <<tries, conn, lost, holder, life, setter, pin>>

(* Drop of RtspClient: TEARDOWN for a session announced and not torn down,   *)
(* if the connection can still be used.                                      *)
MustTearDown == client.announced /\ ~client.tornDown

DropAsks ==
    /\ step = "drop" /\ MustTearDown
    /\ Ask("TEARDOWN")
    /\ UNCHANGED <<fixed, tries, step, conn, lost, holder, life, setter, pin, sets>>

DropHears ==
    /\ step = "drop"
    /\ \E result \in Results : Hears(result)
    /\ UNCHANGED <<tries, step, conn, lost, holder, life, setter, pin>>

Unsaid == IF client.poisoned THEN {conn} ELSE {}

(* Then the next handshake, or SpawnGuard stops the threads there are before *)
(* the next path.                                                            *)
Again == Len(tries) > 1 /\ tries[2] # "ap2"

Dropped ==
    /\ step = "drop" /\ req = None /\ (MustTearDown => client.poisoned)
    /\ lost' = lost \union Unsaid
    /\ step' = IF Again THEN "connect" ELSE "guard"
    /\ tries' = IF Again THEN Tail(tries) ELSE tries
    /\ stopFlag' = ~Again
    /\ UNCHANGED <<fixed, conn, client, line, holder, threads, dead, failures, setter, pin, sets>>

(* SpawnGuard's drop and stop join the threads.                              *)
Joined == threads = {}

Guarded ==
    /\ step = "guard" /\ Joined
    /\ step' = NextTry /\ tries' = Tail(tries)
    /\ UNCHANGED <<fixed, conn, client, line, lost, holder, life, setter, pin, sets>>

(* The threads are started in turn, the sync sender before the audio; when   *)
(* one cannot be, the connection and then the others go.                     *)
Spawn ==
    /\ step \in {"sync", "audio", "resend", "keepalive"}
    /\ threads' = threads \union {step}
    /\ step' = After(step)
    /\ IF step = "keepalive" THEN holder' = None /\ tries' = <<>> ELSE UNCHANGED <<holder, tries>>
    /\ UNCHANGED <<fixed, conn, client, line, lost, stopFlag, dead, failures, setter, pin, sets>>

SpawnFails ==
    /\ step \in {"sync", "audio", "resend", "keepalive"}
    /\ tries' = <<Head(tries)>> \o SelectSeq(Tail(tries), LAMBDA t : t = "ap2")
    /\ step' = "drop"
    /\ UNCHANGED <<fixed, conn, client, line, lost, holder, life, setter, pin, sets>>

------------------------------------------------------------------------------
(* The threads see the stop flag; the audio sender also ends when a send     *)
(* fails, and says that the session is dead.                                 *)
ThreadEnds(t) ==
    /\ t \in threads /\ stopFlag /\ holder # t
    /\ threads' = threads \ {t}
    /\ UNCHANGED <<fixed, tries, step, conn, client, line, lost, holder, stopFlag, dead, failures,
                   setter, pin, sets>>

AudioFails ==
    /\ "audio" \in threads /\ ~stopFlag
    /\ threads' = threads \ {"audio"} /\ dead' = TRUE
    /\ UNCHANGED <<fixed, tries, step, conn, client, line, lost, holder, stopFlag, failures, setter, pin, sets>>

(* Two failures in a row are the session's end; the keepalive goes on.       *)
Counted(result) == IF result = "200" THEN 0 ELSE IF failures = 2 THEN 2 ELSE failures + 1

Keepalive(result) ==
    /\ failures' = Counted(result)
    /\ dead' = (dead \/ failures' = 2)

\* A round is skipped while another has the mutex.
KeepaliveAsks ==
    /\ "keepalive" \in threads /\ ~stopFlag /\ holder = None
    /\ \/ client.poisoned /\ Keepalive("late") /\ UNCHANGED <<client, line, holder>>
       \/ Ask("OPTIONS") /\ holder' = "keepalive" /\ UNCHANGED <<failures, dead>>
    /\ UNCHANGED <<fixed, tries, step, conn, lost, threads, stopFlag, setter, pin, sets>>

KeepaliveHears ==
    /\ holder = "keepalive"
    /\ \E result \in Results : Hears(result) /\ Keepalive(result)
    /\ holder' = None
    /\ UNCHANGED <<tries, step, conn, lost, threads, stopFlag, setter, pin>>

(* A handle taken while the session is up is used after that, whatever has   *)
(* become of the session.                                                    *)
TakesHandle ==
    /\ step = "up" /\ setter = "none" /\ sets < MaxSets
    /\ setter' = "has" /\ sets' = sets + 1
    /\ UNCHANGED <<fixed, tries, step, conn, client, line, lost, holder, life, pin>>

SetterAsks ==
    /\ setter = "has" /\ holder = None
    /\ \/ client.poisoned /\ setter' = "none" /\ UNCHANGED <<client, line, holder>>
       \/ Ask("SET_PARAMETER") /\ setter' = "asks" /\ holder' = "setter"
    /\ UNCHANGED <<fixed, tries, step, conn, lost, life, pin, sets>>

SetterHears ==
    /\ setter = "asks"
    /\ \E result \in Results : Hears(result)
    /\ setter' = "none" /\ holder' = None
    /\ UNCHANGED <<tries, step, conn, lost, life, pin>>

------------------------------------------------------------------------------
(* stop, by the user or by the watchdog of a dead session: the threads are   *)
(* joined, then TEARDOWN is said under the mutex.                            *)
Stop ==
    /\ step = "up"
    /\ stopFlag' = TRUE /\ step' = "join"
    /\ UNCHANGED <<fixed, tries, conn, client, line, lost, holder, threads, dead, failures, setter, pin, sets>>

StopAsks ==
    /\ step = "join" /\ Joined /\ holder = None
    /\ \/ /\ client.poisoned
          /\ lost' = lost \union Unsaid /\ step' = "stopped"
          /\ UNCHANGED <<client, line, holder>>
       \/ Ask("TEARDOWN") /\ holder' = "stop" /\ step' = "teardown" /\ UNCHANGED lost
    /\ UNCHANGED <<fixed, tries, conn, life, setter, pin, sets>>

StopHears ==
    /\ step = "teardown" /\ holder = "stop"
    /\ \E result \in Results :
          /\ Hears(result)
          /\ lost' = IF result = "late" THEN lost \union {conn} ELSE lost
    /\ step' = "stopped" /\ holder' = None
    /\ UNCHANGED <<tries, conn, life, setter, pin>>

Next ==
    \/ Challenged \/ Discards \/ Answers
    \/ NoPath \/ TryAp2
    \/ Connect \/ HandshakeAsks \/ HandshakeHears
    \/ DropAsks \/ DropHears \/ Dropped \/ Guarded
    \/ Spawn \/ SpawnFails
    \/ \E t \in threads : ThreadEnds(t)
    \/ AudioFails
    \/ KeepaliveAsks \/ KeepaliveHears
    \/ TakesHandle \/ SetterAsks \/ SetterHears
    \/ Stop \/ StopAsks \/ StopHears

(* The threads run, a read ends after its time at the latest, and the        *)
(* receiver either answers or is slow.                                       *)
Progress == Next /\ ~(TakesHandle \/ AudioFails \/ Stop)

Spec == Init /\ [][Next]_vars /\ WF_vars(Progress)

------------------------------------------------------------------------------
(* Hazard: an AirPlay 2 fallback or a retry meets the session of the attempt *)
(* before it.  What the receiver holds is owned by a client here that is     *)
(* still to say TEARDOWN, unless it could not be said or was not answered;   *)
(* and nothing runs on for a session that has ended.                         *)
HeldIsOwned ==
    /\ \A c \in held \ lost : c = conn /\ step \notin {"connect", "guard", "ap2", "failed", "stopped"}
    /\ step \in {"ap2", "failed", "stopped"} => threads = {} /\ (req = None \/ setter = "asks")

(* Hazard: a reply that comes after its request has given up is read as that *)
(* of the next request.                                                      *)
OwnReply == ~mixed

(* What rtsp.rs says of CSeqs: a response that comes, whole, after its       *)
(* request timed out is discarded by the next one, which does not fail.      *)
LateIsDiscarded ==
    [][kind.named /\ req = None /\ asked = <<>> /\ replies # <<>> => failures' <= failures]_vars

(* Hazard: the connection of a session that is up breaks and nobody sees it. *)
BrokenIsDead == step = "up" /\ client.poisoned ~> dead \/ step # "up"
==============================================================================
