------------------------------ MODULE MCAirPlay ------------------------------
(* An AirPlay 2 session's bring-up and end, its control connection and its  *)
(* audio, and an AirPlay 1 session and its audio.  They share no state, and *)
(* a behaviour is of one of them.                                           *)
EXTENDS Ap2BringUp

CONSTANTS
    left1, right1, sonos1, sonos2, Scenes,
    MaxWrites, MaxReads, MaxAnswers, PendingCap, LateCap,
    SeqMod, TsMod, MaxNow, SkipAfter, Latency, HistoryCap, ResendCap, Budget, MaxRequests,
    NoRequest,
    PacketUnits, FrameUnits, HighWater, DropTo, MaxBehind, Run, Burst, Rate, SenderNow

VARIABLES
    strict, named, cseq, pending, late, poisoned, wire, rx, closed, silent, answers, holder,
    mine, mixed, failures, fault, arrived, stopped, writes, reads,
    profile, now, slot, rtptime, seq, counter, history, resends, sent, resent, asked, anchor,
    sync, syncs, inFlight, peerId, offset,
    scene
VARIABLES
    rKind, rPassword, rTries, rStep, rConn, rClient, rReq, rAsked, rReplies, rUnlocked, rHeld,
    rLost, rHolder, rThreads, rStopFlag, rDead, rFailures, rSetter, rPin, rMixed, rSets, rSlow, rNo
VARIABLES
    sNow, sStep, sSlots, sFirst, sSeq, sRtptime, sBegun, sMade, sRing, sAudio, sSent, sPlaces,
    sHistory, sSourceGone, sStopFlag, sTokens, sRefilled, sResent, sWrong, sAnchor

controlVars == <<strict, named, cseq, pending, late, poisoned, wire, rx, closed, silent, answers,
                 holder, mine, mixed, failures, fault, arrived, stopped, writes, reads>>
mediaVars == <<profile, now, slot, rtptime, seq, counter, history, resends, sent, resent, asked,
               anchor, sync, syncs, inFlight, peerId, offset>>
rVars == <<rKind, rPassword, rTries, rStep, rConn, rClient, rReq, rAsked, rReplies, rUnlocked,
    rHeld, rLost, rHolder, rThreads, rStopFlag, rDead, rFailures, rSetter, rPin, rMixed, rSets,
    rSlow, rNo>>
sVars == <<sNow, sStep, sSlots, sFirst, sSeq, sRtptime, sBegun, sMade, sRing, sAudio, sSent,
    sPlaces, sHistory, sSourceGone, sStopFlag, sTokens, sRefilled, sResent, sWrong, sAnchor>>

\* A stereo pair of HomePods and a speaker that takes its time from PTP, or two of them.
PairAndSonos == {{left1, right1}, {sonos1}}
TwoSonos == {{sonos1}, {sonos2}}
Pods == {left1, right1}
Sonos == {sonos1, sonos2}

Control == INSTANCE Ap2Control WITH stopFlag <- stopped
Media == INSTANCE Ap2Media
    WITH pending <- resends, PendingCap <- ResendCap, Members <- Pods
Raop == INSTANCE RaopSession WITH None <- NoRequest, MaxSets <- 1, MaxSlow <- 1, MaxNo <- 1,
    kind <- rKind, password <- rPassword, tries <- rTries, step <- rStep, conn <- rConn,
    client <- rClient, req <- rReq, asked <- rAsked, replies <- rReplies, unlocked <- rUnlocked,
    held <- rHeld, lost <- rLost, holder <- rHolder, threads <- rThreads, stopFlag <- rStopFlag,
    dead <- rDead, failures <- rFailures, setter <- rSetter, pin <- rPin, mixed <- rMixed,
    sets <- rSets, slow <- rSlow, no <- rNo
Sender == INSTANCE RaopSender WITH MaxNow <- SenderNow,
    now <- sNow, step <- sStep, slots <- sSlots, first <- sFirst, seq <- sSeq, rtptime <- sRtptime,
    begun <- sBegun, made <- sMade, ring <- sRing, audio <- sAudio, sent <- sSent,
    places <- sPlaces, history <- sHistory, sourceGone <- sSourceGone, stopFlag <- sStopFlag,
    tokens <- sTokens, refilled <- sRefilled, resent <- sResent, wrong <- sWrong, anchor <- sAnchor

ASSUME AirPlayConstants == Control!ConstantsOK /\ Media!ConstantsOK /\ Raop!ConstantsOK /\ Sender!ConstantsOK

\* Two requests besides the keepalive's.  Each kind of AirPlay 1 receiver comes
\* with one list of paths.
MCInit ==
    /\ Init /\ Control!Init /\ Media!Init /\ Raop!Init /\ Sender!Init /\ scene \in Scenes
    /\ writes + reads = 2 /\ (strict => named) /\ (reads = 1 => strict)
    /\ scene # "control" => strict /\ named /\ reads = 0
    /\ scene # "media" => profile = "group"
    /\ Cardinality({x \in DOMAIN rKind : rKind[x]}) <= 1
    /\ rTries \in CASE rKind.gated -> {<<"options", "ap2">>}
                    [] rKind.locked -> {<<"ap2", "auth">>}
                    [] OTHER -> {<<>>, <<"auth", "auth", "ap2">>}
    /\ scene # "raop" => rKind.named /\ rTries = <<>>
    /\ sRtptime # 0

MCNext ==
    /\ \/ scene = "session" /\ Next /\ UNCHANGED <<controlVars, mediaVars, rVars, sVars>>
       \/ scene = "control" /\ Control!Next /\ UNCHANGED <<vars, mediaVars, rVars, sVars>>
       \/ scene = "media" /\ Media!Next /\ UNCHANGED <<vars, controlVars, rVars, sVars>>
       \/ scene = "raop" /\ Raop!Next /\ UNCHANGED <<vars, controlVars, mediaVars, sVars>>
       \/ scene = "audio" /\ Sender!Next /\ UNCHANGED <<vars, controlVars, mediaVars, rVars>>
    /\ UNCHANGED scene

MCSpec ==
    /\ MCInit /\ [][MCNext]_<<vars, controlVars, mediaVars, rVars, sVars, scene>>
    /\ Fairness
    /\ WF_controlVars(scene = "control"
            /\ \E t \in {"setter", "feedback"} : Control!SyncReads(t) \/ Control!SyncTimesOut(t))
    /\ SF_controlVars(scene = "control" /\ (Control!PlainFeedbackSends \/ Control!FeedbackSends))
    /\ WF_rVars(scene = "raop" /\ Raop!Progress)
    /\ SF_controlVars(scene = "control" /\ (Control!FeedbackPolls \/ Control!FeedbackTimesOut))

\* Each wait of a session's bring-up and end comes to its end, and an AirPlay 1
\* receiver is left with no session that nothing here owns.
SessionsEnd ==
    /\ CleanEnd /\ []Raop!HeldIsOwned
    /\ (scene = "raop" /\ rStep = "connect") \/ rStep = "join"
           ~> rStep \in {"up", "ap2", "failed", "stopped"}
\* A thread never takes another request's reply for its own.
OwnReply == Control!OwnReply /\ Raop!OwnReply
\* A feedback whose reply has arrived does not end the session, and a receiver
\* that hangs, or a connection that breaks, does.
OnlyTheDeadEnd ==
    /\ Control!AnsweredIsNotTimedOut
    /\ Control!BrokenEnds
    /\ Raop!BrokenIsDead
\* No nonce is used twice, and timestamps keep to the wall clock for all members,
\* and the receiver's clock is taken from matching messages.
PacketsTrue == Media!NonceOnce /\ Media!Glued /\ Media!TrueOffset /\ Sender!Glued
\* What is sent again is the original, in time, and is not more than asked for.
ResendIsOriginal == Media!ResendIsOriginal /\ Sender!ResendIsOriginal
=============================================================================
