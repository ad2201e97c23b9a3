---------------------------- MODULE MCDriverData ----------------------------
(* The driver's other shared structures: the PCM ring, the control event    *)
(* channel, the list of live devices, the path of a stream's start and stop *)
(* through all of them to the audio loop, the volume node with the two      *)
(* other places that show its level, the capture used without the driver,   *)
(* and the equalizer in front of the loop's output.  The modules share no state, and a     *)
(* behaviour is of one of them; the others stay as they are initially.  On  *)
(* the path, the audio engine changes state as it likes, or is patient and  *)
(* waits until everything has settled.  The volume has three levels, and    *)
(* the speaker may stop one short of the top.                               *)
EXTENDS RingBuffer

CONSTANTS
    looker,
    mixer, stream, Depth, MaxPosts, NoEvent,
    Devices, Callers, NoDevice,
    MaxSessions, RingPackets, Sound, Drained, Idle, NoPacket,
    MaxLevel, SpeakerCap, NoLevel

VARIABLES patient, scene

VARIABLES
    eSlot, eHead, eTail, eReader, ePoster, ePosted, eGot, eLost
VARIABLES
    cDev, cWas, cLive, cPtr, cWithdrawing, cDraining, cClosing, cCaller, cUsing
VARIABLES
    pRun, pSetter, pTimer, pSession, pRing, pQueue, pReader, pChan, pActive, pLoop, pLoaded,
    pPacket, pFrom, pPublished
VARIABLES
    vSlider, vEvents, vLast, vToWindows, vRun, vLevelSet, vPending, vSession, vSpeaker, vChanged,
    vReports, vPush, vQueue, vSending, vSettleDue, vConnecting, vOneHand, vHand, vMoves, vBinds
VARIABLES
    wWorker, wSource, wCalling, wCaptured, wQueue, wRatio, wResampler, wPending, wAbsorbed, wMade,
    wLoop, wPkt, wSilent, wZeros, wFudge, wAccum, wStep, wDrain, wAsked, wApplied, wKnobs,
    wShuttingDown
VARIABLES
    qSaved, qDraft, qPreviewed, qAsked, qAsking, qRequest, qRunning, qJob, qReady, qReadyFlag,
    qReport, qPlaying, qUnseen

\* Three of moves and new speakers with one hand, otherwise two.
Moves == [orderly \in BOOLEAN |-> IF orderly THEN 3 ELSE 2]

\* Rates of the source over the wire's; curves that are off, flat, and of a
\* peak of 2 dB, on and off.
WireRatios == {<<1, 1>>, <<3, 2>>, <<1, 2>>, <<5, 2>>}
FewCurves ==
    {[on |-> o, preamp |-> 0, flat |-> TRUE, peak |-> 0] : o \in BOOLEAN}
    \cup {[on |-> o, preamp |-> -1, flat |-> FALSE, peak |-> 2] : o \in BOOLEAN}

Events == INSTANCE EventChannel WITH Posters <- {mixer, stream},
    slot <- eSlot, head <- eHead, tail <- eTail, reader <- eReader, poster <- ePoster,
    posted <- ePosted, got <- eGot, lost <- eLost
Ctx == INSTANCE CtxPublish WITH
    dev <- cDev, was <- cWas, live <- cLive, ptr <- cPtr, withdrawing <- cWithdrawing,
    draining <- cDraining, closing <- cClosing, caller <- cCaller, using <- cUsing
Path == INSTANCE StreamPath WITH
    run <- pRun, setter <- pSetter, timer <- pTimer, session <- pSession, ring <- pRing,
    queue <- pQueue, reader <- pReader, chan <- pChan, active <- pActive, loop <- pLoop,
    loaded <- pLoaded, packet <- pPacket, from <- pFrom, published <- pPublished
Volume == INSTANCE VolumeSync WITH Cap <- SpeakerCap, MaxMoves <- Moves, MaxBinds <- 1, None <-
    NoLevel,
    slider <- vSlider, events <- vEvents, last <- vLast, toWindows <- vToWindows, run <- vRun,
    levelSet <- vLevelSet, pending <- vPending, session <- vSession, speaker <- vSpeaker,
    changed <- vChanged, reports <- vReports, push <- vPush, queue <- vQueue, sending <- vSending,
    settleDue <- vSettleDue, connecting <- vConnecting, oneHand <- vOneHand, hand <- vHand,
    moves <- vMoves, binds <- vBinds
Cap == INSTANCE LoopbackCapture WITH Ratios <- WireRatios, Chunks <- {0, 1, 4}, QueueMax <- 2,
    PacketFrames <- 3, Quiescent <- 2, FudgeOne <- 4, Steps <- {1, 2}, MaxCaptured <- 3, MaxKnobs <-
    2,
    worker <- wWorker, source <- wSource, calling <- wCalling, captured <- wCaptured,
    queue <- wQueue, ratio <- wRatio, resampler <- wResampler, pending <- wPending,
    absorbed <- wAbsorbed, made <- wMade, loop <- wLoop, pkt <- wPkt, silent <- wSilent,
    zeros <- wZeros, fudge <- wFudge, accum <- wAccum, step <- wStep, drain <- wDrain,
    asked <- wAsked, applied <- wApplied, knobs <- wKnobs, shuttingDown <- wShuttingDown
Eq == INSTANCE Equalizer WITH Curves <- FewCurves, Gui <- "gui", Workers <- {"a", "b"}, FadeLen <-
    2, NoCurve <- NoEvent, MaxAsked <- 3,
    saved <- qSaved, draft <- qDraft, previewed <- qPreviewed, asked <- qAsked, asking <- qAsking,
    request <- qRequest, running <- qRunning, job <- qJob, ready <- qReady, readyFlag <- qReadyFlag,
    report <- qReport, playing <- qPlaying, unseen <- qUnseen

eVars == <<eSlot, eHead, eTail, eReader, ePoster, ePosted, eGot, eLost>>
cVars == <<cDev, cWas, cLive, cPtr, cWithdrawing, cDraining, cClosing, cCaller, cUsing>>
pVars == <<pRun, pSetter, pTimer, pSession, pRing, pQueue, pReader, pChan, pActive, pLoop, pLoaded,
    pPacket, pFrom, pPublished>>
vVars == <<vSlider, vEvents, vLast, vToWindows, vRun, vLevelSet, vPending, vSession, vSpeaker,
    vChanged, vReports, vPush, vQueue, vSending, vSettleDue, vConnecting, vOneHand, vHand, vMoves,
    vBinds>>
wVars == <<wWorker, wSource, wCalling, wCaptured, wQueue, wRatio, wResampler, wPending, wAbsorbed,
    wMade, wLoop, wPkt, wSilent, wZeros, wFudge, wAccum, wStep, wDrain, wAsked, wApplied, wKnobs,
    wShuttingDown>>
qVars == <<qSaved, qDraft, qPreviewed, qAsked, qAsking, qRequest, qRunning, qJob, qReady,
    qReadyFlag, qReport, qPlaying, qUnseen>>

ASSUME InstancesAssumption ==
    Events!ConstantsOK /\ Ctx!ConstantsOK /\ Path!ConstantsOK /\ Volume!ConstantsOK
    /\ Cap!ConstantsOK /\ Eq!ConstantsOK

MCInit ==
    /\ Init /\ Events!Init /\ Ctx!Init /\ Path!Init /\ Volume!Init /\ Cap!Init /\ Eq!Init
    /\ scene \in {"ring", "events", "ctx", "path", "volume", "capture", "eq"}
    /\ patient \in IF scene = "path" THEN BOOLEAN ELSE {FALSE}
    /\ scene # "volume" => vOneHand /\ vSlider = 0 /\ vSpeaker = 0 /\ vLast = NoLevel
    /\ wStep = 1 /\ (wRatio = <<1, 1>> <=> wKnobs = 0)
    /\ scene # "capture" => wKnobs = 0
    /\ scene # "eq" => ~qSaved.on /\ qSaved.flat

MCNext ==
    \/ scene = "ring" /\ Next /\ UNCHANGED <<scene, eVars, cVars, pVars, vVars, wVars, qVars>>
    \/ scene = "events" /\ Events!Next /\ UNCHANGED <<scene, vars, cVars, pVars, vVars, wVars, qVars>>
    \/ scene = "ctx" /\ Ctx!Next /\ UNCHANGED <<scene, vars, eVars, pVars, vVars, wVars, qVars>>
    \/ scene = "path" /\ Path!Next /\ UNCHANGED <<scene, vars, eVars, cVars, vVars, wVars, qVars>>
    \/ scene = "volume" /\ Volume!Next /\ UNCHANGED <<scene, vars, eVars, cVars, pVars, wVars, qVars>>
    \/ scene = "capture" /\ Cap!Next /\ UNCHANGED <<scene, vars, eVars, cVars, pVars, vVars, qVars>>
    \/ scene = "eq" /\ Eq!Next /\ UNCHANGED <<scene, vars, eVars, cVars, pVars, vVars, wVars>>

\* A patient engine waits; moves and new speakers come to three, or two.  The
\* capture either has knobs turned, with chunks of one length, or changes rate,
\* with sound throughout.
Orderly ==
    /\ patient /\ pRun' # pRun => Path!Settled
    /\ vMoves' + vBinds' <= Moves[vOneHand]
    /\ IF wRatio = <<1, 1>> THEN wCalling' \in {-1, 4} ELSE wPkt'.frames > 0 => wPkt'.loud
    /\ UNCHANGED patient

MCSpec ==
    /\ MCInit /\ [][MCNext /\ Orderly]_<<scene, vars, eVars, cVars, pVars, vVars, wVars, qVars, patient>>
    /\ WF_eVars(scene = "events" /\ Events!ReadStep)
    /\ \A p \in {mixer, stream} : WF_eVars(scene = "events" /\ Events!PostStep(p))
    /\ WF_pVars(scene = "path" /\ Path!DrainOnStop) /\ WF_pVars(scene = "path" /\ Path!PostEvent)
    /\ WF_pVars(scene = "path" /\ Path!Produce) /\ WF_pVars(scene = "path" /\ Path!ReaderStep)
    /\ WF_pVars(scene = "path" /\ Path!Consume) /\ WF_pVars(scene = "path" /\ Path!LoopStep)
    /\ WF_vVars(scene = "volume" /\ Volume!ServiceStep)
    /\ WF_wVars(scene = "capture" /\ Cap!WorkerStep) /\ WF_wVars(scene = "capture" /\ Cap!CallbackEnds)
    /\ WF_wVars(scene = "capture" /\ Cap!SourceReady) /\ WF_wVars(scene = "capture" /\ Cap!LoopStep)
    /\ WF_qVars(scene = "eq" /\ Eq!Spawn) /\ WF_qVars(scene = "eq" /\ Eq!TakeReady)
    /\ WF_qVars(scene = "eq" /\ Eq!FadeFrame)
    /\ \A t \in {"gui", "a", "b"} : WF_qVars(scene = "eq" /\ Eq!ThreadStep(t))

\* Every event posted is delivered once, queued or lost to a full queue, the
\* oldest first.  One that is queued while the reader's request is on its way
\* stays there until the next is posted, which overtakes it, and is then got.
EventsArrive ==
    /\ [](Events!Accounted /\ Events!OvertakenOnce)
    /\ Events!OnlyOverflowLoses /\ Events!NextPostDrains
\* Nothing uses a context whose withdrawal has got through its wait, and a live
\* device is served once no withdrawal is in progress.
LiveContextsOnly == Ctx!NoUseAfterWithdraw /\ Ctx!LiveDeviceServed
\* A session's audio never follows a later one's, and what is captured without
\* the driver is cut into packets with nothing lost at a seam; left in peace,
\* every session's audio comes to be published, and a capture told to end does.
SessionsHeard ==
    /\ [][Path!SessionsApart']_pVars /\ [][scene = "capture" => Cap!CaptureTrue']_wVars
    /\ []<>((scene = "path" /\ patient /\ pRun => pPublished = pSession)
            /\ (scene = "capture" => Cap!CaptureEnds))
\* With nothing crossing a push the three places end on one level, and the last
\* curve asked for is the one that plays: nothing bounces for ever.  On the way
\* there no curve comes in at once, or behind an older one, or unseen.
SettingsSettle ==
    /\ [][Volume!Agreement']_vVars /\ [][scene = "eq" => Eq!EqualizerKept']_qVars
    /\ Eq!NoClick /\ Eq!NewestWins
    /\ <>[]((scene = "volume" => Volume!Quiet) /\ (scene = "eq" => Eq!Settled))
NeverToAnother == Volume!NeverToAnother
=============================================================================
