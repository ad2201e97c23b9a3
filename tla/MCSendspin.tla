------------------------------ MODULE MCSendspin ------------------------------
(* The Sendspin modules at small sizes, each a scene of its own: the scene   *)
(* is chosen at the start and the other modules' variables stay as they are. *)
(* Two of the scopes of the browse are of one set of interfaces.             *)
EXTENDS SendspinAdmission, TLC

CONSTANTS
    a1, a2, s1, s2, NoScope,
    MaxConnects,                                                    \* SendspinPairing
    MinBuffers, Capacity, STALL, MaxTime, MaxSaid, MaxInput,        \* SendspinPlayer
    MaxToggles, MaxSelects                                          \* SendspinApp

VARIABLE scene

VARIABLES
    pConnects, pServerRec, pClientRec, pKeysMade, pFailures, pPeer, pHadRec, pInput, pCategory,
    pCliCategory, pSrv, pCli, pPump, pToClient, pToServer, pEvents, pSrvKeys, pCliKeys, pRekeying,
    pHelper, pNewKey, pCodeRight
VARIABLES
    tSelected, tActive, tSynced, tStateSent, tStartPending, tLoop, tStreamOpen, tLock, tAudio, tSaw,
    tWasSelected, tReported, tWire, tTold, tAlive, tAsked, tChanges
VARIABLES
    yNow, yWanted, yLead, yAnchor, yFrames, yBacklog, yFilling, yBuffered, ySentUpTo, yAudio, yControl,
    yMeta, ySaid, yWire, yStop, yDead, yEnded, yJoins
VARIABLES
    gEnabled, gSourceSaved, gSource, gGui, gSession, gSelect, gPlace, gPairing, gWaits, gAnswer, gPrompt,
    gMa, gDropping, gToggles, gSelects

VARIABLES
    mWanted, mScope, mRefresh, mCtl, mFound, mDraining, mFailed, mEnabled, mSync, mMoves, mFails

TwoRuns == a1 :> s1 @@ a2 :> s2

Pair == INSTANCE SendspinPairing WITH
    connects <- pConnects, serverRec <- pServerRec, clientRec <- pClientRec, keysMade <- pKeysMade,
    failures <- pFailures, peer <- pPeer, hadRec <- pHadRec, input <- pInput, category <- pCategory,
    cliCategory <- pCliCategory, srv <- pSrv, cli <- pCli, pump <- pPump, toClient <- pToClient,
    toServer <- pToServer, events <- pEvents, srvKeys <- pSrvKeys, cliKeys <- pCliKeys,
    rekeying <- pRekeying, helper <- pHelper, newKey <- pNewKey, codeRight <- pCodeRight
Stream == INSTANCE SendspinStream WITH MaxCommands <- 4, MaxSelects <- 4,
    selected <- tSelected, active <- tActive, synced <- tSynced, stateSent <- tStateSent,
    startPending <- tStartPending, loop <- tLoop, streamOpen <- tStreamOpen, lock <- tLock,
    audio <- tAudio, saw <- tSaw, wasSelected <- tWasSelected, reported <- tReported, wire <- tWire,
    told <- tTold, alive <- tAlive, asked <- tAsked, changes <- tChanges
Player == INSTANCE SendspinPlayer WITH
    now <- yNow, wanted <- yWanted, lead <- yLead, anchor <- yAnchor, frames <- yFrames,
    backlog <- yBacklog, filling <- yFilling, buffered <- yBuffered, sentUpTo <- ySentUpTo,
    audio <- yAudio, control <- yControl, meta <- yMeta, said <- ySaid, wire <- yWire, stop <- yStop,
    dead <- yDead, ended <- yEnded, joins <- yJoins
App == INSTANCE SendspinApp WITH
    enabled <- gEnabled, sourceSaved <- gSourceSaved, source <- gSource, gui <- gGui,
    session <- gSession, select <- gSelect, place <- gPlace, pairing <- gPairing, waits <- gWaits,
    answer <- gAnswer, prompt <- gPrompt, ma <- gMa, dropping <- gDropping, toggles <- gToggles,
    selects <- gSelects
InterfacesOf(choice) == IF choice \in {"a1", "a2"} THEN "a" ELSE choice
Browse == INSTANCE MdnsBrowse WITH None <- NoScope, Scopes <- {"a1", "a2", "all", "paused"}, Interfaces <-
    InterfacesOf, Togglers <- {"t1", "t2"}, MaxMoves <- 3, MaxFails <- 2,
    wanted <- mWanted, scope <- mScope, refresh <- mRefresh, ctl <- mCtl, found <- mFound,
    draining <- mDraining, failed <- mFailed, enabled <- mEnabled, sync <- mSync, moves <- mMoves,
    fails <- mFails

pVars == <<pConnects, pServerRec, pClientRec, pKeysMade, pFailures, pPeer, pHadRec, pInput, pCategory,
    pCliCategory, pSrv, pCli, pPump, pToClient, pToServer, pEvents, pSrvKeys, pCliKeys, pRekeying,
    pHelper, pNewKey, pCodeRight>>
tVars == <<tSelected, tActive, tSynced, tStateSent, tStartPending, tLoop, tStreamOpen, tLock, tAudio, tSaw,
    tWasSelected, tReported, tWire, tTold, tAlive, tAsked, tChanges>>
yVars == <<yNow, yWanted, yLead, yAnchor, yFrames, yBacklog, yFilling, yBuffered, ySentUpTo, yAudio, yControl,
    yMeta, ySaid, yWire, yStop, yDead, yEnded, yJoins>>
gVars == <<gEnabled, gSourceSaved, gSource, gGui, gSession, gSelect, gPlace, gPairing, gWaits, gAnswer, gPrompt,
    gMa, gDropping, gToggles, gSelects>>
mVars == <<mWanted, mScope, mRefresh, mCtl, mFound, mDraining, mFailed, mEnabled, mSync, mMoves,
    mFails>>

ASSUME Bounds ==
    Pair!ConstantsOK /\ Stream!ConstantsOK /\ Player!ConstantsOK /\ App!ConstantsOK

\* Outside its own scene a module stands at one fixed state of its Init.
Still(scenes) ==
    /\ scene \notin {"stream"} => ~tSelected /\ ~tSynced
    /\ scene \notin {"player"} => yWanted = 1 /\ yMeta = "ended"
    /\ scene \notin {"app"} => ~gEnabled /\ ~gSourceSaved /\ ~gSource
    /\ scene \notin {"browse"} => mScope = "all"
    /\ scene \notin {"admission"} => paired = {} /\ last = None

MCInit ==
    /\ scene \in {"admission", "pairing", "stream", "player", "app", "browse"}
    /\ Init /\ Pair!Init /\ Stream!Init /\ Player!Init /\ App!Init /\ Browse!Init
    /\ Still(scene)
    /\ scene = "admission" => paired = {s1} /\ last = None

MCNext ==
    \/ scene = "admission" /\ Next /\ UNCHANGED <<scene, pVars, tVars, yVars, gVars, mVars>>
    \/ scene = "pairing" /\ Pair!Next /\ UNCHANGED <<scene, vars, tVars, yVars, gVars, mVars>>
    \/ scene = "stream" /\ Stream!Next /\ UNCHANGED <<scene, vars, pVars, yVars, gVars, mVars>>
    \/ scene = "player" /\ Player!Next /\ UNCHANGED <<scene, vars, pVars, tVars, gVars, mVars>>
    \/ scene = "app" /\ App!Next /\ UNCHANGED <<scene, vars, pVars, tVars, yVars, mVars>>
    \/ scene = "browse" /\ Browse!Next /\ UNCHANGED <<scene, vars, pVars, tVars, yVars, gVars>>

MCSpec ==
    /\ MCInit /\ [][MCNext]_<<scene, vars, pVars, tVars, yVars, gVars, mVars>>
    /\ WF_tVars(scene = "stream" /\ Stream!Starts)
    /\ WF_tVars(scene = "stream" /\ (Stream!Frame \/ Stream!FrameActs \/ Stream!FrameLocks \/ Stream!FrameSends))
    /\ WF_mVars(scene = "browse" /\ Browse!Progress)

\* The properties of the scenes, by the modules' names for them.
UnselectedEnds == Stream!UnselectedEnds
\* A pairing survives: the server stores it first and does not fall back from it.
PairingKept == Pair!ServerStoresFirst /\ Pair!NeverDowngraded
KeysInStep == Pair!KeysInStep
\* Chunks do not overlap in time, and none follows the end of the stream.
TimelineSound == Player!NeverOverlaps /\ Player!NothingAfterEnd
\* Sendspin switched off leaves no session of its own, and what is selected is counted.
SessionsCounted == App!OffEndsItsSessions /\ App!SelectedIsCounted
\* Each browse comes to rest where the network is, and a failed one is retried.
BrowsesWell == [][scene = "browse" => Browse!BrowsesHere']_mVars /\ []<>(scene = "browse" => Browse!Kept)
=============================================================================
