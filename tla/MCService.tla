------------------------------ MODULE MCService ------------------------------
(* Parts of the service's process that share no state with each other, each  *)
(* a scene of its own: the scene is chosen at the start and the other        *)
(* modules' variables stay as they are.  Of the three Windows sessions two   *)
(* are of one account; of the networks one reaches all addresses; and one    *)
(* Sonos unit is bonded to room A.                                           *)
EXTENDS SecretStore, TLC

CONSTANTS
    Scenes,
    MaxKeys, MaxSettings,                                       \* SettingsFile
    Udns, Descs, Addrs, Scopes, Reach(_), UpnpMoves,            \* UpnpScan
    HomePods, Others, Names, Tsids, ReceiverMoves,              \* AirPlayTable
    Damaged, Owner, Stranger, MaxUpsets, MaxTries,              \* HapPairing
    Rooms, Subs, BondedTo(_), RememberedScans, SonosMoves       \* Sonos

VARIABLE scene

VARIABLES
    fDisk, fHandle, fProc, fWeb, fKeys, fRuns, fBoth, fPrinted, fKept
VARIABLES
    lPc, lKind, lSession, lLock, lMachine, lCreator, lClaimed, lEvent, lPort, lGui, lHide, lVisible,
    lWindow, lPending, lThread, lMissed, lHanded
VARIABLES
    kCli, kDevice, kKind, kHandle, kMain, kAudio, kConsumer, kReader, kChan, kEvents, kActive,
    kSelecting, kSession, kPlaying, kCrossed, kShuttingDown
VARIABLES
    uWanted, uScope, uRefresh, uInFlight, uScan, uList, uPins, uMissed, uConflicted, uMoves,
    uSteady, uLate
VARIABLES
    rDev, rDue, rByes, rRaop, rAirplay, rNames, rMemory, rUpsert, rMoves
VARIABLES
    hMemory, hDisk, hMinted, hLost, hOwed, hDev, hAt, hLink, hChannel, hOutcome, hUpsets, hTries
VARIABLES
    zCoord, zAt, zView, zScan, zMemory, zGrouped, zMoves

AllScenes == {"secrets", "settings", "launch", "run", "upnp", "airplay", "hap", "sonos"}
Copies == {"launch"}

AccountOf == 1 :> 1 @@ 2 :> 1 @@ 3 :> 2
ReachOf(network) == CASE network = "home" -> {1, 2, 3} [] network = "guest" -> {3} [] OTHER -> {}
RoomA(unit) == "A"

Settings == INSTANCE SettingsFile WITH
    disk <- fDisk, handle <- fHandle, proc <- fProc, web <- fWeb, keys <- fKeys, runs <- fRuns,
    both <- fBoth, printed <- fPrinted, kept <- fKept
Copy == INSTANCE Launch WITH Launches <- {1, 2}, Sessions <- {1, 2, 3}, Account <- AccountOf, Kinds
    <- {"window", "signin", "headless"},
    pc <- lPc, kind <- lKind, session <- lSession, lock <- lLock, machine <- lMachine,
    creator <- lCreator, claimed <- lClaimed, event <- lEvent, port <- lPort, gui <- lGui,
    hide <- lHide, visible <- lVisible, window <- lWindow, pending <- lPending, thread <- lThread,
    missed <- lMissed, handed <- lHanded
Run == INSTANCE ProcessRun WITH NoHandle <- None, NoEvent <- None, MaxDevices <- 1, MaxEvents <- 1,
    cli <- kCli, device <- kDevice, kind <- kKind, handle <- kHandle, main <- kMain,
    audio <- kAudio, consumer <- kConsumer, reader <- kReader, chan <- kChan, events <- kEvents,
    active <- kActive, selecting <- kSelecting, session <- kSession, playing <- kPlaying,
    crossed <- kCrossed, shuttingDown <- kShuttingDown
Upnp == INSTANCE UpnpScan WITH MaxMoves <- UpnpMoves,
    wanted <- uWanted, scope <- uScope, refresh <- uRefresh, inFlight <- uInFlight, scan <- uScan,
    list <- uList, pins <- uPins, missed <- uMissed, conflicted <- uConflicted, moves <- uMoves,
    steady <- uSteady, late <- uLate
Receivers == INSTANCE AirPlayTable WITH MaxMoves <- ReceiverMoves,
    dev <- rDev, due <- rDue, byes <- rByes, raop <- rRaop, airplay <- rAirplay, names <- rNames,
    memory <- rMemory, upsert <- rUpsert, moves <- rMoves
Hap == INSTANCE HapPairing WITH NoPairing <- None,
    memory <- hMemory, disk <- hDisk, minted <- hMinted, lost <- hLost, owed <- hOwed, dev <- hDev,
    at <- hAt, link <- hLink, channel <- hChannel, outcome <- hOutcome, upsets <- hUpsets,
    tries <- hTries
Zones == INSTANCE Sonos WITH MaxMoves <- SonosMoves,
    coord <- zCoord, at <- zAt, view <- zView, scan <- zScan, memory <- zMemory,
    grouped <- zGrouped, moves <- zMoves

fVars == <<fDisk, fHandle, fProc, fWeb, fKeys, fRuns, fBoth, fPrinted, fKept>>
lVars == <<lPc, lKind, lSession, lLock, lMachine, lCreator, lClaimed, lEvent, lPort, lGui, lHide,
    lVisible, lWindow, lPending, lThread, lMissed, lHanded>>
kVars == <<kCli, kDevice, kKind, kHandle, kMain, kAudio, kConsumer, kReader, kChan, kEvents,
    kActive, kSelecting, kSession, kPlaying, kCrossed, kShuttingDown>>
uVars == <<uWanted, uScope, uRefresh, uInFlight, uScan, uList, uPins, uMissed, uConflicted, uMoves,
    uSteady, uLate>>
rVars == <<rDev, rDue, rByes, rRaop, rAirplay, rNames, rMemory, rUpsert, rMoves>>
hVars == <<hMemory, hDisk, hMinted, hLost, hOwed, hDev, hAt, hLink, hChannel, hOutcome, hUpsets,
    hTries>>
zVars == <<zCoord, zAt, zView, zScan, zMemory, zGrouped, zMoves>>

ASSUME ServiceConstants ==
    Upnp!ConstantsOK /\ Receivers!ConstantsOK /\ Hap!ConstantsOK /\ Zones!ConstantsOK

\* Outside its own scene a module stands at one fixed state of its Init; the
\* receiver that is no HomePod says it is in their group.
LaunchStill == \A l \in {1, 2} : lKind[l] = "window" /\ lSession[l] = 1
RunStill == kCli = [source |-> "sine", headless |-> TRUE] /\ kDevice.proto = "none"
ReceiversStill == \A h \in DOMAIN rDev : ~rDev[h].on /\ rDev[h].tsid = None
ZonesStill == \A a \in DOMAIN zCoord : zCoord[a] = a /\ zView[a].coord = zCoord

MCInit ==
    /\ scene \in Scenes
    /\ Init /\ Settings!Init /\ Hap!Init
    /\ Copy!Init /\ (scene # "launch" => LaunchStill)
    /\ Run!Init /\ (scene # "run" => RunStill)
    /\ Upnp!Init /\ (scene # "upnp" => uScope = "home")
    /\ Receivers!Init /\ IF scene = "airplay" THEN rDev["o"].tsid = "s" ELSE ReceiversStill
    /\ Zones!Init /\ (scene # "sonos" => ZonesStill)

MCNext ==
    \/ scene = "secrets" /\ Next /\ UNCHANGED <<scene, fVars, lVars, kVars, uVars, rVars, hVars, zVars>>
    \/ scene = "settings" /\ Settings!Next /\ UNCHANGED <<scene, vars, lVars, kVars, uVars, rVars, hVars, zVars>>
    \/ scene = "launch" /\ Copy!Next /\ UNCHANGED <<scene, vars, fVars, kVars, uVars, rVars, hVars, zVars>>
    \/ scene = "run" /\ Run!Next /\ UNCHANGED <<scene, vars, fVars, lVars, uVars, rVars, hVars, zVars>>
    \/ scene = "upnp" /\ Upnp!Next /\ UNCHANGED <<scene, vars, fVars, lVars, kVars, rVars, hVars, zVars>>
    \/ scene = "airplay" /\ Receivers!Next /\ UNCHANGED <<scene, vars, fVars, lVars, kVars, uVars, hVars, zVars>>
    \/ scene = "hap" /\ Hap!Next /\ UNCHANGED <<scene, vars, fVars, lVars, kVars, uVars, rVars, zVars>>
    \/ scene = "sonos" /\ Zones!Next /\ UNCHANGED <<scene, vars, fVars, lVars, kVars, uVars, rVars, hVars>>

MCSpec ==
    /\ MCInit /\ [][MCNext]_<<scene, vars, fVars, lVars, kVars, uVars, rVars, hVars, zVars>>
    /\ \A l \in {1, 2} :
          /\ WF_lVars(scene = "launch" /\ Copy!Starts(l))
          /\ WF_lVars(scene = "launch" /\ Copy!HandsOver(l))
          /\ WF_lVars(scene = "launch" /\ Copy!Shows(l))
    /\ WF_kVars(scene = "run" /\ Run!MainStep)

\* The link printed works, and what was saved stays.
SettingsKept == Settings!SettingsKept
\* One window, which a second launch brings to the front; and a run that has
\* what it asked for, is woken by its driver, and ends when told to, leaving no
\* speaker playing.
RunsAsAsked ==
    /\ [][scene = "launch" => Copy!OneWindow' /\ Copy!AskedIsNotHidden']_lVars
    /\ [][scene = "run" => Run!RunTrue']_kVars
    /\ Copy!HandOffShown /\ []<>(scene = "run" => Run!RunEnding)
\* Of the copies launched one runs.
OneRuns == Copy!OneRuns
\* What is listed is of the network discovery is on, by identities that hold.
UpnpListTrue == scene = "upnp" => Upnp!UpnpListTrue
\* The HomePods of a group are selected as one, with nobody missing; and a
\* receiver paired with stays paired with, it and no other.
AirPlayTrue ==
    /\ scene = "airplay" => Receivers!PairsWhole
    /\ scene = "hap" => Hap!PairingKept
\* A Sonos unit is hidden on its own word, and a group's coordinator streamed to.
SonosTrue == scene = "sonos" => Zones!SonosTrue
===============================================================================
