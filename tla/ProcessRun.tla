----------------------------- MODULE ProcessRun -----------------------------
(* A run of the program from its source to its end (main.rs run): the audio  *)
(* source chosen, the handles to the driver opened one after the other while *)
(* the driver may be removed or replaced, the thread that reads its events   *)
(* and the one that acts on them, the audio loop, and the end that waits for *)
(* none of them.  What the loop does with packets is in StreamPath and       *)
(* LoopbackCapture.                                                          *)
EXTENDS Naturals

CONSTANTS
    NoHandle, NoEvent,
    MaxDevices,     \* times the driver is removed or replaced
    MaxEvents       \* events it posts

VARIABLES
    cli,            \* --source and --headless
    device,         \* the driver in the system: which one, and its protocol
    kind,           \* the source in use
    handle,         \* what was opened: which driver and of which protocol
    main, audio, consumer, reader,
    chan,           \* the event between reader and consumer
    events,
    active,         \* stream_active
    selecting,      \* a select of another thread has had its speaker play
    session, playing,
    crossed,        \* that select was under way when the end took the session
    shuttingDown

vars == <<cli, device, kind, handle, main, audio, consumer, reader, chan, events, active,
          selecting, session, playing, crossed, shuttingDown>>
speaker == <<selecting, session, playing, crossed>>
driver == <<consumer, reader, chan, events>>

Sources == {"driver", "auto", "wasapi", "sine"}
Uses == {"audio", "push", "events", "reader"}
Protocols == {"ours", "other", "none"}

Init ==
    /\ cli \in [source : Sources, headless : BOOLEAN]
    /\ device \in [n : {0}, proto : Protocols]
    /\ kind = "none" /\ handle = [u \in Uses |-> NoHandle]
    /\ main = "source" /\ audio = "none" /\ consumer = "none" /\ reader = "none"
    /\ chan = NoEvent /\ events = 0 /\ active = TRUE
    /\ selecting = FALSE /\ session = FALSE /\ playing = FALSE /\ crossed = FALSE
    /\ shuttingDown = FALSE

------------------------------------------------------------------------------
(* open_inner: a driver of another protocol is refused; the event reader's   *)
(* own handle is opened after that and asks for nothing.                     *)
Accepted == device.proto = "ours"
Present == device.proto # "none"
Open(use) == handle' = [handle EXCEPT ![use] = device]
Drop(uses) == handle' = [u \in Uses |-> IF u \in uses THEN NoHandle ELSE handle[u]]
Stale(use) == handle[use].n # device.n

\* build_source: only "auto" falls back, and the capture may not open either.
BuildSource ==
    /\ main = "source"
    /\ LET wants == cli.source \in {"driver", "auto"}
           falls == cli.source \in {"auto", "wasapi"}
       IN \/ wants /\ Accepted /\ Open("audio") /\ kind' = "driver" /\ main' = "http"
          \/ ~(wants /\ Accepted) /\ falls /\ kind' = "wasapi" /\ main' = "http" /\ UNCHANGED handle
          \/ cli.source = "sine" /\ kind' = "sine" /\ main' = "http" /\ UNCHANGED handle
          \/ ~(wants /\ Accepted) /\ cli.source # "sine" /\ main' = "ended" /\ UNCHANGED <<handle, kind>>
    /\ UNCHANGED <<cli, device, audio, driver, active, speaker, shuttingDown>>

\* start_http: with no driver there is nothing to push the volume to.
StartHttp ==
    /\ main = "http" /\ main' = "consumer"
    /\ IF Accepted THEN Open("push") ELSE UNCHANGED handle
    /\ UNCHANGED <<cli, device, kind, audio, driver, active, speaker, shuttingDown>>

SpawnConsumer ==
    /\ main = "consumer" /\ main' = "audio"
    /\ consumer' = IF cli.source \in {"wasapi", "sine"} THEN "none" ELSE "open"
    /\ UNCHANGED <<cli, device, kind, handle, audio, reader, chan, events, active, speaker, shuttingDown>>

SpawnAudio ==
    /\ main = "audio" /\ main' = "pick" /\ audio' = "top"
    /\ UNCHANGED <<cli, device, kind, handle, driver, active, speaker, shuttingDown>>

\* The speaker picked at the start is bound by this thread.
PickSpeaker ==
    /\ main = "pick" /\ main' = "run"
    /\ \/ UNCHANGED <<session, playing>>
       \/ ~selecting /\ session' = TRUE /\ playing' = TRUE
    /\ UNCHANGED <<cli, device, kind, handle, audio, driver, active, selecting, crossed, shuttingDown>>

\* run_headless polls the flag; the window closes on it, and a window that
\* ends, or never came up, sets it.
RunEnds ==
    /\ main = "run" /\ shuttingDown /\ main' = "cleanup"
    /\ UNCHANGED <<cli, device, kind, handle, audio, driver, active, speaker, shuttingDown>>

WindowEnds ==
    /\ main = "run" /\ ~cli.headless /\ main' = "cleanup" /\ shuttingDown' = TRUE
    /\ UNCHANGED <<cli, device, kind, handle, audio, driver, active, speaker>>

\* shutdown_cleanup: the session is taken and stopped; then the process ends
\* and with it every thread and handle.
Cleanup ==
    /\ main = "cleanup" /\ main' = "exit"
    /\ session' = FALSE /\ playing' = IF session THEN FALSE ELSE playing
    /\ crossed' = selecting
    /\ UNCHANGED <<cli, device, kind, handle, audio, driver, active, selecting, shuttingDown>>

MayExit == TRUE
ProcessEnds ==
    /\ main = "exit" /\ MayExit /\ main' = "ended"
    /\ handle' = [u \in Uses |-> NoHandle]
    /\ audio' = "gone" /\ consumer' = "gone" /\ reader' = "gone" /\ chan' = NoEvent
    /\ selecting' = FALSE
    /\ UNCHANGED <<cli, device, kind, events, active, session, playing, crossed, shuttingDown>>

------------------------------------------------------------------------------
(* The driver's events.                                                      *)
ConsumerOpens ==
    /\ consumer = "open"
    /\ IF Accepted THEN Open("events") /\ consumer' = "open_reader"
       ELSE consumer' = "gone" /\ UNCHANGED handle
    /\ UNCHANGED <<cli, device, kind, main, audio, reader, chan, events, active, speaker, shuttingDown>>

ReaderStarts ==
    /\ consumer = "open_reader"
    /\ IF Present THEN Open("reader") /\ consumer' = "recv" /\ reader' = "waits"
       ELSE Drop({"events"}) /\ consumer' = "gone" /\ UNCHANGED reader
    /\ UNCHANGED <<cli, device, kind, main, audio, chan, events, active, speaker, shuttingDown>>

\* Its call returns with an event, or fails when the driver has gone; an event
\* for nobody ends it.
ReaderGets ==
    /\ reader = "waits" /\ chan = NoEvent
    /\ \/ /\ Stale("reader") /\ reader' = "gone" /\ Drop({"reader"}) /\ UNCHANGED <<chan, events>>
       \/ /\ ~Stale("reader") /\ events < MaxEvents /\ events' = events + 1
          /\ IF consumer = "gone" THEN reader' = "gone" /\ Drop({"reader"}) /\ UNCHANGED chan
             ELSE chan' \in {"start", "stop"} /\ UNCHANGED <<reader, handle>>
    /\ UNCHANGED <<cli, device, kind, main, audio, consumer, active, speaker, shuttingDown>>

ConsumerActs ==
    /\ consumer = "recv"
    /\ \/ /\ chan = NoEvent /\ reader = "gone"
          /\ consumer' = "gone" /\ Drop({"events"}) /\ UNCHANGED <<chan, active>>
       \/ /\ chan # NoEvent /\ chan' = NoEvent
          /\ IF shuttingDown THEN consumer' = "gone" /\ Drop({"events"}) /\ UNCHANGED active
             ELSE active' = (chan = "start") /\ UNCHANGED <<consumer, handle>>
    /\ UNCHANGED <<cli, device, kind, main, audio, reader, events, speaker, shuttingDown>>

------------------------------------------------------------------------------
(* The audio loop: its call may not return while nothing plays, fails when   *)
(* the driver has gone, and returns the silence that ends a stream.          *)
LoopTop ==
    /\ audio = "top"
    /\ IF shuttingDown THEN audio' = "gone" /\ Drop({"audio"})
       ELSE active /\ audio' = "recv" /\ UNCHANGED handle
    /\ UNCHANGED <<cli, device, kind, main, driver, active, speaker, shuttingDown>>

RecvReturns ==
    /\ audio = "recv"
    /\ IF kind = "driver" /\ Stale("audio")
       THEN audio' = "gone" /\ Drop({"audio"}) /\ UNCHANGED active
       ELSE /\ audio' = "top" /\ UNCHANGED handle
            /\ active' = active \/ (kind = "driver" /\ active' = FALSE)
    /\ UNCHANGED <<cli, device, kind, main, driver, speaker, shuttingDown>>

------------------------------------------------------------------------------
(* The system and the user.                                                  *)
DeviceChanges ==
    /\ device.n < MaxDevices
    /\ device' \in [n : {device.n + 1}, proto : Protocols]
    /\ UNCHANGED <<cli, kind, handle, main, audio, driver, active, speaker, shuttingDown>>

SelectStarts ==
    /\ main \in {"consumer", "audio", "run", "cleanup", "exit"} /\ ~selecting /\ ~session
    /\ selecting' = TRUE /\ playing' = TRUE
    /\ UNCHANGED <<cli, device, kind, handle, main, audio, driver, active, session, shuttingDown>>
    /\ crossed' = (crossed \/ main = "exit")

SelectBinds ==
    /\ selecting /\ selecting' = FALSE /\ session' = TRUE
    /\ UNCHANGED <<cli, device, kind, handle, main, audio, driver, active, playing, crossed, shuttingDown>>

RequestShutdown ==
    /\ main \in {"audio", "pick", "run"} /\ ~shuttingDown /\ shuttingDown' = TRUE
    /\ UNCHANGED <<cli, device, kind, handle, main, audio, driver, active, speaker>>

MainStep ==
    \/ BuildSource \/ StartHttp \/ SpawnConsumer \/ SpawnAudio \/ PickSpeaker
    \/ RunEnds \/ Cleanup \/ ProcessEnds

Next ==
    \/ BuildSource \/ StartHttp \/ SpawnConsumer \/ SpawnAudio \/ PickSpeaker
    \/ RunEnds \/ WindowEnds \/ Cleanup \/ ProcessEnds
    \/ ConsumerOpens \/ ReaderStarts \/ ReaderGets \/ ConsumerActs
    \/ LoopTop \/ RecvReturns
    \/ DeviceChanges \/ SelectStarts \/ SelectBinds \/ RequestShutdown

\* Only the main thread owes progress: the others wait on the driver.
Spec == Init /\ [][Next]_vars /\ WF_vars(MainStep)

------------------------------------------------------------------------------
\* Audio is asked of, levels are pushed to and the events' first handle is of a
\* driver of this protocol, whatever replaced it in between; and who asked for
\* the driver gets no other source.
HandlesChecked ==
    /\ \A u \in {"audio", "push", "events"} : handle[u] # NoHandle => handle[u].proto = "ours"
    /\ cli.source = "driver" => kind \in {"none", "driver"}

\* A loop that idles until the driver's next start has someone to hear it, as
\* long as its driver is there.
IdleIsWoken ==
    (kind = "driver" /\ audio = "top" /\ ~active /\ ~Stale("audio") /\ ~shuttingDown)
        => consumer \in {"open", "open_reader", "recv"} /\ (consumer = "recv" => reader = "waits")

\* A speaker bound when the program ends is stopped by it (a select still under
\* way then is not waited for).
NoneLeftPlaying == main = "ended" /\ ~crossed => ~playing

RunTrue == HandlesChecked /\ IdleIsWoken /\ NoneLeftPlaying

\* Asked to end, the program ends, whatever its threads wait for.
RunEnding == shuttingDown => main = "ended"
==============================================================================
