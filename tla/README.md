# StreamToSpeaker in TLA+

StreamToSpeaker is a virtual Windows sound card. A kernel driver takes what the
audio engine plays, a user-mode service reads it through IOCTLs and sends it to
a network speaker (UPnP/Sonos, AirPlay 1 and 2, Sendspin), keeping the Windows
volume slider and the speaker's in step. Here are TLA+ modules that model the
parts of it where threads, callbacks, cancellations and network answers meet,
TLC configurations that check them on small instances, and theorems checked by
TLAPS for every instance.

Paths below are relative to the repository; `PROJECT.json` maps each definition
to the lines it stands for.

## 1. Inventory

### The driver (`driver/`)

| part | state | operations | what is hard |
|---|---|---|---|
| IOCTL queues (`ioctl.cpp`) | two IRP lists under two spin locks, one rundown | issue, pend, claim, complete, cancel, cleanup, cancel-all | claiming races with cancelling; a reference per pended request; removal waits |
| Control events (`ioctl.cpp`) | circular queue | post, fetch | look-then-wait against post |
| Context (`driver.cpp`) | published pointer, rundown, live devices | add, withdraw, re-publish, dispatch | two devices, callers inside while it is withdrawn |
| PCM ring (`ringbuffer.cpp`) | 64-bit head and tail, buffer | write, read, reset, unlocked look | overrun drops oldest; wrap; look without the lock |
| WaveRT stream (`wavestream.cpp`) | KS state, frame counters, timer | SetState, DPC | stop against a DPC; a DPC later than the buffer lasts |
| Topology (`topology.cpp`) | volume, mute, published miniport | get/set, external change, publish, withdraw | publication against an IOCTL |

### The service (`service/src/`)

| part | state | operations | what is hard |
|---|---|---|---|
| Driver source, audio loop (`ioctl_source.rs`, `audio_loop.rs`, `silence.rs`) | `stream_active`, silence counter | fetch, publish | two channels (packets, events) carry one fact |
| Loopback capture, equalizer (`wasapi_source.rs`, `equalizer.rs`) | chunk queue, resampler, curves | capture, design, fade | rates that change under way, designs that finish out of order |
| Session lifecycle (`app.rs`, `sendspin_app.rs`, `main.rs`) | session, connecting slot, streaming, remembered speaker, pairing ceremony | select, disable, enable, forget, reconnect, auto-connect, PIN pairing | seconds-long network calls between lock sections, many callers |
| Volume (`volume_sync.rs`, `app.rs`) | last level, runs of sends and pushes, queued levels | three sliders, echoes | echoes that are late, moderated or capped |
| Event subscriptions (`gena.rs`, `http_server.rs`) | SID registry, manager state, closed flag | subscribe, renew, unsubscribe, notify | stop while a SUBSCRIBE is in flight; early and reordered events |
| Stream gate, hub (`stream_gate.rs`, `http_server.rs`) | grants, privacy, subscribers | grant, check, prune | a copied allow-set used later |
| HTTP server (`http_server.rs`, `web_access.rs`) | connections | admit, evict, web API | budgets at their limit |
| Settings, secrets (`user_config.rs`, `secret_store.rs`) | `config.json` | load, quarantine, save, seal | two processes, crashes, older versions |
| Discovery (`ssdp.rs`, `discovery_net.rs`, `airplay/discovery.rs`, `sendspin/mdns.rs`, `manual_speakers.rs`) | device tables | announce, expire, merge | network changes |
| AirPlay 2 (`airplay/ap2_*.rs`) | session, feedback, history, clocks | set-up, feedback, resend, volume read-back | late answers, deadlines, budgets |
| AirPlay 1 (`airplay/session.rs`, `rtsp.rs`) | RTSP session | set-up, send, tear-down | the speaker's own tear-down |
| Sendspin (`sendspin/`) | connections, roles, pairings | hello, stream, pair, re-key | two peers, restarts |
| Pairing, crypto, codecs | none that lasts | pure functions | data rather than interleavings |
| Start and run (`main.rs`, `single_instance.rs`) | mutexes, event, handles | claim, hand over, open, end | two copies at once, a driver replaced between two opens |
| Window, tray, updates | presentation | calls the operations above | nothing of its own |

How they interact: the WaveRT DPC fills the ring and completes audio requests;
the driver's setters and `SetState` post events. In the service one control
thread fetches events and hands them through a bounded channel to a consumer,
which flips `stream_active` and feeds `VolumeSync`; the audio loop fetches packets and
publishes them to a hub that HTTP listeners, AirPlay and Sendspin senders
subscribe to. `App` is called by the window, the tray, the web API and its own
background threads; it owns the session, which owns its GENA manager and its
stream grant. Speakers call back over HTTP (NOTIFY) into `VolumeSync`.

What makes each part correct is in the properties of section 4; the hazards they
are aimed at are listed, line by line, in `PROJECT.json`.

## 2. Modules

### The driver and the way of the audio

| module | models | composition |
|---|---|---|
| `IoctlIrps` | the two request queues, the DPC, `SetState`, topology setters, cancellation, cleanup, removal | the ring and the event queue only as fill counts |
| `EventChannel` | the event queue in full, with posters and the one reader | |
| `CtxPublish` | publication and withdrawal of contexts of several devices | |
| `DropOldestQueue` | abstract: a bounded queue that drops its oldest | |
| `RingBuffer` | the circular buffer | implements `DropOldestQueue` (`INSTANCE ... WITH queue <- Contents`) |
| `StreamPath` | a stream's start and stop from `SetState` to the audio loop | ring, requests, events and channel in one module |
| `LoopbackCapture` | the source used without the driver, silence, resampling, latency adjustment | |
| `Equalizer` | curves from the editor through worker threads to the audio thread | |
| `ProcessRun` | one run: source, opens of the driver, event threads, end | |

### The service

| module | models | composition |
|---|---|---|
| `AppSession` | selects, sessions and the operations around them | the protocols' outcomes are its inputs |
| `VolumeSync` | one level in three places | the window, GENA, driver and volume threads |
| `GenaRegistry` | subscriptions, their renewal and withdrawal, admission of notifications | the registry beside managers and HTTP threads |
| `StreamServe` | stream gate, hub, HTTP connections and budgets, grants and pruning | selects and switches of `AppSession`, seen from the gate |
| `Launch` | copies of the program, their mutexes, event, port and window | |
| `SettingsFile` | `config.json` written by two processes that can be killed | |
| `SecretStore` | the sealed values in it, over versions and accounts | a save is one step; `SettingsFile` has its steps |

### Speakers

| module | models | composition |
|---|---|---|
| `Ap2BringUp` | AirPlay 2 sessions from connection to TEARDOWN, their threads, the PTP ports | the app's replacement of one session by another |
| `Ap2Control` | the control connection under three threads | |
| `Ap2Media` | realtime and buffered senders, packet history, nonces, the receiver's clock | |
| `RaopSession`, `RaopSender` | the same for AirPlay 1 | |
| `HapPairing` | HomeKit pairing with symbolic cryptography | both ends |
| `SendspinAdmission` | the listener's slots and the one admitted connection | |
| `SendspinPairing` | handshake, pairing, re-keying | both ends, joined as the loopback test of `handshake.rs` joins them |
| `SendspinStream` | the app as a source on one connection | |
| `SendspinPlayer` | a session that streams to a Sendspin speaker | |
| `SendspinApp` | the switches, selects and prompts around them | |
| `UpnpScan`, `Sonos` | the list of renderers and the Sonos topology | |
| `AirPlayTable`, `MdnsBrowse` | the AirPlay receivers with their stereo pairs, the browses behind both mDNS lists | |

`IoctlIrpsProofs`, `AppSessionProofs`, `GenaRegistryProofs` and `StreamServeProofs`
extend their component and hold its theorems (section 6). `AirPlayProofs` extends
`MCAirPlay` and holds those of `Ap2BringUp`, `Ap2Control`, `Ap2Media`,
`RaopSession` and `RaopSender`. `DriverDataProofs` extends `MCDriverData` and holds those of
five modules it puts side by side: `RingBuffer`, `CtxPublish`, `EventChannel`,
`StreamPath`, `VolumeSync`. `SendspinProofs` extends `MCSendspin` and holds those of
`SendspinAdmission`, `SendspinPairing`, `SendspinPlayer` and `SendspinApp`.
`ServiceProofs` extends `MCService` and holds those of `SecretStore`, `SettingsFile`,
`UpnpScan`, `AirPlayTable`, `HapPairing` and `Sonos`. The constants of what a theorem is
about are constants of `MCService` and `MCAirPlay` too, which their configurations
give values, so that the theorems are for all values.

`MC*` modules instantiate these for TLC, with model values, symmetry and
*scenes*. A scene, chosen in the initial state, is either a set of threads that run
beside each other while the rest stand still (`MCIoctlIrps`, `MCAppSession`), or
one of several modules that share no state and are checked in one run
(`MCDriverData`, `MCAppServe`, `MCAirPlay`, `MCSendspin`, `MCService`): the other
modules' variables stay at one fixed initial state. A component's actions are
never changed by it. In these runs a property is a conjunction of properties of the
modules, under the name of what they promise together; the parts are listed in
section 4. `MCAppSession` also runs `GenaRegistry` beside `AppSession`. Two runs that
show a violation take a component as it is.

### How state and actions correspond to the code

**IoctlIrps.** Each request, file object and thread (DPC, stream, mixer, PnP) is
an agent with a program counter; `lock` holds `AudioIrpLock` and `EventIrpLock`,
so every lock section is a step and anything may happen between two. `queue` is
the two lists, `rtn` and `cancelled` the two words of an IRP that `IoCancelIrp`
and `IoSetCancelRoutine` exchange, `canc` the progress of a cancellation through
set-flag, take-routine, unlink, complete, release. `dispRef`, `irpRef`,
`fileRef` are the rundown references by owner. `comp` counts completions. The
PnP thread goes through withdraw, `Closing`, cancel-all, rundown wait, re-arm,
detach and free, one step each.

**EventChannel.** `slot`, `head`, `tail` are the driver's; a poster offers
(waiting request?) and then enqueues, the reader looks, lists its request, and is
completed by a poster. `got` and `lost` are history.

**CtxPublish.** `ptr`, `live`, `withdrawing`, `closing` are the driver's
globals; callers acquire the rundown, read the pointer, use it, release.

**RingBuffer.** `Head`, `Tail` run freely as in the code (64 bit, never wrapping
in practice; `MaxFrames` bounds them for TLC) and are reduced by the capacity. A
write larger than the buffer keeps its tail end; one that overruns moves `Tail`.
`Contents` reads the buffer from `Tail` to `Head`.

**StreamPath.** `setter` is `SetState` in three steps (drain the requests, stop
the timer, post the event, as ordered in the code); `reader`, `chan` and
`Consume` are the service's control path, `loop` the audio loop with the local
copy of the flag it loaded. Packets carry the session they came from.

**LoopbackCapture.** `captured`, `queue`, `pending` are the frames on their way
from the system's callback to packets, `ratio` and `resampler` the conversion,
`fudge`, `accum`, `drain` the adjustments of `audio_loop.rs`. Frames are counted.

**Equalizer.** `request`, `running`, `ready`, `report` are the fields of the shared
design state, `job` what each worker thread is at, `playing` the audio thread's
curve and fade.

**ProcessRun.** `main`, `audio`, `consumer`, `reader` are the four threads of a run,
`handle` what each open got, `device` the driver that is there meanwhile.

**AppSession.** Each thread has a program counter whose steps are the lock
sections of `select_speaker_inner` and the operations around it; between
two sections it is in a network call, where others move. `connecting` is the
slot (by its holder), `session` the bound one, `made` and `old` what the thread
holds outside the lock. `promised`, `picked`, `tried` mirror the code's
bookkeeping.

**VolumeSync.** `last`, `toWindows`, `run`, `levelSet` are `Inner`'s fields;
`pending` and `sending` belong to the volume thread; `push` and `queue` are what
a thread has decided under the lock and has still to do. The speaker (`speaker`,
`changed`, `reports`) and the driver's node (`slider`, `events`) are external.

**GenaRegistry.** `live` and `pending` are the registry; each manager has a
subscribing thread (`pc`, `answer`) and a stopping one (`stop`, `stopSid`).
`known` is what the speaker believes. `conn` is the HTTP threads: look-up, wait,
body, lock; `arrived` is the order in which they came.

**StreamServe.** `privacy`, `streaming`, `grants` are what a check of the gate
reads, one after the other; `saw` and `snap` are the copies a check and a prune
work with. Each connection has its thread's place (`ph`), its place in the
limiter (`conns`), its subscription and queue (`subs`, `queue`). This PC has two
addresses, since the code tells them apart: the gate always admits both
(`LocalPeers`), the limiter protects `Loopback` only. A select attempt is its
grant's id and its session's.

**Launch.** `machine`, `claimed`, `event`, `port` are the kernel objects, `gui`,
`hide`, `visible` the window up to its first frame, `thread` the one that waits
for a second copy.

**SettingsFile.** `disk` is the directory by file names, `handle` the file a
process's open handle writes to, whatever it has been renamed to since. Every call
that touches the disk is a step, and a process may be killed between two.

**SecretStore.** `file` is the plain and the `protected` part, `run` the settings
in memory with what the run keeps aside because it could not open it. `Seal` and
`Unseal` are `secret_store.rs` as functions from settings to a tree and back; `want` is
history, what the user stored.

**Ap2BringUp.** An attempt's `pc` is the phase of the general or of the HomePod
path, `left` and `open` the members still to be seen to and those to be
unwound; `threads`, `events`, `feedback`, `stopFlag`, `clockStop` are the
session's threads and what stops them. `holds` is external: what a receiver keeps
until TEARDOWN.

**Ap2Control.** `cseq`, `pending`, `late`, `poisoned` are `Ap2Rtsp`'s; `wire` and
`rx` the two directions; `mine` the reply each thread wants; `failures` and
`fault` the verdict of `ap2_health.rs`.

**Ap2Media, RaopSender.** Time is counted in packets. A packet is its sequence
number, timestamp and nonce; `history` and `pending` serve retransmission; the
clock half of `Ap2Media` matches Sync and Follow_Up messages.

**RaopSession.** `tries` is the list of paths, `req`, `asked`, `replies` the one
request under way and what the receiver has still to take or answer, `held` and
`lost` the sessions at the receiver.

**HapPairing.** One action is a request, its handling by the receiver, and what is
made of the reply if one comes. Keys are names; two ends share a key when
they used one PIN and hashed the same bytes.

**SendspinAdmission.** `held` is the slots, `making` what the accept thread has in
hand, `admitted` the shared record, `in` the thread's own idea of it.

**SendspinPairing.** Both ends, the client's reader thread (`pump`) that switches keys by
itself, and the wire; a message carries the key epoch it is sealed with.

**SendspinStream, SendspinPlayer, SendspinApp.** `loop` and `audio` are the event
loop and the audio thread, `lock` the writer's mutex; a chunk is the time it plays
at; `gui` is the window's thread, which works through a toggle one lock at a time.

**UpnpScan, Sonos, AirPlayTable, MdnsBrowse.** The tables are the code's
(`list`, `pins`, `memory`, `raop`, `airplay`, `names`); the network (`wanted`,
`dev`, `view`) moves at any time; a scan holds what it has read until it fills the
table.

## 3. What was left out of a module, and why it does not matter there

- Time is a nondeterministic choice: a timeout may fire whenever its wait is on.
  Where order in time is the point (packets, chunks, slots) it is counted in those.
- Data is a model value or a small number: audio frames are numbered, levels are
  `0..MaxLevel`, speakers, keys and requests are model values.
- Cryptography is symbolic: what is sealed with a key opens with that key.
- `IoctlIrps` counts frames and events instead of storing them; `RingBuffer` and
  `EventChannel` store them.
- `VolumeSync` has no mute and no millibel conversion, and one GENA thread.
- `AppSession` takes the outcome of every network call as a choice of success
  and failure; `Ap2BringUp`, `RaopSession` and the Sendspin modules are what happens
  inside such a call.
- `Ap2BringUp` takes targets that share no receiver (`TargetsAssumption`).
  `discovery.rs` resolves a member's id to its pair, so this is so unless a pair forms or
  dissolves while one of its members plays; then `replacing_same` (`app.rs:2196`)
  compares two different ids, and a receiver is asked for a second session while it
  still holds the first. That case is not modelled.
- What each module leaves out is in the notes of `PROJECT.json`'s components.

## 4. Runs

All bounds are constants of the modules. "pass" runs end with no error;
"violation" runs show a place where the code does something other than what a
document, comment or test of the repository says of it. Every run has at least
two of the actors whose meeting is the point. Parts of a conjoined property
stand in brackets; a name with `!` is the part of the module it is instantiated from.

| run | instance | shows |
|---|---|---|
| `irps` | one audio request beside all but one of DPC, stream, handle cleanup and removal; an event request beside a mixer and cleanup, or stream, cleanup and removal; two audio requests beside the DPC; fair | `CompletedOnce`, `NoneForgotten`, `NoUseAfterFree`, `WaitsEnd` (removal gets through its wait, a cancelled request completes) |
| `driver_data` | scenes ring, events, ctx, path, volume, capture, eq | below |
| `event_left` | two posters of two events | violation of `NoneLeftWaiting` |
| `app_session` | two speakers, one of them Sendspin and PIN-paired; two users and the watchdog, or a user with auto-connect and the launch, or a user with the PIN thread and auto-connect | `OneAtATime` (`OneSelect`, `PairingAlone`), `OffMeansUnbound`, `BindsInTurn` (`TakenBeforeReplaced`, `AutomaticYields`) |
| | scene subscriptions: two sessions on one speaker or two, of which one subscribes once and the other up to twice; one notification at a time | `SubscriptionsKept` (`RegistryMatches` of `NoneLeaked` and `OneRegistered`; `EarlyEventWaits`) |
| `app_enable` | as `app_session` | violation of `EnableIsKept` |
| `gena_order` | one session, two connections | violation of `InArrivalOrder` |
| `app_serve` | scenes audio, budgets, evicted, web, session | below |
| `airplay` | scenes session, control, media, raop, audio | below |
| `ap2_ports` | two PTP receivers, two starts | violation of `PortsOwned` |
| `sendspin` | scenes admission, pairing, stream, player, app, browse | below |
| `service` | scenes secrets, settings, launch, run, upnp, airplay, hap, sonos | below |
| `launch` | two launches in three sessions, two of one account | violation of `OneRuns` |

**`driver_data`**

| scene | bounds | properties |
|---|---|---|
| ring | capacity 4, writes to 6, reads to 3, 9 frames, one unlocked look | `Implements` (`DropOldestQueue`), `EmptyMeansEmpty` |
| events | depth 3, 2 posters of 3 events, fair | `EventsArrive` (`Accounted`, `OnlyOverflowLoses`; what `event_left` shows ends with the next post, `NextPostDrains`, and an event is overtaken once, `OvertakenOnce`) |
| ctx | 3 devices, 2 callers | `LiveContextsOnly` (`NoUseAfterWithdraw`, `LiveDeviceServed`) |
| path | 2 streams, ring of 2, the engine hasty or patient, fair | `SessionsHeard` (`SessionsApart`; with a patient engine the stream's audio comes to be published) |
| capture | ratios 1:1, 3:2, 1:2, 5:2, chunks of 0, 1 and 4 frames, packets of 3, queue of 2, 3 callbacks, 2 turns of a knob, fair | `SessionsHeard` (`CaptureTrue`: no frame lost at a seam, adjustments exact, noise only for silence; a capture told to end does) |
| volume | levels 0..2, speaker capped at 1, 1 bind; 3 moves and binds with nothing crossing a push, or 2 anywhere; fair | `SettingsSettle` (`Agreement`, comes to rest), `NeverToAnother` |
| eq | 4 curves, 2 workers, a fade of 2 frames, 3 requests, fair | `SettingsSettle` (`OneDesigner`, `NothingUnseen`, `WithinScale`, `NoClick`, `NewestWins`; the last curve asked for plays) |

**`app_serve`**

| scene | bounds | properties |
|---|---|---|
| audio | one connection beside one select and two switches, or two selects | `BoundIsGranted`, `RightLostIsAudioLost` |
| budgets | three connections of speaker, another host and this PC by either address, caps 1 (shared), 1 (per host), 2 (protected) | `ServedRightly` (`HostsBounded`, `RoomMadeOnlyWhenFull`, `OverBudgetOnlyByFormerSpeaker`) |
| evicted | two connections of a host with a budget of one, anything asked for on either, fair | `RoomIsMade` (`EvictedEnds`: the connection shut down ends), `ServedRightly` |
| web | selects over one connection of the API, bodies read or not, two switches | `BoundIsGranted` over selects made from the web |
| session | a user and the watchdog, 3 operations, fair | `SelectsAndDropsEnd` |

**`airplay`**

| scene | bounds | properties |
|---|---|---|
| session | a stereo pair and a PTP receiver, two starts, each failing in any phase or stopped at any moment | `ReceiversFreed` (`HalfOpenEnds`, `ReselectWaits`), `RetryOwnsPorts`, `SessionsEnd` (`CleanEnd`) |
| control | two requests besides the keepalive's, two answers | `OwnReply`, `OnlyTheDeadEnd` (`AnsweredIsNotTimedOut`, `BrokenEnds`) |
| media | sequence numbers mod 4, timestamps mod 8, time to 5, history and resends of 2 | `PacketsTrue` (`NonceOnce`, `Glued`, `TrueOffset`), `ResendIsOriginal` |
| raop | every kind of receiver with one list of paths; one late reply, one refusal, one volume change | `OwnReply`, `OnlyTheDeadEnd` (`BrokenIsDead`), `SessionsEnd` (`HeldIsOwned`; a bring-up ends) |
| audio | time to 3, two units a packet, three a frame | `PacketsTrue` (`Glued`), `ResendIsOriginal` |

**`sendspin`**

| scene | bounds | properties |
|---|---|---|
| admission | 3 connections of 2 addresses and 2 servers, 2 slots, 2 activations | `ServersInTurn` (`SlotsBounded`, `AdmittedHasSlot`, one talks, `StrangersWait`) |
| pairing | 3 connections, any message lost | `PairingKept` (`ServerStoresFirst`, `NeverDowngraded`), `KeysInStep` |
| stream | 4 commands, 4 changes of the selection, fair | `UnselectedEnds` |
| player | a buffer of 5, time to 5, latencies 1 and 6 | `TimelineSound` (`NeverOverlaps`, `NothingAfterEnd`) |
| app | 3 toggles, 3 selects | `SessionsCounted` (`OffEndsItsSessions`, `SelectedIsCounted`) |
| browse | 4 scopes, two on one set of interfaces, 2 toggling threads, 3 moves, 2 failures, fair | `BrowsesWell` (`BrowsesHere`; each comes to rest, or is known to have failed) |

**`service`**

| scene | bounds | properties |
|---|---|---|
| secrets | 2 accounts, 3 runs of any versions, 3 values | `SecretsKept` (`NeverLost`, `Together`, `ReloadKeeps`) |
| settings | 2 keys, 2 settings, 3 processes, a kill between any two steps | `SettingsKept` (`PrintedLinkWorks`, `SavedSettingStays`) |
| launch | 2 launches in 3 sessions, fair | `RunsAsAsked` (`OneWindow`, `AskedIsNotHidden`, `HandOffShown`) |
| run | 1 change of device, 1 event, fair | `RunsAsAsked` (`RunTrue`; a run told to end ends) |
| upnp | 1 identity of 2 devices at 3 addresses, 3 scopes, 1 move | `UpnpListTrue` (`OfThisNetwork`, `OneIdentity`, `NotTakenOver`) |
| airplay | 2 HomePods and another receiver, 4 names, 1 group, 2 moves | `AirPlayTrue` (`PairsWhole`) |
| hap | 2 upsets, 5 tries, an owner and a stranger | `AirPlayTrue` (`PairingHolds`, `NeverDowngraded`, `RightPinPairs`, `OnePlace`) |
| sonos | 2 rooms, 1 bonded unit, 1 move, 2 scans remembered | `SonosTrue` (`OwnWordOnly`, `NoFlicker`, `GroupReachable`, `TargetCoordinates`) |

Every property of a passing run is broken by a mutant of the code (a dropped
guard, a missing reset, a swapped order) named in `PROJECT.json`. Symmetry is used
in `app_session` (the two users; the sessions and the speakers of the scene
subscriptions), which checks invariants and properties of single steps only.

### Why the bounds are enough

- Two requests are the fewest that can be claimed by two owners at once or be
  gathered in one batch. More only repeat the pattern; the theorems cover any
  number and all threads at once.
- A ring of four with writes of up to six has overruns, wraps, and writes larger
  than the buffer; nine frames let both counters go round twice.
- An event queue of three slots holds two; six events overflow it, and leave two
  that could overtake one that waits.
- Two streams are the fewest in which a leftover of one meets another.
- Three operations are a pick with a Disable and an Enable (or a second pick, or a
  Forget) during its slow connect, by two hands; two speakers tell replacing from
  re-selecting.
- Three levels tell a cap, an old echo and a new level apart; with only two the
  capped speaker could not stop short.
- A manager's second subscription is a replacement; a second manager on one speaker
  is what lets one's SUBSCRIBE hold open the door for the other's event.
- Three connections are one more than the budgets hold; two selects are one that
  replaces the other.
- Two starts are a session and its successor. With three the
  invariant of bring-ups was checked too, and it is proved for any number.
- Sequence numbers and timestamps that wrap within the run's packets stand for
  the code's 16 and 32 bits.
- Three Sendspin connections are the two that fit and the one that displaces.
- Three runs are a version that seals, one that cannot open what was sealed, and
  the first again.
- Two upsets are a receiver that is reset and one that is cut off meanwhile;
  five tries let the pairing be made, lost, made again and verified.

### Deadlock checking

It is off everywhere: every run is of modules that stop at a bound (operations,
connections, packets, runs) or at the end of what they model (the device removed,
the session over, the process gone). What must still come to an end is said by the
liveness properties instead.

### Fairness

Weak fairness of the steps that a running thread takes on its own, and strong
fairness only of taking a lock that others let go of again and again; no
fairness of user operations, of the audio engine's state changes, of
cancellations being asked for, of speakers' notifications, or of the
network's good outcomes.

- `IoctlIrps`: each agent's own next step and each begun cancellation: threads
  and DPCs run, spin locks are released, and a thread waiting for a rundown is
  woken when the last reference goes. A spin lock is not fair, and two requests
  cancelled and issued again for ever can keep a third party from it: `WaitsEnd` is
  asked for one request beside all the others.
- `EventChannel`, `StreamPath`: the reader asks again after every event, the
  audio loop goes round, the timer fires while the stream runs.
- `LoopbackCapture`, `Equalizer`: the threads go on; a callback that began ends.
- `AppSession`: a thread in a connect goes on (each network call ends, one way
  or the other: they all have timeouts), as do a user's operation once begun, the
  watchdog and the pairing thread. Several looks of a polling thread that change
  nothing are one step.
- `VolumeSync`: the service's threads go on, as long as any has work.
- `StreamServe`: a connection's thread goes on between two requests and its second
  comes round, a socket that was shut down fails the thread that reads or writes it,
  selects and begun switches go on. A client need not send or read.
- `Ap2BringUp`: the select's thread and the stopper go on; a thread of the session
  ends once its stop flag is set; a full write ends, if only by the time limit
  the code sets on the socket.
- `Ap2Control`: setter and keepalive go on; the keepalive's sends and polls are
  strongly fair, since it competes for the connection's lock with threads that hold it
  only for a while. `RaopSession`: its threads go on.
- `SendspinStream`, `MdnsBrowse`, `Launch`, `ProcessRun`: the audio and browse
  threads, a copy's start, hand-over and window, and the main thread go on.

In a run of several modules each condition is asked only in the module's own scene,
and only properties that need it are temporal. In the scenes of threads, one
that stands still is not asked to move: it holds its first label, and leaving that
label is the environment's choice and never fair.

`VolumeSync`'s `oneHand` needs a word. Levels are decided under `Inner`'s lock and
pushed to Windows after it, with no lock that orders the pushes; so if a slider is
moved while a push is on its way, or two threads push at once, the older may
land last. No document says what should happen then. `oneHand` is chosen at the
start of a behaviour: when it holds there are no such crossings, and `Agreement`
shows that *everything else*, late and moderated echoes, drags, a capping speaker,
a re-bind, ends in agreement. When it does not, the system still comes to rest
and sends no level to the wrong speaker.

## 5. Where the code and its comments differ

Five runs show a violation, each quoted in `PROJECT.json` under `findings`:

- `event_left` (`ioctl.cpp:475`): the look at the event queue and the listing of the
  request are two critical sections; an event posted between them waits beside a
  waiting request, which `ioctl.h:27` rules out, until the next one is posted. That one
  is delivered first, and `EventsArrive` shows that it is the only one to overtake
  it and that the reader then takes both.
- `app_enable` (`app.rs:3432`): `select_speaker_inner` decides under a lock
  whether streaming is on and acts on it seconds later; an Enable in between relies
  on the connect to bind, and it ends unbound without a message.
- `gena_order` (`http_server.rs:653`): a notification takes the dispatch lock only
  after its body is read, and the lock keeps no order, so two events of one
  subscription can be handed on the wrong way round.
- `ap2_ports` (`ap2_ptp.rs:260`): on a switch from one PTP receiver to another the
  new session's clock starts while the old one still has ports 319 and 320, and
  gets others, on which receivers do not lock.
- `launch` (`main.rs:311`): of two copies launched at once each can find one of the
  two mutexes taken by the other, and both exit.

The modules state other promises of comments that the code does not keep. They are
of the same kind as those, or benign, and no run is kept for them; naming one
as an INVARIANT or PROPERTY in a `.cfg` of its component shows the behaviour.

| property | module | what happens |
|---|---|---|
| `DeliveredInOrder` | `EventChannel` | an event that `event_left` finds beside a waiting request is overtaken by the next one |
| `AudioNotLeftWaiting` | `IoctlIrps` | a request requeued after losing the race for the ring (`ioctl.cpp:397`) does not look again; the next timer tick makes it good |
| `FedWhenIdle` | `StreamPath` | the flag is read (`audio_loop.rs:49`), the stream stops, and the loop then waits in the driver for the whole pause with nothing sent |
| `SilenceOnlyWhenIdle` | `StreamPath` | the empty packet of a stop is processed (`audio_loop.rs:97`) after the next start's event and clears the flag for as long as that stream runs |
| `StoppedBeforeStarted` | `AppSession` | a stop (`app.rs:3427`) is still on its way to a speaker that a newer select has started again |
| `ReconnectsOnlyDropped` | `AppSession` | between the watchdog's confirmation and its claim (`app.rs:2022`) the user rebinds, and the reconnect ends the fresh session |
| `BoundIsRemembered` | `AppSession` | a Forget that overlaps a pick (`app.rs:3137`) clears the remembered speaker although the picked one is bound |
| `OnlyUsersEnable` | `AppSession` | the stereo-pair launch (`main.rs:660`) picks as a click does, and turns streaming back on after a Disable |
| `SharedBudgetHeld` | `StreamServe` | a host that was the speaker opens a connection that is not protected any more and gives up a protected one of its own for it (`http_server.rs:421`); the shared budget is not looked at, and can be exceeded by that host's own |
| `LevelSetWins` | `VolumeSync` | a level set after the check of `volume_sync.rs:346` is overwritten by the one the speaker was found at |
| `RefusedOnceClosed` | `GenaRegistry` | an event admitted (`http_server.rs:644`) before the session is stopped is handed on after its subscription was withdrawn |
| `TornDownFirst` | `Ap2BringUp` | a receiver whose session another thread is ending (a drop, a Disable) may be asked for the next one before its TEARDOWN |
| `LateIsDiscarded` | `RaopSession` | a late reply is to be discarded by its CSeq (`rtsp.rs:719-722`), but every read that ends without a reply, a timeout with nothing read too, makes the connection unusable (`rtsp.rs:738`), and the next request fails unsent. `Discards` is therefore never enabled where a receiver answers each request once: `HearsOwn` in the proof of `OwnReply` |

And a few that have no property of their own; the modules do what the code does:

- `RaopSession`: the `Drop` of the client says TEARDOWN (`rtsp.rs:764-767`), but not
  on a connection a late reply has poisoned, and the receiver keeps the session.
- `RaopSession`: a keepalive answered with an error status counts as a failure,
  where the comment (`rtsp.rs:250-262`) names only read and write failures.
- `Equalizer`: a draft reset to the saved curve and dropped in one frame leaves the
  previewed curve playing (`unseen`; `gui.rs:3036-3038`).
- `LoopbackCapture`: the resampler's fraction reaches beyond [0, 1) when the source
  is faster than the wire (`wasapi_source.rs:44-46`); a latency step longer than a
  packet is carried over (`audio_loop.rs:147-150`); a device that gives no chunks
  while silent leaves the loop with nothing to publish.
- `ProcessRun`: the handle for events is opened without a look at the driver's
  version; an idle loop does not notice that the driver is gone; a speaker that a
  select is starting as the program ends is not stopped (`crossed`).

## 6. Proofs

Eight modules hold the theorems; `PROJECT.json` lists them. Each proves an
inductive invariant (its initial states, one lemma per action or group of actions,
then the temporal step), and takes the properties from it. Every inductive
invariant was first checked by TLC as an invariant of a run's instance. The
assumptions are those the component's module states of its constants (`ASSUME`),
which TLC evaluates in the runs: sentinels are not elements of the sets they stand
beside, sizes and bounds are numbers, budgets are positive. Only
`TargetsAssumption` of `Ap2BringUp` says something of the code's inputs (section 3).

**`IoctlIrpsProofs`** proves for any sets of requests, files and mixers, and any
ring, packet and queue size: `TypeOK`, `CompletedOnce`, `ListsSound`,
`NoneForgotten`, `ReferenceOwned`, `DrainedWhenWithdrawn`, `NoUseAfterFree`. None of the
properties is inductive: that a request is completed once depends on who may complete
it, that on who holds it, that on whether its cancel routine is set. `IInv` says

- `LabelsSound`: which agent may be where;
- `OneOwner`: a request that is pended is in exactly one place: on its list, in
  one agent's hand, in a batch, or with its cancel routine;
- `CompletionCount`: it has been completed exactly when it is past that place;
- `RoutineSound`: its cancel routine is set only while listed or about to be, and
  an entry of a list is reachable by whoever is to take it off;
- `RundownSound`: each owner's reference is there as long as it is inside, and none
  after the wait;
- `RemovalSound`: what each stage of the removal has already emptied.

**`DriverDataProofs`** has one part per module:

- `RingBuffer`, for every capacity and every size of reads and writes: the ring keeps
  its types, `Head` stays within a buffer of `Tail` (`Within`), it implements
  `DropOldestQueue` (`Refinement`), and the unlocked look never calls a ring with audio
  empty (`EmptyIsEmpty`). `TypeOK /\ Within` is inductive. The arithmetic is one
  lemma, that stepping a reduced index forward wraps at most once; the refinement shows
  that what a write copies in one or two chunks is, read from the new tail, the old
  contents and the new frames with the oldest dropped.
- `CtxPublish`, for any devices and callers: `LiveContextsOnly`. A caller inside
  the driver is inside by the published context, which is live, or by one whose
  withdrawal is not through its wait (`UseInv`). That rests on `WithdrawInv`: one
  device at a time withdraws what was published, nothing is published meanwhile, and
  the wait is its. `LiveInv` relates the list to the devices, for the re-publication of
  the head of the list.
- `EventChannel`, for any depth and number of events: `Accounted` and
  `OnlyOverflowLoses`. The queue is first shown to be what the occupied slots hold
  (`WaitingInSlots`); `SlotsInv` says that no event is in two of them. `Accounted` is
  then inductive: each step takes one event from one place to another.
- `StreamPath`, for any number of streams and size of the ring: `SessionsApart`, inductive
  with the types and that whatever runs belongs to a session.
- `VolumeSync`, for any scale, cap and number of moves, with one further speaker:
  `NeverToAnother`, from "a level under way was meant for the session it is sent in".

**`AppSessionProofs`**, for any speakers, users, background threads and number of
operations: `TypeOK`, `OneAtATime`, `OffMeansUnbound`, `BindsInTurn`. Everything rests
on `SlotInv`: the thread named in `connecting` is the only one inside a select, so
what it has seen of the session stays true while it goes on (`DecideInv`,
`AutoInv`). That the reconnect at launch never ends a user's session needs two
facts more, that a user's session implies a pick (`PickedInv`) and that a
reconnect refused by a pick meets none (`LaunchInv`). `OffMeansUnbound` is inductive
beside `SlotInv`, because each switch is read in the lock section that binds.

**`GenaRegistryProofs`**, for any sessions, speakers, connections and
subscriptions that satisfy `ConstantsOK`, which `app_session` evaluates for its own:
`RegistryMatches` and the step property `EarlyEventWaits`, the two parts of the
run's `SubscriptionsKept`. `OwnedInv`
follows each registered SID to whoever is to remove it (the manager, the
subscribing thread on its way, the stopping thread that took it); `HeldInv` is the
converse, what a running session holds is registered, and rests on `SidInv`, that
the SID being made is held by nobody yet. The type of `arrived` is not part of it: it is
defined with `SelectSeq`, which the provers cannot unfold, and no proved property reads it.

**`StreamServeProofs`**, for any selects, connections and addresses:
`BoundIsGranted` and `ServedRightly`. `GrantInv` says who holds each grant: a
select that has not bound, the session, or a pruner that stops an old one; that no
two selects are under way; and that a session's grant goes only once it is
another's turn. `ServedRightly` is about connections that are open, the code counts
those it tracks: `Tracks`, in `ConnInv`, says that they are the same and each is tracked
once, from which the counts agree (`CountsAgree`, by a bijection) and a full budget has
an oldest connection to give up (`EvictedOne`). With `HostsBounded` it is inductive,
and the two step properties follow for each kind of step: one that opens and ends no
connection, an end, a newcomer.

**`ServiceProofs`** has one part per module, and joins them in `ServiceIsTrue`:

- `SecretStore`, for any accounts, versions, failures of sealing and number of runs:
  `SecretsKept`. What a save writes depends on what the run holds and keeps aside,
  and that on the file it was loaded from, so the invariant has both sides: `Stored`
  of the file, `Good` of a run's memory, and that what is kept aside cannot be opened
  by this account (`KeptAside`), else the next load would take it in place of what
  was saved. Two lemmas carry it: loading a stored tree gives good settings
  (`UnsealGood`), saving good settings a stored tree that loads as the same
  (`SealGood`).
- `SettingsFile`, for any number of keys and settings: `SettingsKept`. That the file
  keeps the printed key and the saved setting is not inductive while a save is under
  way: `PrintedInv` and `KeptInv` follow them into every text still to be written (the
  temporary file, an open handle, a save that has read but not written). `AloneInv`
  says that, unless both processes once saved at a time, the temporary file and the
  handle on it belong to the one that is saving.
- `UpnpScan`, for any renderers, descriptions, addresses and networks:
  `UpnpListTrue`. `UpnpInv` adds that an identity has one entry, controlled at one of
  the addresses it is accepted at, which is not a missed or conflicting one
  (`OneControl`), and that what a scan is about to put into the list was checked
  against the list it searched (`ScansChecked`).
- `AirPlayTable`, for any receivers, names and tight-sync groups: that a pair is shown
  when, and only when, its halves announced it. The handler of a resolved service
  works in three steps. `UpsertInv` says what the steps behind it have established,
  `NamesApart` and `RecordInv` that a record is found by exactly one name, which its removal
  will give, and `ReadInv` that what was read of a receiver last is what
  it announced last.
- `HapPairing`, for any upsets and tries: `PairingKept`. `OwedInv` says that the pairing
  the user made is the one in use and, unless the receiver was reset, known to
  it; `IdentInv` that an identity made is the one in use or was lost;
  `VerifyInv` that a pairing is verified with the device that has its key, or
  that has become a stranger to it.
- `Sonos`, for any rooms and bonded units: `SonosTrue`. A room knows its own place and
  no address it is yet to have (`HouseholdInv`), a scan asks units at addresses they
  had (`ScanInv`), and what is remembered is what a unit can have said of itself
  (`MemoryInv`).

`AirPlayTrue` is a property of `AirPlayTable` and `HapPairing` together, and
`ServiceIsTrue` one of the whole of `MCService`: each of its steps is one of a single
module, or none, for all the others (`EachItsOwn`).

**`SendspinProofs`** has one part per module:

- `SendspinAdmission`, for any connections, addresses, servers and number of slots:
  `ServersInTurn`. Its parts need one another: that no more slots are held than there
  are counts the connections replaced by a newcomer, which must not be the admitted
  one; that it is not needs its thread to be past the handshake (`PlaceInv`,
  `InInv`); and that the admitted one keeps its slot needs the accept thread's
  connection in hand not to have started. The counting cites `FiniteSetTheorems`.
- `SendspinPairing`, for any number of connections, each lost at any message:
  `PairingKept` and `KeysInStep`. That the server stores first is not inductive: it
  needs that a key is confirmed once (`OncePerConnection`, over both the wire and
  what the pump has taken off it), that nothing is asked after the client's last
  message (`PastAsking`), and that the key of the attempt is the latest made
  (`RecordsOrdered`). `KeysInv` says under which key each queued message was written:
  one key at both ends, or the client has switched and what the server still reads
  leads it there (`Switching`). That nobody is downgraded is `PairWho`.
- `SendspinPlayer`, for any buffers, latencies and number of frames: the step property
  `TimelineSound`, from "what has been sent ends no later than the anchor and the
  frames" and "an ended stream's threads are joined".
- `SendspinApp`, for any number of switches and selects: `SessionsCounted`. A toggle is
  followed as the steps it has left (`TogglesLeft`): a session that needs what is
  off has its end among them. The count of Music Assistant's sessions is the bound
  one, the select's and those being dropped.

**`AirPlayProofs`**

- Bring-ups, for any targets without a common receiver and any number of starts:
  `ReceiversFreed` and the step property `RetryOwnsPorts`. A receiver can be held by the
  session, by the attempt under way and by sessions being stopped. `SessionInv` says that
  there is at most one of each of the first two, of different targets, and that a stop
  nobody else asked for is one the attempt waits for; `PlaceInv` ties what a
  receiver holds to the attempt's open connections, `ClockInv` a PTP port to the
  clock's thread, and its thread to the stop flag.
- The audio of both AirPlay versions, for any latency, capacities, numbers of slots
  and widths of sequence numbers and timestamps: `PacketsTrue` and `ResendIsOriginal`.
  Of AirPlay 2, `TimeInv` ties the next timestamp and each member's next sequence
  number to the slot, modulo their widths, and a buffered session's to its anchor;
  `SentInv` says that nonces and slots are used up, and that each entry of the
  history is of a packet that was sent, with entries for all that was sent
  after it, so that the newest entry under a number is the last packet under it. Of
  AirPlay 1, `PaceInv` bounds how late a slot is taken up; `PlacesInv` gives each entry
  its sequence number by its distance from the last one, so that the entry found is
  of the packet asked for as long as the history and a request together are
  shorter than a round of numbers (`Sender!ConstantsOK`; in the code they are, by far);
  `BucketInv` says that what has been sent again and the tokens left are at most
  the burst and what time has earned. Remainders are what is hard here: lemmas
  `Unique` to `ModRounds` are the arithmetic the provers need.
- The replies of both AirPlay versions, for any number of requests, threads' turns and
  late or missing replies: `OwnReply`. Of AirPlay 2, the theorem `RepliesAreOwn` has a
  condition: CSeqs are enforced (`strict`), or fewer requests wait at a time than
  `PENDING_CAP` (64 in the code). Beyond that `send_request` forgets the oldest
  that waits, and its reply would be taken for another's. `OrderInv` says
  that the replies read and then those on their way answer what waits in its
  order, and all of it where CSeqs are left out, so that a reply without one
  falls to the right request; `LateTrue`, that what is remembered under a CSeq was the reply
  to it, which holds only where CSeqs are enforced, and is only read there. What one scan
  leaves (`Reads`) goes over any number of replies: `ScanHolds` carries it from one
  reply to the next (`ReadHolds`) by the least number it fails for (`UpTo`, from
  `NatLessThanWellFounded`), as a set of numbers, so that no induction scheme is instantiated. Of
  AirPlay 1, `LineInv` says that a connection that is not poisoned carries one request at
  the most, the one that is waited for, or its reply. That the session's users wait for
  each other needs that a start has the client to itself (`StartInv`).

**Only model-checked:**

- everything under fairness, which is out of TLAPS's reach: `WaitsEnd`,
  `SessionsEnd`, `SelectsAndDropsEnd`, `RightLostIsAudioLost`, `RoomIsMade`,
  `OnlyTheDeadEnd`, `UnselectedEnds`, and the temporal parts of `EventsArrive`, `SessionsHeard`,
  `SettingsSettle`, `BrowsesWell` and `RunsAsAsked`;
- the safety properties of the components without a proof module:
  `CaptureTrue`, `EqualizerKept`, `NoClick`, `NewestWins`, `Agreement` within the
  properties of `driver_data`; `OvertakenOnce` of `EventChannel` there.

## 7. Not modelled

See `components` in `PROJECT.json`: the arithmetic of the WaveRT position counters and the topology
miniport, codecs and parsers (pure data), cryptographic primitives, clocks over
real numbers, presentation, installation and scripts; and in the notes of the
components that are modelled in part, what was left out of each.

## 8. Plan

Done: all components with interleavings of their own; the runs above; theorems
about twenty-four of the modules, which state every invariant and every step property
that the passing runs name.

Next, in `DriverDataProofs`: `OvertakenOnce` of `EventChannel`, what is safety in
`SettingsSettle` and `SessionsHeard`, `Agreement` of `VolumeSync`, `EqualizerKept` of
`Equalizer` and `CaptureTrue` of `LoopbackCapture`.
