----------------------------- MODULE MdnsBrowse -----------------------------
(* The mDNS browses for AirPlay and Sendspin speakers, each with a daemon of *)
(* its own that is rebuilt on other interfaces when discovery moves to       *)
(* another network; the browse for Sendspin also follows its switch, and is  *)
(* tried again when it could not start.                                      *)
EXTENDS Naturals, FiniteSets

CONSTANTS
    None,
    Scopes,         \* what the saved choice and the adapters come to
    Interfaces(_),  \* the interfaces of a scope; of "paused": "paused"
    Togglers,       \* threads of the Sendspin switch
    MaxMoves, MaxFails

VARIABLES
    wanted,     \* the scope by the adapters as they are now
    scope,      \* the scope last applied
    refresh,    \* refresh_discovery_scope: "idle", "airplay" or "sendspin"
    ctl,        \* a controller: where its daemon runs, what was applied,
                \* and what it is in the middle of
    found,      \* the interfaces a browse's list was filled through
    draining,   \* those the consumers of its earlier daemons still read from
    failed,     \* the browses whose last start failed
    enabled,    \* the Sendspin switch, as saved
    sync,       \* sync_sendspin_discovery, by thread
    moves, fails

vars == <<wanted, scope, refresh, ctl, found, draining, failed, enabled, sync, moves, fails>>
envVars == <<wanted, enabled, moves>>

Browses == {"airplay", "sendspin"}
Syncers == Togglers \union {"netwatch"}
Stopped == [daemon |-> None, applied |-> None, doing |-> "none", want |-> None]

Init ==
    /\ scope \in Scopes /\ wanted = scope
    /\ refresh = "idle"
    /\ ctl = [b \in Browses |->
          IF b = "airplay" /\ Interfaces(scope) # "paused"
          THEN [Stopped EXCEPT !.daemon = Interfaces(scope), !.applied = Interfaces(scope)]
          ELSE IF b = "airplay" THEN [Stopped EXCEPT !.applied = "paused"] ELSE Stopped]
    /\ found = [b \in Browses |-> {}] /\ draining = [b \in Browses |-> {}]
    /\ failed = {} /\ enabled = FALSE
    /\ sync = [p \in Syncers |-> "idle"]
    /\ moves = 0 /\ fails = 0

------------------------------------------------------------------------------
(* The controller.  apply leaves a browse that runs where it is wanted       *)
(* alone; else it is shut down, its list forgotten, and it is started.       *)
Running(b) == ctl[b].daemon # None

ShutsDown(b, doing, want) ==
    /\ ctl' = [ctl EXCEPT ![b] = [@ EXCEPT !.daemon = None, !.doing = doing, !.want = want]]
    /\ draining' = IF Running(b) THEN [draining EXCEPT ![b] = @ \union {ctl[b].daemon}] ELSE draining

(* Mutant: the list is emptied at once.                                      *)
AtOnce(b) == TRUE

(* The shutdown waits, so that what was queued is read before the list is    *)
(* emptied; the wait is taken as long enough, and what a browse that failed  *)
(* to start still reads as read by then.                                     *)
Drained(b) == draining[b] = {}

Forget(b) ==
    /\ ctl[b].doing \in {"restart", "stop"} /\ Drained(b)
    /\ found' = [found EXCEPT ![b] = {}]
    /\ ctl' = [ctl EXCEPT ![b] =
          IF @.doing = "stop" THEN Stopped
          ELSE IF @.want = "paused" THEN [Stopped EXCEPT !.applied = "paused"]
          ELSE [@ EXCEPT !.doing = "start", !.applied = None]]
    /\ failed' = IF ctl[b].doing = "stop" \/ ctl[b].want = "paused" THEN failed \ {b} ELSE failed
    /\ UNCHANGED <<draining, fails>>

Start(b) ==
    /\ ctl[b].doing = "start"
    /\ ctl' = [ctl EXCEPT ![b] = [Stopped EXCEPT !.daemon = ctl[b].want, !.applied = ctl[b].want]]
    /\ failed' = failed \ {b}
    /\ UNCHANGED <<found, draining, fails>>

(* The daemon, the interface selection or a browse fails, a consumer that    *)
(* already ran reading on for a moment.                                      *)
StartFails(b) ==
    /\ ctl[b].doing = "start" /\ fails < MaxFails
    /\ fails' = fails + 1
    /\ ctl' = [ctl EXCEPT ![b] = Stopped]
    /\ failed' = failed \union {b}
    /\ \/ UNCHANGED draining
       \/ b = "airplay" /\ draining' = [draining EXCEPT ![b] = @ \union {ctl[b].want}]
    /\ UNCHANGED found

(* A consumer of the running daemon, or of an earlier one, adds what it      *)
(* reads; and ends when that is all.                                         *)
Ingest(b) ==
    /\ \E i \in draining[b] \union ({ctl[b].daemon} \ {None}) :
          found' = [found EXCEPT ![b] = @ \union {i}]
    /\ UNCHANGED <<wanted, scope, refresh, ctl, draining, failed, enabled, sync, moves, fails>>

ConsumerEnds(b) ==
    /\ \E i \in draining[b] : draining' = [draining EXCEPT ![b] = @ \ {i}]
    /\ UNCHANGED <<wanted, scope, refresh, ctl, found, failed, enabled, sync, moves, fails>>

------------------------------------------------------------------------------
(* sync_sendspin_discovery, under its lock: the switch and the scope are     *)
(* read by the one that has the lock.                                        *)
Locked == \E p \in Syncers : sync[p] \in {"read", "apply"}

SyncLocks(p) ==
    /\ sync[p] = "wait" /\ ~Locked
    /\ sync' = [sync EXCEPT ![p] = "read"]
    /\ UNCHANGED <<wanted, scope, refresh, ctl, found, draining, failed, enabled, moves, fails>>

SyncReads(p) ==
    /\ sync[p] = "read"
    /\ sync' = [sync EXCEPT ![p] = "apply"]
    /\ IF ~enabled THEN ShutsDown("sendspin", "stop", None)
       ELSE IF ctl["sendspin"].applied = Interfaces(scope) THEN UNCHANGED <<ctl, draining>>
       ELSE ShutsDown("sendspin", "restart", Interfaces(scope))
    /\ UNCHANGED <<wanted, scope, refresh, found, failed, enabled, moves, fails>>

SyncEnds(p) ==
    /\ sync[p] = "apply" /\ ctl["sendspin"].doing = "none"
    /\ sync' = [sync EXCEPT ![p] = "idle"]
    /\ refresh' = IF p = "netwatch" THEN "idle" ELSE refresh
    /\ UNCHANGED <<wanted, scope, ctl, found, draining, failed, enabled, moves, fails>>

(* The switch is saved, and a thread applies what is saved by then.          *)
Toggle(p) ==
    /\ sync[p] = "idle" /\ moves < MaxMoves
    /\ moves' = moves + 1
    /\ enabled' = ~enabled
    /\ sync' = [sync EXCEPT ![p] = "wait"]
    /\ UNCHANGED <<wanted, scope, refresh, ctl, found, draining, failed, fails>>

------------------------------------------------------------------------------
NetworkChanges ==
    /\ moves < MaxMoves
    /\ moves' = moves + 1
    /\ \E s \in Scopes \ {wanted} : wanted' = s
    /\ UNCHANGED <<scope, refresh, ctl, found, draining, failed, enabled, sync, fails>>

(* refresh_discovery_scope: the scope, the AirPlay browse, the Sendspin one. *)
RefreshScope ==
    /\ refresh = "idle" /\ scope # wanted
    /\ scope' = wanted
    /\ refresh' = "airplay"
    /\ IF ctl["airplay"].applied = Interfaces(wanted) THEN UNCHANGED <<ctl, draining>>
       ELSE ShutsDown("airplay", "restart", Interfaces(wanted))
    /\ UNCHANGED <<wanted, found, failed, enabled, sync, moves, fails>>

AirPlayApplied ==
    /\ refresh = "airplay" /\ ctl["airplay"].doing = "none"
    /\ refresh' = "sendspin"
    /\ sync' = [sync EXCEPT !["netwatch"] = "wait"]
    /\ UNCHANGED <<wanted, scope, ctl, found, draining, failed, enabled, moves, fails>>

(* retry_failed_sendspin_discovery                                           *)
RetryDue == "sendspin" \in failed

Retry ==
    /\ refresh = "idle" /\ scope = wanted /\ RetryDue
    /\ refresh' = "sendspin"
    /\ sync' = [sync EXCEPT !["netwatch"] = "wait"]
    /\ UNCHANGED <<wanted, scope, ctl, found, draining, failed, enabled, moves, fails>>

Controls(b) ==
    /\ Forget(b) \/ Start(b) \/ StartFails(b)
    /\ UNCHANGED <<wanted, scope, refresh, enabled, sync, moves>>

Next ==
    \/ \E b \in Browses : Controls(b)
    \/ \E b \in Browses : Ingest(b)
    \/ \E b \in Browses : ConsumerEnds(b)
    \/ \E p \in Syncers : SyncLocks(p)
    \/ \E p \in Syncers : SyncReads(p)
    \/ \E p \in Syncers : SyncEnds(p)
    \/ \E p \in Togglers : Toggle(p)
    \/ NetworkChanges
    \/ RefreshScope
    \/ AirPlayApplied
    \/ Retry

(* Threads run, the network is looked at every two seconds, and a start does *)
(* not fail for ever (MaxFails).                                             *)
Progress ==
    \/ \E b \in Browses : Controls(b) \/ ConsumerEnds(b)
    \/ \E p \in Syncers : SyncLocks(p) \/ SyncReads(p) \/ SyncEnds(p)
    \/ RefreshScope \/ AirPlayApplied \/ Retry

Spec == Init /\ [][Next]_vars /\ WF_vars(Progress)

------------------------------------------------------------------------------
AtRest(b) ==
    /\ refresh = "idle" /\ scope = wanted
    /\ ctl[b].doing = "none" /\ draining[b] = {}
    /\ b = "sendspin" => \A p \in Syncers : sync[p] = "idle"

(* "quick toggles settle on the last one" (sendspin_app.rs:295), whatever    *)
(* the network does meanwhile: a browse at rest runs where the network is    *)
(* now, unless it is known to have failed, and the Sendspin one only while   *)
(* that is switched on; and nothing found through other interfaces lingers   *)
(* in a list.                                                                *)
BrowsesHere ==
    \A b \in Browses : AtRest(b) =>
        /\ found[b] \subseteq {Interfaces(scope)}
        /\ IF b = "sendspin" /\ ~enabled THEN ctl[b] = Stopped /\ found[b] = {} /\ b \notin failed
           ELSE ctl[b].applied = Interfaces(scope) \/ b \in failed

(* "It will keep trying." (sendspin_app.rs:238)                              *)
Kept == refresh = "idle" /\ "sendspin" \notin failed /\ scope = wanted
KeepsTrying == []<>Kept
==============================================================================
