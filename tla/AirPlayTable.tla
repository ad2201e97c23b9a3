---------------------------- MODULE AirPlayTable ----------------------------
(* What is known of the AirPlay receivers: each announces itself under two   *)
(* services, read by a thread each into tables of their own, which are put   *)
(* together when somebody looks; HomePods of one group (tsid) are folded     *)
(* into one stereo pair, with a memory of who was seen in it.  An event is   *)
(* taken as it stands when its thread reads it.                              *)
EXTENDS Naturals, FiniteSets

CONSTANTS
    None,
    HomePods, Others,   \* receivers, by MAC: those with AudioAccessory models, the rest
    Names, Tsids,
    MaxMoves            \* changes of the receivers and of the network

VARIABLES
    dev,        \* a receiver: on, its name, its group
    due,        \* announcements not yet read
    byes,       \* removals of names still to come
    raop,       \* the receivers with a _raop._tcp record
    airplay,    \* the groups of those with an _airplay._tcp record
    names,      \* instance name -> receiver
    memory,     \* group -> the HomePods seen in it
    upsert,     \* the _airplay._tcp record being put in
    moves

vars == <<dev, due, byes, raop, airplay, names, memory, upsert, moves>>
tables == <<raop, airplay, names, memory, upsert>>

Macs == HomePods \union Others
Services == {"raop", "airplay"}
Idle == [at |-> "idle"]
Unknown == "unknown"

ConstantsOK ==
    /\ None \notin Macs \union Tsids \union {Unknown, "ap2", "raop"} /\ Unknown \notin Tsids
    /\ IsFiniteSet(HomePods)
    /\ \E n \in [Macs -> Names] : \A a, b \in Macs : n[a] = n[b] => a = b

Init ==
    /\ LET name == CHOOSE n \in [Macs -> Names] : \A a, b \in Macs : n[a] = n[b] => a = b
       IN  \E on \in SUBSET HomePods, tsid \in [Macs -> Tsids \union {None}] :
              dev = [m \in Macs |-> [on |-> m \in on, name |-> name[m], tsid |-> tsid[m]]]
    /\ due = Services \X {m \in Macs : dev[m].on}
    /\ byes = {} /\ raop = {}
    /\ airplay = [m \in Macs |-> Unknown]
    /\ names = [n \in Names |-> None]
    /\ memory = [t \in Tsids |-> {}]
    /\ upsert = Idle /\ moves = 0

------------------------------------------------------------------------------
(* The receivers.  One whose name changes announces the new one, and the old *)
(* is removed at some time; a name whose removal is still to come is nobody  *)
(* else's, since the library knows a service by its name only.               *)
Announce(m) == due' = due \union (Services \X {m})
Leaves(m) == byes' = byes \union {[svc |-> s, name |-> dev[m].name, mac |-> m] : s \in Services}
Outgoing(n) == \E b \in byes : b.name = n

Move == moves < MaxMoves /\ moves' = moves + 1

TurnsOn(m) ==
    /\ Move /\ ~dev[m].on /\ ~Outgoing(dev[m].name)
    /\ dev' = [dev EXCEPT ![m].on = TRUE]
    /\ Announce(m)
    /\ UNCHANGED <<byes, tables>>

TurnsOff(m) ==
    /\ Move /\ dev[m].on
    /\ dev' = [dev EXCEPT ![m].on = FALSE]
    /\ due' = due \ (Services \X {m})
    /\ Leaves(m)
    /\ UNCHANGED tables

Renamed(m) ==
    /\ Move /\ dev[m].on
    /\ \E n \in Names :
          /\ ~Outgoing(n) /\ \A k \in Macs : dev[k].name # n
          /\ dev' = [dev EXCEPT ![m].name = n]
    /\ Announce(m) /\ Leaves(m)
    /\ UNCHANGED tables

Regrouped(m) ==
    /\ Move /\ dev[m].on
    /\ \E t \in (Tsids \union {None}) \ {dev[m].tsid} : dev' = [dev EXCEPT ![m].tsid = t]
    /\ due' = due \union {<<"airplay", m>>}
    /\ UNCHANGED <<byes, tables>>

(* The browse is restarted: what was queued has been read by then; the       *)
(* names and the memory of pairs are kept.                                   *)
Clear ==
    /\ Move /\ upsert = Idle
    /\ raop' = {} /\ airplay' = [m \in Macs |-> Unknown]
    /\ due' = Services \X {m \in Macs : dev[m].on}
    /\ byes' = {}
    /\ UNCHANGED <<dev, names, memory, upsert>>

------------------------------------------------------------------------------
(* The _raop._tcp thread.                                                    *)
RaopResolved(m) ==
    /\ <<"raop", m>> \in due
    /\ due' = due \ {<<"raop", m>>}
    /\ raop' = raop \union {m}
    /\ UNCHANGED <<dev, byes, airplay, names, memory, upsert, moves>>

\* The MAC is in the name, an old name's too.
RaopRemoved ==
    /\ \E b \in byes :
          /\ b.svc = "raop"
          /\ byes' = byes \ {b} /\ raop' = raop \ {b.mac}
    /\ UNCHANGED <<dev, due, airplay, names, memory, upsert, moves>>

------------------------------------------------------------------------------
(* The _airplay._tcp thread: the memory, the names and the table, each under *)
(* a lock of its own.                                                        *)
AirPlayResolved(m) ==
    /\ <<"airplay", m>> \in due /\ upsert = Idle
    /\ due' = due \ {<<"airplay", m>>}
    /\ upsert' = [at |-> "memory", mac |-> m, name |-> dev[m].name, tsid |-> dev[m].tsid]
    /\ UNCHANGED <<dev, byes, raop, airplay, names, memory, moves>>

(* Mutant: a group that was left is not forgotten.                           *)
NotForgotten(macs, m) == macs

Without(macs, m) == macs \ {m}

UpsertMemory ==
    /\ upsert.at = "memory"
    /\ memory' = [t \in Tsids |->
          IF t # upsert.tsid THEN Without(memory[t], upsert.mac)
          ELSE IF upsert.mac \in HomePods THEN memory[t] \union {upsert.mac} ELSE memory[t]]
    /\ upsert' = [upsert EXCEPT !.at = "names"]
    /\ UNCHANGED <<dev, due, byes, raop, airplay, names, moves>>

\* One name for each receiver: its old one is forgotten.
UpsertNames ==
    /\ upsert.at = "names"
    /\ names' = [n \in Names |->
          IF n = upsert.name THEN upsert.mac ELSE IF names[n] = upsert.mac THEN None ELSE names[n]]
    /\ upsert' = [upsert EXCEPT !.at = "table"]
    /\ UNCHANGED <<dev, due, byes, raop, airplay, memory, moves>>

UpsertTable ==
    /\ upsert.at = "table"
    /\ airplay' = [airplay EXCEPT ![upsert.mac] = upsert.tsid]
    /\ upsert' = Idle
    /\ UNCHANGED <<dev, due, byes, raop, names, memory, moves>>

(* remove_airplay_instance: of a HomePod known by that name.                 *)
AirPlayRemoved ==
    /\ upsert = Idle
    /\ \E b \in byes :
          /\ b.svc = "airplay" /\ byes' = byes \ {b}
          /\ LET m == names[b.name] IN
             IF m \in HomePods /\ airplay[m] # Unknown
             THEN names' = [names EXCEPT ![b.name] = None] /\ airplay' = [airplay EXCEPT ![m] = Unknown]
             ELSE UNCHANGED <<names, airplay>>
    /\ UNCHANGED <<dev, due, raop, memory, upsert, moves>>

Next ==
    \/ \E m \in Macs : TurnsOn(m)
    \/ \E m \in Macs : TurnsOff(m)
    \/ \E m \in Macs : Renamed(m)
    \/ \E m \in HomePods : Regrouped(m)
    \/ Clear
    \/ \E m \in Macs : RaopResolved(m)
    \/ RaopRemoved
    \/ \E m \in Macs : AirPlayResolved(m)
    \/ UpsertMemory \/ UpsertNames \/ UpsertTable
    \/ AirPlayRemoved

Spec == Init /\ [][Next]_vars

------------------------------------------------------------------------------
(* What a look comes to.  A receiver is known by either half; whether it is  *)
(* a HomePod is in both, AirPlay 2 and the group only in its own.            *)
HasAirPlay(m) == airplay[m] # Unknown
Known(m) == m \in raop \/ HasAirPlay(m)

IsHomePod(m) == Known(m) /\ m \in HomePods

Transport(m) ==
    IF IsHomePod(m) THEN (IF HasAirPlay(m) THEN "ap2" ELSE None)
    ELSE IF m \in raop THEN "raop"
    ELSE IF HasAirPlay(m) THEN "ap2" ELSE None

Pairs == {t \in Tsids : Cardinality(memory[t]) >= 2}
Members(t) == {m \in memory[t] : Known(m)}
IsComplete(t) == Members(t) = memory[t]
PairTransport(t) == IF IsComplete(t) /\ \A m \in Members(t) : HasAirPlay(m) THEN "ap2" ELSE None

(* find_by_id of a receiver: its pair, or itself.                            *)
PairOf(m) == {t \in Pairs : m \in memory[t]}

(* pair_launch_step, for a saved receiver.                                   *)
PairLaunch(m) ==
    IF \E t \in PairOf(m) : Members(t) # {}
    THEN (IF \A t \in PairOf(m) : IsComplete(t) THEN "ready" ELSE "wait")
    ELSE IF PairOf(m) = {} /\ IsHomePod(m) /\ HasAirPlay(m) /\ airplay[m] # None THEN "wait"
    ELSE "not a pair"

------------------------------------------------------------------------------
AtRest == due = {} /\ byes = {} /\ upsert = Idle
Grouped(t) == {m \in HomePods : dev[m].tsid = t}

(* "a late removal of the old name can't evict the current record"           *)
(* (discovery.rs:449): once everything announced has been read, a HomePod    *)
(* has its record if and only if it is on.                                   *)
HomePodHeld == AtRest => \A m \in HomePods : HasAirPlay(m) <=> dev[m].on

(* "playing one member alone would break the pair" (discovery.rs:382): then  *)
(* the HomePods of a group that are all on make one pair, which a launch     *)
(* takes for whole and which plays; one that stands alone is no pair's; and  *)
(* what plays has nobody missing.  A HomePod that went off stays remembered  *)
(* in the group it was last seen in.                                         *)
PairSelectable ==
    AtRest => \A m \in HomePods :
        LET group == IF dev[m].tsid = None THEN {m} ELSE Grouped(dev[m].tsid)
            absent == (UNION {memory[t] : t \in PairOf(m)}) \ {k \in Macs : dev[k].on}
        IN  /\ \A p \in PairOf(m) : PairTransport(p) = "ap2" <=> absent = {}
            /\ ((\A k \in group : dev[k].on) /\ absent = {}) =>
                  IF Cardinality(group) >= 2
                  THEN PairOf(m) = {dev[m].tsid} /\ Members(dev[m].tsid) = group /\ PairLaunch(m) = "ready"
                  ELSE PairOf(m) = {} /\ Transport(m) = "ap2"

(* A receiver is in one pair at most, and no HomePod is ever played over     *)
(* RAOP, whichever half is known first.                                      *)
OnePair ==
    \A m \in Macs :
        /\ Cardinality({t \in Tsids : m \in memory[t]}) <= 1
        /\ m \in HomePods => Transport(m) # "raop"

PairsWhole == HomePodHeld /\ PairSelectable /\ OnePair
==============================================================================
