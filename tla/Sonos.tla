------------------------------- MODULE Sonos -------------------------------
(* Sonos rooms in groups, each group with one coordinator to stream to, and  *)
(* units bonded to a room that are never streamed to.  Each serves the       *)
(* topology as it knows it, its own place in it truly.  A scan reads one     *)
(* topology, asks the units it would hide, and keeps their last answers; a   *)
(* select asks the speaker again.                                            *)
EXTENDS Naturals, FiniteSets

CONSTANTS
    None,
    Rooms, Subs,        \* units: rooms, and units bonded to one
    BondedTo(_),
    RememberedScans,    \* scans in a row a unit may be missing from
    MaxMoves            \* changes of groups and addresses

VARIABLES
    coord,      \* the coordinator of a room's group
    at,         \* which of its addresses a room has
    view,       \* the topology a room and those bonded to it serve
    scan,       \* a scan under way; one at a time here
    memory,     \* SelfReports: a unit at an address -> its last report, its age in scans
    grouped,    \* the rooms that were in another one's group
    moves

vars == <<coord, at, view, scan, memory, grouped, moves>>
household == <<coord, at, view, grouped, moves>>

Units == Rooms \union Subs
RoomOf(u) == IF u \in Subs THEN BondedTo(u) ELSE u
Topologies == {f \in [Rooms -> Rooms] : \A r \in Rooms : f[f[r]] = f[r]}
Idle == [step |-> "idle"]
UnitAddrs == {1, 2}
Keys == Units \X UnitAddrs

ConstantsOK ==
    /\ Rooms \intersect Subs = {} /\ \A u \in Subs : BondedTo(u) \in Rooms
    /\ None \notin Keys \union {"Hidden", "Listed"}

Key(u) == <<u, at[RoomOf(u)]>>

Init ==
    /\ coord \in Topologies
    /\ at = [r \in Rooms |-> 1]
    /\ \E known \in [Rooms -> Topologies] :
          /\ \A r \in Rooms : known[r][r] = coord[r]
          /\ view = [r \in Rooms |-> [coord |-> known[r], loc |-> at]]
    /\ scan = Idle
    /\ memory = [k \in Keys |-> None]
    /\ grouped = {r \in Rooms : coord[r] # r} /\ moves = 0

------------------------------------------------------------------------------
(* The household: a unit knows of its own changes at once, of others later.  *)
Move == moves < MaxMoves /\ moves' = moves + 1
Now == [coord |-> coord', loc |-> at']

Regroup ==
    /\ Move
    /\ \E f \in Topologies \ {coord} : coord' = f
    /\ UNCHANGED at
    /\ view' = [r \in Rooms |-> IF coord'[r] # coord[r] THEN Now ELSE view[r]]
    /\ grouped' = grouped \union {r \in Rooms : coord'[r] # r}
    /\ UNCHANGED <<scan, memory>>

Readdressed(r) ==
    /\ Move /\ at[r] = 1
    /\ at' = [at EXCEPT ![r] = 2]
    /\ view' = [view EXCEPT ![r].loc[r] = 2]
    /\ UNCHANGED <<coord, scan, memory, grouped>>

Learns(r) ==
    /\ view[r] # [coord |-> coord, loc |-> at]
    /\ view' = [view EXCEPT ![r] = [coord |-> coord, loc |-> at]]
    /\ UNCHANGED <<coord, at, scan, memory, grouped, moves>>

------------------------------------------------------------------------------
(* standing, and self_report: a bonded unit and a member are hidden.         *)
Standing(topology, u) ==
    IF u \in Subs \/ topology.coord[u] # u THEN "Hidden" ELSE "Listed"

Doubted(s) == {k \in s.units : Standing(s.topology, k[1]) = "Hidden"}

(* A scan finds some of the units, and reads the topology of one; without    *)
(* any topology the list is left as discovery found it.                      *)
ScanReads ==
    /\ scan = Idle
    /\ \E units \in SUBSET {Key(u) : u \in Units}, source \in Units :
          /\ Key(source) \in units
          /\ scan' = [step |-> "ask", units |-> units, source |-> Key(source),
                      topology |-> view[RoomOf(source)]]
    /\ UNCHANGED <<household, memory>>

(* own_answer of each unit the topology would hide; some do not answer.      *)
ScanAsks ==
    /\ scan.step = "ask"
    /\ LET own(k) == IF k = scan.source THEN scan.topology ELSE view[RoomOf(k[1])]
       IN  \E silent \in SUBSET (Doubted(scan) \ {scan.source}) :
              /\ \A k \in Doubted(scan) \ silent : k = scan.source \/ k = Key(k[1])
              /\ scan' = [step |-> "apply", units |-> scan.units, topology |-> scan.topology,
                          reports |-> [k \in Doubted(scan) |-> IF k \in silent THEN None ELSE Standing(own(k), k[1])]]
    /\ UNCHANGED <<household, memory>>

(* settle: what is not answered is taken as last said; a unit missing from   *)
(* some scans in a row is forgotten.                                         *)
Remembered(s) ==
    [k \in Keys |->
        LET entry == IF memory[k] # None /\ k \in s.units THEN [memory[k] EXCEPT !.age = 0]
                     ELSE IF memory[k] # None THEN [memory[k] EXCEPT !.age = @ + 1] ELSE None
        IN  IF k \in Doubted(s) /\ s.reports[k] # None THEN [report |-> s.reports[k], age |-> 0]
            ELSE IF entry # None /\ entry.age < RememberedScans THEN entry ELSE None]

Word(s, k) ==
    IF s.reports[k] # None THEN s.reports[k]
    ELSE IF memory[k] # None THEN memory[k].report ELSE None

(* Mutant: what one unit's topology hides is hidden.                         *)
HiddenByAnyone(s) == Doubted(s)

(* apply_topology: hidden only on its own word.                              *)
HiddenOf(s) == {k \in Doubted(s) : Word(s, k) = "Hidden"}

(* The coordinators that discovery missed, for a member it found, described  *)
(* at the address the topology has for them.                                 *)
Missed(s) ==
    LET units == {k[1] : k \in s.units}
    IN  {c \in Rooms : c \notin units /\ s.topology.coord[c] = c
            /\ \E u \in units : s.topology.coord[RoomOf(u)] = c}

Described(s) == {<<c, at[c]>> : c \in {c \in Missed(s) : at[c] = s.topology.loc[c]}}

Listed(s) == s.units \ HiddenOf(s)

ScanApplies ==
    /\ scan.step = "apply"
    /\ memory' = Remembered(scan)
    /\ scan' = Idle
    /\ UNCHANGED household

(* Discovery moves to another network: SelfReports is cleared.               *)
NetworkChanges ==
    /\ Move
    /\ memory' = [k \in Keys |-> None]
    /\ UNCHANGED <<coord, at, view, scan, grouped>>

Next ==
    \/ Regroup
    \/ \E r \in Rooms : Readdressed(r)
    \/ \E r \in Rooms : Learns(r)
    \/ ScanReads
    \/ ScanAsks
    \/ ScanApplies
    \/ NetworkChanges

Spec == Init /\ [][Next]_vars

------------------------------------------------------------------------------
(* A select of the listed `k`: resolve_with.  The topology is the speaker's  *)
(* own; the coordinator is taken from the list only at the address that      *)
(* topology has for it, else from a description there.                       *)
Verified(list, c, loc) ==
    IF <<c, loc>> \in list \/ at[c] = loc THEN <<c, loc>> ELSE None

Target(list, k) ==
    LET topology == view[RoomOf(k[1])]
        c == topology.coord[RoomOf(k[1])]
    IN  IF k # Key(k[1]) \/ c = k[1] \/ Verified(list, c, topology.loc[c]) = None THEN k
        ELSE Verified(list, c, topology.loc[c])

(* "a unit is hidden only on its own word" (sonos.rs:32): a room that always *)
(* coordinated itself is in every list whose scan found it, whatever the     *)
(* topologies of others say.                                                 *)
OwnWordOnly ==
    scan.step = "apply" => \A k \in scan.units : k[1] \in Rooms \ grouped => k \in Listed(scan)

(* A bonded unit that said so "doesn't flicker into the list for a scan"     *)
(* (sonos.rs:514), as long as a scan reads a topology.                       *)
NoFlicker ==
    scan.step = "apply" =>
        \A k \in scan.units : k[1] \in Subs /\ memory[k] # None => k \notin Listed(scan)

(* "the members would otherwise all vanish from the list" (sonos.rs:300): a  *)
(* member is hidden only with its coordinator listed, when all know the same *)
(* of the group and the coordinator was found or can be described.           *)
GroupReachable ==
    scan.step = "apply" =>
        \A k \in HiddenOf(scan) :
            LET c == coord[RoomOf(k[1])]
            IN  scan.topology = [coord |-> coord, loc |-> at] => <<c, at[c]>> \in Listed(scan) \union Described(scan)

(* Whatever is listed by then: what is streamed to coordinates its group, as *)
(* the speaker picked knows it, at the address that has for it.              *)
TargetCoordinates ==
    \A k, other \in Keys :
        LET r == RoomOf(k[1])
            c == coord[r]
        IN  (k = Key(k[1]) /\ view[r].loc[c] = at[c]) => Target({k, other}, k) = <<c, at[c]>>

SonosTrue == OwnWordOnly /\ NoFlicker /\ GroupReachable /\ TargetCoordinates
==============================================================================
