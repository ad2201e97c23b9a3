------------------------------ MODULE UpnpScan ------------------------------
(* The list of UPnP renderers: the sweep that runs for ever and the rescan   *)
(* the user or a change of network asks for, both of which search for        *)
(* seconds and then fill the list; the monitor that moves discovery to       *)
(* another network; and the identities (UDN), which devices only claim, with *)
(* the addresses each is trusted at.                                         *)
EXTENDS Naturals, FiniteSets

CONSTANTS
    None,
    Udns, Descs,    \* identities; names, models and paths a device shows
    Addrs,          \* addresses, numbers: the lowest sorts first
    Scopes,         \* networks to search, and "paused"
    Reach(_),       \* the addresses a search of a network can find
    MaxMoves        \* changes of network

VARIABLES
    wanted,     \* what the saved choice and the adapters come to now
    scope,      \* the scope last applied
    refresh,    \* the thread that applies it: "idle", "clear" or "rescan"
    inFlight,   \* a rescan is running
    scan,       \* the two searching threads
    list,       \* the renderers listed
    pins,       \* the addresses a UDN was accepted at
    missed,     \* the UDNs whose control address the last scan missed
    conflicted, \* the UDNs several different devices claim
    moves,
    steady,     \* the UDNs whose control address answered the last scan of them
    late        \* the list is of another network than the scope

vars == <<wanted, scope, refresh, inFlight, scan, list, pins, missed, conflicted, moves, steady, late>>
identVars == <<list, pins, missed, conflicted, steady, late>>

Threads == {"sweep", "rescan"}
Idle == [at |-> "idle", used |-> "paused", checked |-> "paused"]

Entry(u, ip, desc, addrs, conflict) ==
    [udn |-> u, ip |-> ip, desc |-> desc, addrs |-> addrs, conflict |-> conflict]
Claim(u, d) == [udn |-> u, desc |-> d]

ConstantsOK == Addrs \subseteq Nat /\ \A u \in Udns, d \in Descs : None # Claim(u, d)

Init ==
    /\ scope \in Scopes /\ wanted = scope
    /\ refresh = "idle" /\ inFlight = FALSE
    /\ scan = [t \in Threads |-> Idle]
    /\ list = {} /\ pins = [u \in Udns |-> {}]
    /\ missed = {} /\ conflicted = {} /\ moves = 0
    /\ steady = {} /\ late = FALSE

------------------------------------------------------------------------------
(* resolve_udn_conflicts: the claimants of `u` among what a scan found.      *)
Claimants(found, u) == {a \in Addrs : found[a] # None /\ found[a].udn = u}

Lowest(S) == CHOOSE a \in S : \A b \in S : a <= b

(* While a pinned address answers, others are let in only with the same      *)
(* description.                                                              *)
Accepted(found, u) ==
    LET claimants == Claimants(found, u)
        pinned == claimants \intersect pins[u]
    IN  IF pinned = {} THEN claimants
        ELSE pinned \union {a \in claimants : found[a].desc = found[Lowest(pinned)].desc}

PrevControl(u) == {e \in list : e.udn = u /\ ~e.conflict}

(* What a scan comes to for `u`: several entries when the accepted differ;   *)
(* else one, controlled at the previous control address while that answers,  *)
(* and through one scan that misses it.                                      *)
Resolution(found, u) ==
    LET accepted == Accepted(found, u)
        known == accepted \intersect pins[u] # {}
        set == IF known THEN pins[u] \union accepted ELSE accepted
        prev == PrevControl(u)
        waits == known /\ u \notin missed /\ \E e \in prev : e.ip \in set \ accepted
        at == IF \E e \in prev : e.ip \in accepted THEN (CHOOSE e \in prev : TRUE).ip ELSE Lowest(accepted)
    IN  IF \E a, b \in accepted : found[a].desc # found[b].desc
        THEN [split |-> TRUE, pins |-> pins[u], waits |-> u \in missed,
              entries |-> {Entry(u, a, found[a].desc, {a}, TRUE) : a \in accepted}]
        ELSE [split |-> FALSE, pins |-> set, waits |-> waits,
              entries |-> IF waits THEN {[e EXCEPT !.addrs = @ \union set] : e \in prev}
                          ELSE {Entry(u, at, found[at].desc, set, FALSE)}]

(* discover_once: which of the devices in reach answer is anybody's guess.   *)
Answers(used) ==
    {f \in [Addrs -> {None} \union {Claim(u, d) : u \in Udns, d \in Descs}] :
        \A a \in Addrs : f[a] # None => a \in Reach(used)}

(* replace: the list and the identities a scan leaves.                       *)
Settle(found) ==
    LET claimed == {u \in Udns : Claimants(found, u) # {}}
        after == [u \in claimed |-> Resolution(found, u)]
    IN  /\ list' = UNION {after[u].entries : u \in claimed}
        /\ pins' = [u \in Udns |-> IF u \in claimed THEN after[u].pins ELSE pins[u]]
        /\ missed' = (missed \ claimed) \union {u \in claimed : after[u].waits}
        /\ conflicted' = {u \in claimed : after[u].split}
        /\ steady' = (steady \ claimed) \union
              {u \in claimed : \E e \in after[u].entries : found[e.ip] # None /\ found[e.ip].udn = u}

Replace(t) ==
    /\ scan[t].at = "replace"
    /\ \E found \in Answers(scan[t].used) :
          /\ Settle(found)
          /\ late' = (scan[t].checked # scope \/ (late /\ \E e \in list' : e.ip \notin Reach(scope)))
    /\ scan' = [scan EXCEPT ![t] = Idle]
    /\ inFlight' = (inFlight /\ t # "rescan")
    /\ UNCHANGED <<wanted, scope, refresh, moves>>

------------------------------------------------------------------------------
(* discover_once takes seconds; what it finds matters when it is used.       *)
Begin(t) == scan' = [scan EXCEPT ![t] = [at |-> "search", used |-> scope, checked |-> "paused"]]

SweepStarts ==
    /\ scan["sweep"].at = "idle" /\ scope # "paused"
    /\ Begin("sweep")
    /\ UNCHANGED <<wanted, scope, refresh, inFlight, moves, identVars>>

GivenUp(t) ==
    /\ scan' = [scan EXCEPT ![t] = Idle]
    /\ inFlight' = (inFlight /\ t # "rescan")
    /\ UNCHANGED <<wanted, scope, refresh, moves, identVars>>

SearchFails(t) == scan[t].at = "search" /\ GivenUp(t)

(* Mutant: whatever was searched is taken.                                   *)
AnyNetwork(t) == TRUE

SameNetwork(t) == scan[t].used = scope

(* What was searched is compared with the scope, and used afterwards.        *)
Check(t) ==
    /\ scan[t].at = "search"
    /\ \/ /\ SameNetwork(t)
          /\ scan' = [scan EXCEPT ![t] = [@ EXCEPT !.at = "replace", !.checked = scope]]
          /\ UNCHANGED <<wanted, scope, refresh, inFlight, moves, identVars>>
       \/ ~SameNetwork(t) /\ GivenUp(t)

(* trigger_rescan, from the window or from a change of network.              *)
Rescan ==
    IF ~inFlight /\ scope # "paused"
    THEN inFlight' = TRUE /\ Begin("rescan")
    ELSE UNCHANGED <<inFlight, scan>>

UserRescans ==
    /\ ~inFlight /\ scope # "paused"
    /\ Rescan
    /\ UNCHANGED <<wanted, scope, refresh, moves, identVars>>

------------------------------------------------------------------------------
(* An adapter goes or comes, or the user chooses another.                    *)
NetworkChanges ==
    /\ moves < MaxMoves
    /\ moves' = moves + 1
    /\ \E s \in Scopes \ {wanted} : wanted' = s
    /\ UNCHANGED <<scope, refresh, inFlight, scan, identVars>>

(* refresh_discovery_scope, one at a time: the scope, then mDNS, then the    *)
(* list, then a new search.                                                  *)
RefreshScope ==
    /\ refresh = "idle" /\ scope # wanted
    /\ scope' = wanted
    /\ refresh' = "clear"
    /\ UNCHANGED <<wanted, inFlight, scan, moves, identVars>>

RefreshClear ==
    /\ refresh = "clear"
    /\ list' = {} /\ late' = FALSE
    /\ refresh' = "rescan"
    /\ UNCHANGED <<wanted, scope, inFlight, scan, moves, pins, missed, conflicted, steady>>

RefreshRescan ==
    /\ refresh = "rescan"
    /\ Rescan
    /\ refresh' = "idle"
    /\ UNCHANGED <<wanted, scope, moves, identVars>>

Next ==
    \/ SweepStarts
    \/ \E t \in Threads : SearchFails(t)
    \/ \E t \in Threads : Check(t)
    \/ \E t \in Threads : Replace(t)
    \/ UserRescans
    \/ NetworkChanges
    \/ RefreshScope
    \/ RefreshClear
    \/ RefreshRescan

Spec == Init /\ [][Next]_vars

------------------------------------------------------------------------------
(* A finding of `u` at one address is what selecting its UDN gives.          *)
FindById(u) == IF u \in conflicted THEN {} ELSE PrevControl(u)

(* "A sweep whose scope changed while it ran is discarded" (ssdp.rs:479):    *)
(* what is listed was found on the network of the scope, a kept control      *)
(* address included, except when the scope changes between a scan's check    *)
(* and its replace.                                                          *)
OfThisNetwork ==
    (refresh # "clear" /\ ~late) => \A e \in list : e.ip \in Reach(scope)

(* An identity selects one device or none, and what is controlled is at an   *)
(* address it was accepted at.                                               *)
OneIdentity ==
    \A u \in Udns :
        /\ Cardinality(PrevControl(u)) <= 1
        /\ \A e \in PrevControl(u) : u \notin conflicted \/ list = {}
        /\ \A e \in FindById(u) : e.ip \in e.addrs /\ e.addrs = pins[u]

(* Whatever the next scan finds: a device that answers keeps its identity    *)
(* and stays the one selected, whoever else claims it, as long as those it   *)
(* was accepted with show its description; and one lost answer does not move *)
(* the control elsewhere.                                                    *)
NotTakenOver ==
    \A u \in Udns : \A e \in FindById(u), found \in Answers(scope) :
        LET claim(a) == found[a] # None /\ found[a].udn = u
            same(a) == found[a] = Claim(u, e.desc)
            trusted == \A a \in pins[u] : claim(a) => same(a)
            onceMissed == u \in steady /\ found[e.ip] = None /\ \E a \in pins[u] : same(a)
            after == Resolution(found, u)
        IN  (trusted /\ (same(e.ip) \/ onceMissed)) =>
                ~after.split /\ \E f \in after.entries : f.ip = e.ip /\ f.desc = e.desc

UpnpListTrue == OfThisNetwork /\ OneIdentity /\ NotTakenOver
==============================================================================
