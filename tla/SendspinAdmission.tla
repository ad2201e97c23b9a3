-------------------------- MODULE SendspinAdmission --------------------------
(* The Sendspin source's listener: the slots its connections hold, the      *)
(* handshake and the activation that admits one of them, the one it         *)
(* displaces, the timer that closes those never admitted, pairing attempts  *)
(* and the end of a connection and of the service.  Servers are external    *)
(* and may send anything at any time.                                       *)
EXTENDS Naturals, FiniteSets

CONSTANTS
    Addrs,                          \* addresses servers connect from
    Servers, Runs,                  \* server identities, and whose server runs at each address
    Conns,                          \* 1..n, the connections of a behaviour, in accept order
    MAX_CONNECTIONS, MAX_CONNECTIONS_PER_ADDRESS,
    Categories,                     \* the keys servers come with, of LongTerm, Pairing, Sentinel
    MaxActivations                  \* bound on the activations of a behaviour

None == 0
Acts == [playback : BOOLEAN, pairing : BOOLEAN]

ConstantsOK ==
    /\ IsFiniteSet(Conns) /\ Conns = 1 .. Cardinality(Conns) /\ Conns # {}
    /\ Categories \subseteq {"LongTerm", "Pairing", "Sentinel"}
    /\ MAX_CONNECTIONS \in Nat \ {0} /\ MAX_CONNECTIONS_PER_ADDRESS \in Nat \ {0}
    /\ Runs \in [Addrs -> Servers]
ASSUME AdmissionAssumption == ConstantsOK

VARIABLES
    next,        \* the next connection to be accepted
    held,        \* the connections with a slot
    making,      \* <<accepted, replaced>>: what the accept thread has in hand
    admitted,    \* the admitted connection: [id, rank, server, pairing, category], or Nobody
    phase,       \* each connection thread's place
    open,        \* each connection's socket
    addr, category,
    in,          \* each connection thread's own "admitted"
    stop,
    paired,      \* servers with a pairing record
    last,        \* last_playback_server
    activations

vars == <<next, held, making, admitted, phase, open, addr, category, in, stop,
          paired, last, activations>>
conn == <<addr, category, in>>
stored == <<paired, last>>

Nobody == [id |-> None, rank |-> 0, server |-> None, pairing |-> FALSE, category |-> "Sentinel"]
Nothing == <<None, None>>

Init ==
    /\ next = 1 /\ held = {} /\ making = Nothing /\ admitted = Nobody
    /\ phase = [c \in Conns |-> "none"] /\ open = [c \in Conns |-> FALSE]
    /\ addr = [c \in Conns |-> None]
    /\ category = [c \in Conns |-> "Sentinel"]
    /\ in = [c \in Conns |-> FALSE]
    /\ stop = FALSE
    /\ paired \in SUBSET Servers /\ last \in paired \cup {None}
    /\ activations = 0

-----------------------------------------------------------------------------
(* The accept thread. *)

Share(a, among) == Cardinality({h \in among : addr[h] = a})

\* Who makes way: of those not admitted, the oldest of the address that holds most.
MakesWay(notHim) ==
    LET others == held \ {notHim}
    IN {c \in others : \A d \in others \ {c} :
            \/ Share(addr[c], others) > Share(addr[d], others)
            \/ Share(addr[c], others) = Share(addr[d], others) /\ c < d}

\* A slot for the accepted connection, found while admission cannot change.
Accept ==
    /\ ~stop /\ making = Nothing /\ next \in Conns
    /\ next' = next + 1
    /\ \E a \in Addrs :
        LET gone == IF Cardinality(held) < MAX_CONNECTIONS THEN {None} ELSE MakesWay(admitted.id)
        IN IF Share(a, held) >= MAX_CONNECTIONS_PER_ADDRESS \/ gone = {}
           THEN UNCHANGED <<held, making, open, addr>>
           ELSE \E g \in gone :
                    /\ held' = (held \ {g}) \cup {next}
                    /\ making' = <<next, g>>
                    /\ open' = [open EXCEPT ![next] = TRUE]
                    /\ addr' = [addr EXCEPT ![next] = a]
    /\ UNCHANGED <<admitted, phase, category, in, stop, stored, activations>>

\* The replaced connection is closed, and the new one's thread started.
Spawn ==
    /\ making # Nothing
    /\ making' = Nothing
    /\ open' = [c \in Conns |-> open[c] /\ c # making[2]]
    /\ phase' = [phase EXCEPT ![making[1]] = "handshake"]
    /\ UNCHANGED <<next, held, admitted, conn, stop, stored, activations>>

\* The thread does not start, and the slot is given back.
SpawnFails ==
    /\ making # Nothing
    /\ making' = Nothing
    /\ open' = [c \in Conns |-> open[c] /\ c \notin {making[1], making[2]}]
    /\ held' = held \ {making[1]}
    /\ UNCHANGED <<next, admitted, phase, conn, stop, stored, activations>>

-----------------------------------------------------------------------------
(* A connection's thread. *)

Server(c) == Runs[addr[c]]

\* The keys the peer proves: a record of its own, our pairing secret, or neither.
Resolved(s) == Categories \ IF s \in paired THEN {} ELSE {"LongTerm"}

Handshake(c) ==
    /\ phase[c] = "handshake" /\ open[c]
    /\ \E k \in Resolved(Server(c)) : category' = [category EXCEPT ![c] = k]
    /\ phase' = [phase EXCEPT ![c] = "loop"]
    /\ UNCHANGED <<next, held, making, admitted, open, addr, in, stop, stored, activations>>

\* Unpaired access is off: without a long-term key there is nothing to do but pair.
Admissible(k, a) ==
    /\ ~(a.pairing /\ a.playback /\ k = "LongTerm")
    /\ a.playback => k = "LongTerm"

Rank(a) == IF a.playback THEN 2 ELSE IF a.pairing THEN 1 ELSE 0

MayDisplace(cur, c, k, a) ==
    \/ cur.server = Server(c) \/ cur.id = c
    \/ k = "LongTerm" /\ cur.category = "Sentinel"
    \/ /\ ~(cur.category = "LongTerm" /\ k # "LongTerm")
       /\ ~cur.pairing /\ Rank(a) >= cur.rank
       /\ Rank(a) = 0 /\ cur.rank = 0 => last = Server(c) /\ last # cur.server

Entry(c, a) ==
    [id |-> c, rank |-> Rank(a), server |-> Server(c), pairing |-> a.pairing, category |-> category[c]]

Leaves(c) == phase' = [phase EXCEPT ![c] = "ending"] /\ open' = [open EXCEPT ![c] = FALSE]

\* Only a connection that still has its slot is admitted; the one it displaces is closed.
Admits(c, a) ==
    /\ c \in held
    /\ admitted = Nobody \/ MayDisplace(admitted, c, category[c], a)

DisplacedLeftOpen(c) == open

DisplacedClosed(c) == [d \in Conns |-> open[d] /\ ~(d = admitted.id /\ d # c)]

\* An attempt that is over holds off nobody.
AttemptOver(e) == IF e.pairing THEN [e EXCEPT !.pairing = FALSE, !.rank = 0] ELSE e

\* The whole of an activation.  A pairing attempt starts, or is refused at once: its
\* method does not fit the keys, or codes are paused after too many wrong ones.
Activate(c) ==
    /\ phase[c] = "loop" /\ open[c] /\ ~stop /\ activations < MaxActivations
    /\ activations' = activations + 1
    /\ \E a \in Acts :
        \/ /\ ~Admissible(category[c], a) \/ (~in[c] /\ ~Admits(c, a))
           /\ Leaves(c)
           /\ UNCHANGED <<in, admitted, last>>
        \/ /\ Admissible(category[c], a)
           /\ IF in[c]
              THEN UNCHANGED <<open, in>>
              ELSE /\ Admits(c, a)
                   /\ open' = DisplacedClosed(c)
                   /\ in' = [in EXCEPT ![c] = TRUE]
           /\ last' = IF a.playback /\ category[c] = "LongTerm" THEN Server(c) ELSE last
           /\ \E attempt \in {FALSE, a.pairing} :
                /\ phase' = IF attempt THEN [phase EXCEPT ![c] = "pairing"] ELSE phase
                /\ admitted' = IF in[c] /\ admitted.id # c THEN admitted
                               ELSE IF attempt THEN Entry(c, a) ELSE AttemptOver(Entry(c, a))
    /\ UNCHANGED <<next, held, making, addr, category, stop, paired>>

\* The attempt's end: paired, a wrong code (which ends the connection), or given up.
PairingEnds(c) ==
    /\ phase[c] = "pairing"
    /\ admitted' = IF admitted.id = c THEN AttemptOver(admitted) ELSE admitted
    /\ \/ /\ open[c] /\ paired' = paired \cup {Server(c)}
          /\ phase' = [phase EXCEPT ![c] = "loop"] /\ UNCHANGED open
       \/ phase' = [phase EXCEPT ![c] = "loop"] /\ UNCHANGED <<paired, open>>
       \/ Leaves(c) /\ UNCHANGED paired
    /\ UNCHANGED <<next, held, making, conn, stop, last, activations>>

\* New keys, once the server has a record here.
Rehandshake(c) ==
    /\ phase[c] = "loop" /\ open[c] /\ category[c] # "LongTerm" /\ Server(c) \in paired
    /\ category' = [category EXCEPT ![c] = "LongTerm"]
    /\ UNCHANGED <<next, held, making, admitted, phase, open, addr, in, stop, stored, activations>>

Unpair(c) ==
    /\ phase[c] = "loop" /\ open[c] /\ category[c] = "LongTerm"
    /\ paired' = paired \ {Server(c)}
    /\ Leaves(c)
    /\ UNCHANGED <<next, held, making, admitted, conn, stop, last, activations>>

\* The thread finds its socket closed, by us or the peer, or the service stopped.
Notices(c) ==
    /\ phase[c] \in {"handshake", "loop"}
    /\ Leaves(c)
    /\ UNCHANGED <<next, held, making, admitted, conn, stop, stored, activations>>

\* The handler's end: admission is given up if it is still this connection's.
Release(c) ==
    /\ phase[c] = "ending"
    /\ phase' = [phase EXCEPT ![c] = "ended"]
    /\ admitted' = IF admitted.id = c THEN Nobody ELSE admitted
    /\ category' = [category EXCEPT ![c] = "Sentinel"]
    /\ in' = [in EXCEPT ![c] = FALSE]
    /\ UNCHANGED <<next, held, making, addr, open, stop, stored, activations>>

SlotDrops(c) ==
    /\ phase[c] = "ended" /\ c \in held
    /\ held' = held \ {c}
    /\ addr' = [addr EXCEPT ![c] = None]
    /\ UNCHANGED <<next, making, admitted, phase, open, category, in, stop, stored, activations>>

-----------------------------------------------------------------------------
(* The deadline thread, the peer and the service. *)

\* The deadline has passed.  One admitted since the look-up is closed too, which its thread
\* cannot tell from its peer closing it: Notices.
Deadline(c) ==
    /\ ~stop /\ phase[c] \notin {"none", "ended"} /\ open[c] /\ admitted.id # c
    /\ open' = [open EXCEPT ![c] = FALSE]
    /\ UNCHANGED <<next, held, making, admitted, phase, conn, stop, stored, activations>>

Stop ==
    /\ ~stop
    /\ stop' = TRUE
    /\ admitted' = Nobody
    /\ open' = [c \in Conns |-> open[c] /\ c # admitted.id]
    /\ UNCHANGED <<next, held, making, phase, conn, stored, activations>>

-----------------------------------------------------------------------------
Next ==
    \/ Accept \/ Spawn \/ SpawnFails \/ Stop
    \/ \E c \in Conns : Handshake(c)
    \/ \E c \in Conns : Activate(c)
    \/ \E c \in Conns : PairingEnds(c)
    \/ \E c \in Conns : Rehandshake(c)
    \/ \E c \in Conns : Unpair(c)
    \/ \E c \in Conns : Notices(c)
    \/ \E c \in Conns : Release(c)
    \/ \E c \in Conns : SlotDrops(c)
    \/ \E c \in Conns : Deadline(c)

Spec == Init /\ [][Next]_vars

-----------------------------------------------------------------------------
\* The connections that have a slot are as many as there are, in all and for one address.
SlotsBounded ==
    /\ Cardinality(held) <= MAX_CONNECTIONS
    /\ \A a \in Addrs : Share(a, held) <= MAX_CONNECTIONS_PER_ADDRESS

\* Whoever is admitted has its slot, which no newcomer is given, until it gives admission up.
AdmittedHasSlot == admitted # Nobody => admitted.id \in held

\* Of the connections that were ever admitted only the admitted one still has a socket.
OneTalks ==
    \A c \in Conns : in[c] /\ open[c] => stop \/ admitted.id = c

\* A paired server's connection is displaced only by a paired server's, or its own.
StrangersWait ==
    [][admitted # Nobody /\ admitted' # Nobody /\ admitted'.id # admitted.id /\ admitted.category = "LongTerm"
           => admitted'.category = "LongTerm" \/ admitted'.server = admitted.server]_vars

\* One server talks at a time, of those with a slot, and a paired one yields only to a paired one.
ServersInTurn ==
    [][SlotsBounded' /\ AdmittedHasSlot' /\ OneTalks']_vars /\ StrangersWait
=============================================================================
